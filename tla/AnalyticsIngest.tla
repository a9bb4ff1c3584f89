--------------------------- MODULE AnalyticsIngest ---------------------------
(***************************************************************************)
(* The ingest of analytics events: the batches one API process works on,   *)
(* its in-memory tables (install times, keys in flight, locks per          *)
(* installation) and the event store it inserts into.                      *)
(*                                                                         *)
(* An event stands for its whole sort key, a batch for one request between *)
(* its catalog decisions and its answer.  Steps are cut where the code     *)
(* awaits; what runs between two awaits is one action.  An install time is *)
(* named by the event whose effective time it is.                          *)
(***************************************************************************)
EXTENDS Naturals, Sequences, SequencesExt, FiniteSets

CONSTANTS
    Batch,           \* requests being served
    Event,           \* events, each one sort key
    Installation,
    InstallationOf,  \* [Event -> Installation]
    Qualifying,      \* the events that may create an installation record
    Eff,             \* [Event -> Nat], effective times, all different
    LockOrder,       \* the installations, sorted as their identifiers are
    Offers,          \* the sets of events clients send in one batch
    MaxArrivals,     \* bound: requests received
    MaxFaults,       \* bound: failed reads and inserts, restarts, evictions
    None,            \* no installation record
    Unknown,         \* not cached
    Nobody,          \* a key no insert holds
    Blocked          \* a key whose insert failed a moment ago

ASSUME ShapeAssumption ==
    /\ InstallationOf \in [Event -> Installation]
    /\ Qualifying \subseteq Event
    /\ Eff \in [Event -> Nat]
    /\ Offers \subseteq SUBSET Event \ {{}}
    /\ MaxArrivals \in Nat /\ MaxFaults \in Nat
    /\ IsFiniteSet(Batch)
    /\ {Nobody, Blocked} \cap Batch = {} /\ Nobody # Blocked
    /\ {None, Unknown} \cap Event = {} /\ None # Unknown

VARIABLES
    events,    \* event store: event -> its rows in `events`, [received, base]
    states,    \* event store: event -> received times its aggregated state was written with
    late,      \* failed inserts that may still be applied: sets of rows
    installs,  \* cache: installation -> install time, None, Unknown
    inFlight,  \* event -> [by, received]: whose insert holds the key
    creating,  \* installation -> the batches in its lock chain, the holder first
    req,       \* batch -> what its request has done so far
    clock,     \* the last received time rows were stamped with
    warm,      \* the two seconds after the store became ready have passed
    arrivals, faults,   \* counters for the bounds
    answered,  \* ghost: events answered as accepted or duplicate
    failed     \* ghost: events of inserts that did not succeed

vars == <<events, states, late, installs, inFlight, creating, req, clock, warm,
          arrivals, faults, answered, failed>>
store  == <<events, states, late>>
memory == <<installs, inFlight, creating, req>>
ghosts == <<answered, failed>>

Time == 0 .. MaxArrivals
NoWait == [status |-> "none", by |-> Nobody, received |-> 0]
Free == [by |-> Nobody, received |-> 0]

Idle == [pc |-> "idle", evs |-> {}, recs |-> [i \in Installation |-> Unknown],
         missing |-> {}, create |-> {}, received |-> 0,
         dup |-> [e \in Event |-> 0], wait |-> [e \in Event |-> NoWait]]

StoredRows == [received : Time, base : Event \cup {None}]
SentRows == [ev : Event, received : Time, replay : BOOLEAN, base : Event \cup {None}]
Flights == [by : Batch \cup {Nobody, Blocked}, received : Time]
Waits == [status : {"none", "waiting", "failed", "stored"}, by : Batch \cup {Nobody}, received : Time]
Requests ==
    [pc : {"idle", "read", "cache", "lock", "recache", "await", "lookup", "insert", "landed"},
     evs : SUBSET Event, recs : [Installation -> Event \cup {None, Unknown}],
     missing : SUBSET Installation, create : SUBSET Installation, received : Time,
     dup : [Event -> Time], wait : [Event -> Waits]]

TypeOK ==
    /\ events \in [Event -> SUBSET StoredRows]
    /\ states \in [Event -> SUBSET Time]
    /\ \A rows \in late : rows \subseteq SentRows
    /\ installs \in [Installation -> Event \cup {None, Unknown}]
    /\ inFlight \in [Event -> Flights]
    /\ creating \in [Installation -> Seq(Batch)]
    /\ req \in [Batch -> Requests]
    /\ clock \in Time /\ warm \in BOOLEAN
    /\ arrivals \in 0 .. MaxArrivals /\ faults \in 0 .. MaxFaults
    /\ answered \subseteq Event /\ failed \subseteq Event

-----------------------------------------------------------------------------
(* The event store: the install time is the qualifying event received       *)
(* first, the earliest in time among those received together.               *)

Before(x, y) == \/ x[1] < y[1]
                \/ x[1] = y[1] /\ x[2] < y[2]

FirstOf(stamps) == CHOOSE x \in stamps : \A y \in stamps : x = y \/ Before(x, y)

EventAt(eff) == CHOOSE e \in Event : Eff[e] = eff

(* Mutant: no installation record reads as one not cached. *)
InstallAmongUnset(stamps) == IF stamps = {} THEN Unknown ELSE EventAt(FirstOf(stamps)[2])

(* The event named by the first of a set of <<received, effective time>>. *)
InstallAmong(stamps) == IF stamps = {} THEN None ELSE EventAt(FirstOf(stamps)[2])

StampsOf(i, s) == UNION {{<<t, Eff[e]>> : t \in s[e]} : e \in {x \in Qualifying : InstallationOf[x] = i}}

Install(i) == InstallAmong(StampsOf(i, states))

(* A block of rows reaches the views: `events` leaves replayed rows out. *)
EventsWith(rows) ==
    [e \in Event |-> events[e] \cup {[received |-> x.received, base |-> x.base] :
                                        x \in {y \in rows : y.ev = e /\ ~y.replay}}]
(* Mutant: the state views leave replayed rows out as `events` does. *)
StatesWithoutReplays(rows) ==
    [e \in Event |-> states[e] \cup {x.received : x \in {y \in rows : y.ev = e /\ ~y.replay}}]


StatesWith(rows) == [e \in Event |-> states[e] \cup {x.received : x \in {y \in rows : y.ev = e}}]

-----------------------------------------------------------------------------
(* A batch                                                                   *)

InstallationsOf(r) == {InstallationOf[e] : e \in r.evs}
QualifyingOf(r, i) == {e \in r.evs \cap Qualifying : InstallationOf[e] = i}
ToCreate(r) == {i \in InstallationsOf(r) : r.recs[i] = None /\ QualifyingOf(r, i) # {}}

StampOf(r, e) == IF r.dup[e] # 0 THEN r.dup[e] ELSE r.received

(* The install time a batch creates: its first qualifying event by the view's order. *)
Created(r, i) == IF i \in r.create /\ r.recs[i] = None
                 THEN InstallAmong({<<StampOf(r, e), Eff[e]>> : e \in QualifyingOf(r, i)})
                 ELSE None

InstallTime(r, i) == IF r.recs[i] # None THEN r.recs[i] ELSE Created(r, i)

Rows(r) == {[ev |-> e, received |-> StampOf(r, e), replay |-> r.dup[e] # 0,
             base |-> InstallTime(r, InstallationOf[e])] : e \in r.evs}

(* The cache answers first, the store for what it does not hold. *)
Cached(i) == installs[i] # Unknown
InstallRecords(is) == [i \in Installation |->
                          IF i \notin is THEN Unknown
                          ELSE IF Cached(i) THEN installs[i] ELSE Install(i)]

(* The batch gives its keys and the locks it holds back; those waiting on it  *)
(* learn whether its insert was acknowledged.  `keys` is what its keys become. *)
Finish(b, stored, keys) ==
    /\ inFlight' = [e \in Event |-> IF inFlight[e].by = b THEN [by |-> keys, received |-> 0]
                                    ELSE inFlight[e]]
    /\ creating' = [i \in Installation |->
                      IF creating[i] # <<>> /\ Head(creating[i]) = b THEN Tail(creating[i]) ELSE creating[i]]
    /\ req' = [c \in Batch |->
                 IF c = b THEN Idle
                 ELSE [req[c] EXCEPT !.wait = [e \in Event |->
                         IF @[e].status = "waiting" /\ @[e].by = b
                         THEN [status |-> IF stored THEN "stored" ELSE "failed", by |-> b,
                               received |-> inFlight[e].received]
                         ELSE @[e]]]]

(* 503, nothing held any more. *)
Refuse(b) == Finish(b, FALSE, Nobody)

(* The loop over concurrent copies: refuse while a key is blocked, wait for *)
(* copies in flight, else hold every key not already found stored.          *)
CheckCopies(b, r) ==
    LET blocked == \E e \in r.evs : inFlight[e].by = Blocked
        waiting == {e \in r.evs : inFlight[e].by \in Batch /\ r.dup[e] = 0}
        mine    == {e \in r.evs : r.dup[e] = 0}
    IN  \/ blocked /\ Refuse(b)
        \/ /\ ~blocked /\ waiting # {}
           /\ req' = [req EXCEPT ![b] = [r EXCEPT !.pc = "await",
                        !.wait = [e \in Event |-> IF e \in waiting
                                  THEN [status |-> "waiting", by |-> inFlight[e].by, received |-> 0]
                                  ELSE NoWait]]]
           /\ UNCHANGED <<inFlight, creating>>
        \/ /\ ~blocked /\ waiting = {}
           /\ inFlight' = [e \in Event |-> IF e \in mine THEN [by |-> b, received |-> r.received]
                                           ELSE inFlight[e]]
           /\ req' = [req EXCEPT ![b] = [r EXCEPT !.pc = IF mine = {} THEN "insert" ELSE "lookup",
                                                  !.wait = [e \in Event |-> NoWait]]]
           /\ UNCHANGED creating

(* The received time rows carry: later than every earlier batch's. *)
Stamp(r) == [r EXCEPT !.received = clock + 1]

-----------------------------------------------------------------------------
Init ==
    /\ events = [e \in Event |-> {}] /\ states = [e \in Event |-> {}] /\ late = {}
    /\ installs = [i \in Installation |-> Unknown]
    /\ inFlight = [e \in Event |-> Free]
    /\ creating = [i \in Installation |-> <<>>]
    /\ req = [b \in Batch |-> Idle]
    /\ clock = 0 /\ warm = FALSE /\ arrivals = 0 /\ faults = 0
    /\ answered = {} /\ failed = {}

(* A batch whose events passed validation and the catalog; none before the  *)
(* store has been ready for two seconds.  Copies within a batch are one.    *)
Arrive(b) ==
    /\ req[b].pc = "idle" /\ warm /\ arrivals < MaxArrivals
    /\ \E evs \in Offers : req' = [req EXCEPT ![b] = [Idle EXCEPT !.pc = "read", !.evs = evs]]
    /\ arrivals' = arrivals + 1
    /\ UNCHANGED <<store, installs, inFlight, creating, clock, warm, faults, ghosts>>

ReadInstalls(b) ==
    LET r == req[b]
    IN  /\ r.pc = "read"
        /\ req' = [req EXCEPT ![b] = [r EXCEPT !.pc = "cache",
                      !.recs = InstallRecords(InstallationsOf(r)),
                      !.missing = {i \in InstallationsOf(r) : ~Cached(i)}]]
        /\ UNCHANGED <<store, installs, inFlight, creating, clock, warm, arrivals, faults, ghosts>>

FirstLock(is) == CHOOSE i \in is : \A j \in is : \E m, n \in DOMAIN LockOrder :
                     LockOrder[m] = i /\ LockOrder[n] = j /\ m <= n

(* The answer is cached; a batch that creates nothing goes on, one that does *)
(* joins the chain of the first lock it needs.                               *)
CacheInstalls(b) ==
    LET r == [req[b] EXCEPT !.create = ToCreate(req[b])]
    IN  /\ r.pc = "cache"
        /\ installs' = [i \in Installation |-> IF i \in r.missing THEN r.recs[i] ELSE installs[i]]
        /\ \/ /\ r.create = {}
              /\ clock' = clock + 1
              /\ CheckCopies(b, Stamp(r))
           \/ /\ r.create # {}
              /\ creating' = [creating EXCEPT ![FirstLock(r.create)] = Append(@, b)]
              /\ req' = [req EXCEPT ![b] = [r EXCEPT !.pc = "lock"]]
              /\ UNCHANGED <<inFlight, clock>>
        /\ UNCHANGED <<store, warm, arrivals, faults, ghosts>>

ChainedOn(b) == {i \in Installation : b \in Range(creating[i])}
(* Mutants: joining a chain is taken for holding its lock; a lock is free only *)
(* once nobody waits for it.                                                  *)
JoinedAll(b) == TRUE
AloneOnAll(b) == \A i \in ChainedOn(b) : creating[i] = <<b>>

HoldsAll(b) == \A i \in ChainedOn(b) : Head(creating[i]) = b

(* A lock obtained: the next one in order, or, holding all of them, the      *)
(* received time, and the install times read again from the store alone.     *)
TakeLock(b) ==
    LET r == req[b]
        rest == r.create \ ChainedOn(b)
    IN  /\ r.pc = "lock" /\ HoldsAll(b)
        /\ \/ /\ rest # {}
              /\ creating' = [creating EXCEPT ![FirstLock(rest)] = Append(@, b)]
              /\ UNCHANGED <<req, installs, clock>>
           \/ /\ rest = {}
              /\ clock' = clock + 1
              /\ installs' = [i \in Installation |-> IF i \in r.create THEN Unknown ELSE installs[i]]
              /\ req' = [req EXCEPT ![b] = [Stamp(r) EXCEPT !.pc = "recache",
                            !.recs = [i \in Installation |-> IF i \in r.create THEN Install(i) ELSE r.recs[i]]]]
              /\ UNCHANGED creating
        /\ UNCHANGED <<store, inFlight, warm, arrivals, faults, ghosts>>

Recache(b) ==
    LET r == req[b]
    IN  /\ r.pc = "recache"
        /\ installs' = [i \in Installation |-> IF i \in r.create THEN r.recs[i] ELSE installs[i]]
        /\ CheckCopies(b, r)
        /\ UNCHANGED <<store, clock, warm, arrivals, faults, ghosts>>

(* Every copy waited for has an outcome: one that failed refuses the batch,   *)
(* the others give the received time their event is stored under.             *)
Resume(b) ==
    LET r == req[b]
    IN  /\ r.pc = "await" /\ \A e \in Event : r.wait[e].status # "waiting"
        /\ \/ (\E e \in Event : r.wait[e].status = "failed") /\ Refuse(b)
           \/ /\ \A e \in Event : r.wait[e].status # "failed"
              /\ CheckCopies(b, [r EXCEPT !.dup = [e \in Event |->
                                    IF r.wait[e].status = "stored" THEN r.wait[e].received ELSE @[e]]])
        /\ UNCHANGED <<store, installs, clock, warm, arrivals, faults, ghosts>>

(* One primary-key read; a copy waiting on a key found stored replays its     *)
(* stored time too.                                                           *)
Lookup(b) ==
    LET r == req[b]
        found == {e \in r.evs : r.dup[e] = 0 /\ events[e] # {}}
        storedAt(e) == (CHOOSE x \in events[e] : TRUE).received
    IN  /\ r.pc = "lookup"
        /\ req' = [req EXCEPT ![b] = [r EXCEPT !.pc = "insert",
                      !.dup = [e \in Event |-> IF e \in found THEN storedAt(e) ELSE @[e]]]]
        /\ inFlight' = [e \in Event |-> IF e \in found /\ inFlight[e].by = b
                                        THEN [by |-> b, received |-> storedAt(e)] ELSE inFlight[e]]
        /\ UNCHANGED <<store, installs, creating, clock, warm, arrivals, faults, ghosts>>

(* The store applies the insert. *)
Land(b) ==
    /\ req[b].pc = "insert"
    /\ events' = EventsWith(Rows(req[b])) /\ states' = StatesWith(Rows(req[b]))
    /\ req' = [req EXCEPT ![b].pc = "landed"]
    /\ UNCHANGED <<late, installs, inFlight, creating, clock, warm, arrivals, faults, ghosts>>

(* Its acknowledgement arrives: the created install times are cached and the  *)
(* client is answered, each event accepted or duplicate.                      *)
Acknowledge(b) ==
    LET r == req[b]
    IN  /\ r.pc = "landed"
        /\ installs' = [i \in Installation |-> IF Created(r, i) # None THEN Created(r, i) ELSE installs[i]]
        /\ answered' = answered \cup r.evs
        /\ Finish(b, TRUE, Nobody)
        /\ UNCHANGED <<store, clock, warm, arrivals, faults, failed>>

(* A read the store does not answer: 503. *)
ReadFails(b) ==
    /\ req[b].pc \in {"read", "recache", "lookup"} /\ faults < MaxFaults
    /\ faults' = faults + 1
    /\ Refuse(b)
    /\ UNCHANGED <<store, installs, clock, warm, arrivals, ghosts>>

(* What becomes of rows whose insert was not acknowledged: nothing, an        *)
(* application later on, or some of the views written.                        *)
Unacknowledged(rows) ==
    \/ UNCHANGED store
    \/ late' = late \cup {rows} /\ UNCHANGED <<events, states>>
    \/ events' = EventsWith(rows) /\ UNCHANGED <<states, late>>
    \/ states' = StatesWith(rows) /\ UNCHANGED <<events, late>>

(* The insert fails for the client, applied or not: its keys are blocked. *)
InsertFails(b) ==
    /\ req[b].pc \in {"insert", "landed"} /\ faults < MaxFaults
    /\ faults' = faults + 1
    /\ IF req[b].pc = "insert" THEN Unacknowledged(Rows(req[b])) ELSE UNCHANGED store
    /\ failed' = failed \cup req[b].evs
    /\ Finish(b, FALSE, Blocked)
    /\ UNCHANGED <<installs, clock, warm, arrivals, answered>>

(* A failed insert is applied after all, or turns out lost. *)
Settle(rows) ==
    /\ late' = late \ {rows}
    /\ \/ events' = EventsWith(rows) /\ states' = StatesWith(rows)
       \/ UNCHANGED <<events, states>>
    /\ UNCHANGED <<memory, clock, warm, arrivals, faults, ghosts>>

(* Mutant: the block is shorter than the event store takes to apply an insert. *)
NeverPending(e) == FALSE

Pending(e) == \E rows \in late : \E x \in rows : x.ev = e

(* Ten seconds after the failure.  The code's premise: by then the failed     *)
(* insert is applied or lost.                                                 *)
Unblock(e) ==
    /\ inFlight[e].by = Blocked /\ ~Pending(e)
    /\ inFlight' = [inFlight EXCEPT ![e] = Free]
    /\ UNCHANGED <<store, installs, creating, req, clock, warm, arrivals, faults, ghosts>>

(* The cache holds a bounded number of installations, and erasure and         *)
(* pruning evict from it.                                                     *)
Evict(i) ==
    /\ Cached(i) /\ faults < MaxFaults
    /\ faults' = faults + 1
    /\ installs' = [installs EXCEPT ![i] = Unknown]
    /\ UNCHANGED <<store, inFlight, creating, req, clock, warm, arrivals, ghosts>>

(* The process stops and starts: its memory is gone, an insert it had sent    *)
(* may still be applied.                                                      *)
Restart ==
    /\ faults < MaxFaults /\ warm
    /\ faults' = faults + 1
    /\ \E sent \in SUBSET {b \in Batch : req[b].pc = "insert"} :
           late' = late \cup {Rows(req[b]) : b \in sent}
    /\ failed' = failed \cup UNION {req[b].evs : b \in {c \in Batch : req[c].pc \in {"insert", "landed"}}}
    /\ installs' = [i \in Installation |-> Unknown]
    /\ inFlight' = [e \in Event |-> Free]
    /\ creating' = [i \in Installation |-> <<>>]
    /\ req' = [b \in Batch |-> Idle]
    /\ warm' = FALSE
    /\ UNCHANGED <<events, states, clock, arrivals, answered>>

(* Two seconds after the store became ready.  The code's premise: a flush is  *)
(* never longer in coming.                                                    *)
WarmUp ==
    /\ ~warm /\ late = {}
    /\ warm' = TRUE
    /\ UNCHANGED <<store, memory, clock, arrivals, faults, ghosts>>

Work(b) == \/ ReadInstalls(b) \/ CacheInstalls(b) \/ TakeLock(b) \/ Recache(b) \/ Resume(b)
           \/ Lookup(b) \/ Land(b) \/ Acknowledge(b)

Next == \/ \E b \in Batch : Arrive(b) \/ Work(b) \/ ReadFails(b) \/ InsertFails(b)
        \/ \E rows \in late : Settle(rows)
        \/ \E e \in Event : Unblock(e)
        \/ \E i \in Installation : Evict(i)
        \/ Restart \/ WarmUp

Spec == Init /\ [][Next]_vars

(* A request's own steps are taken: the event loop runs every callback, and   *)
(* a read or an insert is answered or times out.                              *)
FairSpec == Spec /\ \A b \in Batch : WF_vars(Work(b))

-----------------------------------------------------------------------------
(* An event is stored once, and answered only when its row and its state are. *)
LogTime(e) == IF events[e] = {} THEN 0
              ELSE IF Cardinality(events[e]) = 1 THEN (CHOOSE x \in events[e] : TRUE).received
              ELSE MaxArrivals + 1

Log == INSTANCE EventLog WITH log <- [e \in Event |-> LogTime(e)], answered <- answered

(* Concurrent copies, retries after a failed insert that was or will be       *)
(* applied, and retries after a restart never store an event twice, and       *)
(* "accepted" or "duplicate" is only ever said of a stored event              *)
(* (store_, and the comment on it: "having stored nothing it did not store"). *)
ImplementsLog == Log!Spec

(* An answered event has its installation state too: a duplicate is replayed, *)
(* which completes a state a failed view left out (0001_events.sql).          *)
AnsweredHaveState == \A e \in answered : states[e] # {}

(* Install ages are stored on the row and never recomputed: whatever batches  *)
(* create one installation together, every qualifying row's age is counted    *)
(* from the installation's one install time, unless an insert for that        *)
(* installation failed (the per-installation lock, and the received time      *)
(* taken under it).                                                           *)
AgesFromInstall ==
    \A e \in Qualifying : LET i == InstallationOf[e]
                          IN  (\A f \in failed : InstallationOf[f] # i) =>
                                 \A x \in events[e] : x.base = Install(i)

-----------------------------------------------------------------------------
(* Why an event is stored once.                                              *)
Sending == {"lookup", "insert", "landed"}
Stamped == {"recache", "await"} \cup Sending

Unstamped == {b \in Batch : req[b].pc \in {"read", "cache", "lock"}}

\* A request in hand: nothing is ingested before warm-up, and what it does not know yet.
RequestFits(b) ==
    /\ ~warm => req[b].pc = "idle"
    /\ req[b].pc \in Stamped => req[b].received # 0
    /\ req[b].pc \notin {"idle", "read"} =>
          \A e \in req[b].evs : req[b].recs[InstallationOf[e]] # Unknown

\* A batch takes one received time.
RequestsFit ==
    /\ clock + Cardinality(Unstamped) <= arrivals
    /\ \A b \in Batch : RequestFits(b)

\* A key is its holder's from the lookup on, and only the holder sends its event as new.
KeysHeld == \A e \in Event, b \in Batch :
    /\ inFlight[e].by = b => req[b].pc \in Sending /\ e \in req[b].evs
    /\ req[b].pc \in Sending /\ e \in req[b].evs /\ req[b].dup[e] = 0 => inFlight[e].by = b

\* What is known or waited for as a copy is stored or on its way.
CopiesKnown == \A e \in Event, b \in Batch :
    /\ req[b].dup[e] # 0 => events[e] # {}
    /\ req[b].wait[e].status = "stored" => events[e] # {}
    /\ req[b].wait[e].status = "waiting" =>
          req[b].wait[e].by \in Batch /\ inFlight[e].by = req[b].wait[e].by

StoredOnce == \A e \in Event :
    /\ \A x, y \in events[e] : x = y
    /\ \A x \in events[e] : x.received # 0
    /\ e \in answered => events[e] # {} /\ states[e] # {}
    /\ \A b \in Batch : e \in req[b].evs =>
          /\ req[b].pc = "insert" /\ req[b].dup[e] = 0 => events[e] = {}
          /\ req[b].pc = "landed" => events[e] # {} /\ states[e] # {}

\* A new event that may still be applied has its key blocked, or nothing is ingested yet.
LateBlocked ==
    \A rows \in late : \A x \in rows : ~x.replay =>
        /\ events[x.ev] = {} /\ x.received # 0
        /\ warm => inFlight[x.ev].by = Blocked
        /\ \A others \in late : \A y \in others : ~y.replay /\ y.ev = x.ev => others = rows /\ x = y

LogInv == TypeOK /\ RequestsFit /\ KeysHeld /\ CopiesKnown /\ StoredOnce /\ LateBlocked

(* Why install ages agree, in an installation no insert has failed for.       *)
Clean(i) == \A f \in failed : InstallationOf[f] # i
Stamps(i) == StampsOf(i, states)

\* Times in the store and on requests are past, and late rows are of failed inserts.
TimesPast ==
    /\ \A b \in Batch : req[b].received <= clock
    /\ \A e \in Event : Clean(InstallationOf[e]) => \A t \in states[e] : t <= clock
    /\ \A rows \in late : \A x \in rows : x.ev \in failed

\* A copy carries the time its event is stored with.
CopyFits(e, b) ==
    /\ req[b].dup[e] # 0 => req[b].dup[e] \in states[e]
    /\ req[b].wait[e].status = "stored" => req[b].wait[e].received \in states[e]
    /\ inFlight[e].by = b => inFlight[e].received = StampOf(req[b], e)
    /\ req[b].pc = "landed" /\ e \in req[b].evs => StampOf(req[b], e) \in states[e]

CopiesAgree == \A e \in Event : Clean(InstallationOf[e]) =>
    /\ \A x \in events[e] : x.received \in states[e]
    /\ \A b \in Batch : CopyFits(e, b)

\* A batch either knows the record of an installation it has qualifying events of,
\* and carries a later time, or holds the lock and creates the record.
RecordFits(i, b) ==
    /\ req[b].pc \notin {"idle", "read"} => req[b].recs[i] \in {Unknown, None, Install(i)}
    /\ QualifyingOf(req[b], i) # {} =>
          /\ req[b].pc = "lock" /\ req[b].recs[i] = None => i \in req[b].create
          /\ req[b].pc \in Stamped =>
                IF req[b].recs[i] = None
                THEN /\ i \in req[b].create /\ creating[i] # <<>> /\ Head(creating[i]) = b
                     /\ IF req[b].pc = "landed" THEN Install(i) = Created(req[b], i) ELSE Stamps(i) = {}
                ELSE /\ Stamps(i) # {} /\ FirstOf(Stamps(i))[1] < req[b].received

RecordsAgree == \A i \in Installation : Clean(i) =>
    /\ installs[i] \in {Unknown, None, Install(i)}
    /\ \A b \in Batch : RecordFits(i, b)

AgesInv == LogInv /\ TimesPast /\ CopiesAgree /\ RecordsAgree /\ AgesFromInstall

(* Every request is answered: a batch waiting for locks and for other         *)
(* batches' copies is never part of a cycle.                                  *)
Answered == \A b \in Batch : req[b].pc # "idle" ~> req[b].pc = "idle"
=============================================================================
