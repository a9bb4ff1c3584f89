----------------------------- MODULE EventQueue -----------------------------
(***************************************************************************)
(* The SDK's analytics queue in a browser: the tabs of one origin, each    *)
(* with its queue in memory, the store they share (IndexedDB), the flush   *)
(* lock, and requests to the server that may fail or go unanswered.        *)
(*                                                                         *)
(* Events are numbered in the order of their timestamps.  A tab is one     *)
(* thread: what runs between two awaits is one action.                     *)
(***************************************************************************)
EXTENDS Naturals, Sequences, FiniteSets, FiniteSetsExt

CONSTANTS
    Tab,
    NumEvents,   \* bound: events tracked
    TrackedIn,   \* bound: event -> the tabs that may track it
    HiddenTabs,  \* bound: the tabs whose page may be hidden
    Standard,    \* the standard events, dropped last from a full queue
    Launches,    \* the app_started events: tracked with a parameter to fix at the first send
    QueueSize, BatchSize,
    MaxFaults,   \* bound: requests that fail, reads and writes refused, pages that die
    NoTab

Event == 1 .. NumEvents

ASSUME ShapeAssumption ==
    /\ NumEvents \in Nat /\ MaxFaults \in Nat
    /\ TrackedIn \in [Event -> SUBSET Tab]
    /\ HiddenTabs \subseteq Tab
    /\ Standard \subseteq Event /\ Launches \subseteq Event
    /\ QueueSize \in Nat \ {0} /\ BatchSize \in Nat \ {0}
    /\ NoTab \notin Tab

VARIABLES
    store,      \* the events in the shared store
    tab,        \* tab -> its memory
    lock,       \* the tab that flushes, or NoTab
    tracked,    \* events tracked so far
    owed,       \* ghost: tracked, and neither answered, nor told to onDrop, nor lost with its page
    faults,
    refused,    \* ghost: events whose write the store refused
    delivered   \* ghost: events a flush had answered, but those a queue took back (see NoResend)

vars == <<store, tab, lock, tracked, owed, faults, refused, delivered>>

Write == [removes : SUBSET Event, puts : SUBSET Event]

(* A page just opened, and one that is not there. *)
Fresh == [alive |-> TRUE, loaded |-> FALSE, items |-> {}, marked |-> {}, unsaved |-> {},
          unremoved |-> {}, writes |-> <<>>, awaits |-> 0, pc |-> "none", seen |-> {},
          batch |-> {}, maxBatch |-> BatchSize, keepalive |-> {}]
Dead == [Fresh EXCEPT !.alive = FALSE]

Phases == {"none", "load", "persist", "merge", "loop", "sent", "finally"}

(* marked: launches whose copy in memory may still have its parameter to fix;  *)
(* awaits: the writes at the head of the chain that the flush waits for.        *)
Memory == [alive : BOOLEAN, loaded : BOOLEAN, items : SUBSET Event, marked : SUBSET Event,
           unsaved : SUBSET Event, unremoved : SUBSET Event, writes : Seq(Write), awaits : Nat,
           pc : Phases, seen : SUBSET Event, batch : SUBSET Event, maxBatch : Nat,
           keepalive : SUBSET Event]

TypeOK ==
    /\ store \subseteq Event /\ tab \in [Tab -> Memory] /\ lock \in Tab \cup {NoTab}
    /\ tracked \in 0 .. NumEvents /\ owed \subseteq Event
    /\ faults \in 0 .. MaxFaults
    /\ refused \subseteq Event /\ delivered \subseteq Event

(* The sizes of a queue and of a batch. *)
SizesOK ==
    \A t \in Tab : Cardinality(tab[t].items) <= QueueSize /\ tab[t].maxBatch \in 1 .. BatchSize

-----------------------------------------------------------------------------
(* A tab's memory                                                            *)

(* Past the queue's size the oldest integrator event goes, standard ones last; *)
(* the result is what stays.                                                   *)
Oldest(q) == IF q \subseteq Standard THEN Min(q) ELSE Min(q \ Standard)

Bounded[q \in SUBSET Event] == IF Cardinality(q) <= QueueSize THEN q ELSE Bounded[q \ {Oldest(q)}]

(* Events leave memory and are to leave the store. *)
Forget(m, es) == [m EXCEPT !.items = @ \ es, !.marked = @ \ es, !.unsaved = @ \ es,
                           !.unremoved = @ \cup es]

(* Mutant: the queue grows past its size. *)
WithItemsUncut(m, q) == [m EXCEPT !.items = q]

(* The queue becomes q, cut to its size. *)
WithItems(m, q) == Forget([m EXCEPT !.items = q], q \ Bounded[q])

(* What is pending joins the chain of writes. *)
PersistNow(m) ==
    IF m.unsaved = {} /\ m.unremoved = {} THEN m
    ELSE [m EXCEPT !.writes = Append(@, [removes |-> m.unremoved, puts |-> m.unsaved]),
                   !.unsaved = {}, !.unremoved = {}]

(* The flush writes what is pending, and waits for the chain as it is then. *)
Awaiting(m, pc) == [PersistNow(m) EXCEPT !.pc = pc, !.awaits = Len(PersistNow(m).writes)]

(* The first write of the chain is over. *)
Written(m) == [m EXCEPT !.writes = Tail(@), !.awaits = IF @ = 0 THEN 0 ELSE @ - 1]

(* A stored copy takes the place of the one in memory, its marker with it. *)
Adopt(m, stored) == [m EXCEPT !.marked = @ \cup (stored \cap Launches)]

(* Copies about to be sent have their parameter fixed; those it was fixed in    *)
(* are to be written again.                                                     *)
Resolve(m, es, fixed) == [m EXCEPT !.marked = @ \ es, !.unsaved = @ \cup fixed]

(* The n oldest of es. *)
First(n, es) == {e \in es : Cardinality({f \in es : f < e}) < n}

Put(m, t) == tab' = [tab EXCEPT ![t] = m]

(* What a chain of writes is to put, and to remove. *)
PutsOf(ws) == UNION {ws[n].puts : n \in DOMAIN ws}
RemovesOf(ws) == UNION {ws[n].removes : n \in DOMAIN ws}

InMemory(t) == tab[t].items \cup PutsOf(tab[t].writes)

-----------------------------------------------------------------------------
Init ==
    /\ store = {} /\ lock = NoTab
    /\ tab = [t \in Tab |-> Fresh]
    /\ tracked = 0 /\ owed = {}
    /\ faults = 0 /\ refused = {} /\ delivered = {}

(* A fault of the network, the store or the page. *)
Fault == faults < MaxFaults /\ faults' = faults + 1

(* A full queue tells onDrop of what it drops. *)
Track(t) ==
    LET e == tracked + 1
        q == tab[t].items \cup {e}
    IN  /\ tab[t].alive /\ tracked < NumEvents /\ t \in TrackedIn[e]
        /\ tracked' = e
        /\ Put(WithItems([Adopt(tab[t], {e}) EXCEPT !.unsaved = @ \cup {e}], q), t)
        /\ owed' = (owed \cup {e}) \ (q \ Bounded[q])
        /\ UNCHANGED <<store, lock, faults, refused, delivered>>

(* The persisted queue is read once and folded into memory. *)
Load(t) ==
    LET q == tab[t].items \cup (store \ tab[t].unremoved)
    IN  /\ tab[t].alive /\ ~tab[t].loaded
        /\ Put(WithItems([Adopt(tab[t], q \cap store) EXCEPT !.loaded = TRUE], q), t)
        /\ owed' = owed \ (q \ Bounded[q])
        /\ UNCHANGED <<store, lock, tracked, faults, refused, delivered>>

(* A queue that cannot be read: the tab starts with what it holds. *)
LoadFails(t) ==
    /\ tab[t].alive /\ ~tab[t].loaded /\ Fault
    /\ Put([tab[t] EXCEPT !.loaded = TRUE], t)
    /\ UNCHANGED <<store, lock, tracked, owed, refused, delivered>>

(* The debounce timer. *)
Persist(t) ==
    /\ tab[t].alive /\ PersistNow(tab[t]) # tab[t]
    /\ Put(PersistNow(tab[t]), t)
    /\ UNCHANGED <<store, lock, tracked, owed, faults, refused, delivered>>

(* One of the first k writes of ws removes e, and no later one puts it back. *)
RemovalPending(e, ws, k) ==
    \E n \in 1 .. k : e \in ws[n].removes /\ \A i \in n .. Len(ws) : e \notin ws[i].puts

(* The flush of m removes e from the store before it releases the lock. *)
Leaving(e, m) ==
    \/ m.pc \in {"loop", "sent"} /\ (e \in m.unremoved \/ RemovalPending(e, m.writes, Len(m.writes)))
    \/ m.pc = "finally" /\ RemovalPending(e, m.writes, m.awaits)

(* One write of the chain: the removals, then the puts.  What was delivered    *)
(* and is put back is no longer, unless a removal follows under the lock.      *)
WriteNext(t) ==
    LET w == Head(tab[t].writes)
    IN  /\ tab[t].alive /\ tab[t].writes # <<>>
        /\ IF w.removes # {}
           THEN /\ store' = store \ w.removes
                /\ Put(IF w.puts = {} THEN Written(tab[t])
                       ELSE [tab[t] EXCEPT !.writes[1].removes = {}], t)
                /\ UNCHANGED delivered
           ELSE /\ store' = store \cup w.puts
                /\ Put(Written(tab[t]), t)
                /\ delivered' = {e \in delivered : e \in w.puts => \E u \in Tab : Leaving(e, tab'[u])}
        /\ UNCHANGED <<lock, tracked, owed, faults, refused>>

(* A write the store refuses is given up, its puts with its removals. *)
WriteRefused(t) ==
    LET w == Head(tab[t].writes)
    IN  /\ tab[t].alive /\ tab[t].writes # <<>>
        /\ Fault
        /\ refused' = refused \cup w.puts
        /\ delivered' = delivered \ w.removes
        /\ Put(Written(tab[t]), t)
        /\ UNCHANGED <<store, lock, tracked, owed>>

-----------------------------------------------------------------------------
(* A flush: one tab at a time, a timer's skips while another holds the lock.  *)

Flush(t) ==
    /\ tab[t].alive /\ tab[t].pc = "none" /\ lock = NoTab
    /\ lock' = t
    /\ Put([tab[t] EXCEPT !.pc = "load"], t)
    /\ UNCHANGED <<store, tracked, owed, faults, refused, delivered>>

FlushPersist(t) ==
    /\ tab[t].pc = "load" /\ tab[t].loaded
    /\ Put(Awaiting(tab[t], "persist"), t)
    /\ UNCHANGED <<store, lock, tracked, owed, faults, refused, delivered>>

(* What was held here is written: the store, read again, is the queue. *)
FlushRead(t) ==
    /\ tab[t].pc = "persist" /\ tab[t].awaits = 0
    /\ Put([tab[t] EXCEPT !.pc = "merge", !.seen = store], t)
    /\ UNCHANGED <<store, lock, tracked, owed, faults, refused, delivered>>

(* The read that fails: the flush goes on with the queue in memory, where       *)
(* events another tab delivered may still be.                                   *)
FlushReadFails(t) ==
    /\ tab[t].pc = "persist" /\ tab[t].awaits = 0 /\ Fault
    /\ Put([tab[t] EXCEPT !.pc = "loop"], t)
    /\ delivered' = delivered \ tab[t].items
    /\ UNCHANGED <<store, lock, tracked, owed, refused>>

(* Mutant: the store read again replaces the queue. *)
MergeStoreOnly(t) ==
    LET q == tab[t].seen \ tab[t].unremoved
    IN  /\ tab[t].pc = "merge"
        /\ Put(WithItems([Adopt(tab[t], q \cap tab[t].seen) EXCEPT !.pc = "loop", !.seen = {},
                              !.marked = @ \cap q], q), t)
        /\ owed' = owed \ (q \ Bounded[q])
        /\ UNCHANGED <<store, lock, tracked, faults, refused, delivered>>

Merge(t) ==
    LET q == (tab[t].seen \ tab[t].unremoved) \cup (tab[t].items \cap tab[t].unsaved)
    IN  /\ tab[t].pc = "merge"
        /\ Put(WithItems([Adopt(tab[t], q \cap tab[t].seen) EXCEPT !.pc = "loop", !.seen = {},
                              !.marked = @ \cap q], q), t)
        /\ owed' = owed \ (q \ Bounded[q])
        /\ UNCHANGED <<store, lock, tracked, faults, refused, delivered>>

(* The next batch, with its launches fixed at their first send. *)
SendNext(t) ==
    /\ tab[t].pc = "loop" /\ tab[t].items # {}
    /\ LET batch == First(tab[t].maxBatch, tab[t].items)
       IN  \E fixed \in SUBSET (batch \cap tab[t].marked) :
              Put([Resolve(tab[t], batch, fixed) EXCEPT !.pc = "sent", !.batch = batch], t)
    /\ UNCHANGED <<store, lock, tracked, owed, faults, refused, delivered>>

(* The end: nothing queued, or held back by a pause, a backoff, or a          *)
(* deployment that does not list analytics.                                   *)
Stop(t) ==
    /\ tab[t].pc = "loop"
    /\ Put(Awaiting(tab[t], "finally"), t)
    /\ UNCHANGED <<store, lock, tracked, owed, faults, refused, delivered>>

Settled(m) == [Forget(m, m.batch) EXCEPT !.pc = "loop", !.batch = {}]

(* The server's answer on the batch, its refusals included, is final. *)
Answered(t) ==
    /\ tab[t].pc = "sent"
    /\ Put(Settled(tab[t]), t)
    /\ owed' = owed \ tab[t].batch
    /\ delivered' = delivered \cup tab[t].batch
    /\ UNCHANGED <<store, lock, tracked, faults, refused>>

(* 413: the batch is halved; a single event too large is dropped. *)
TooLarge(t) ==
    LET n == Cardinality(tab[t].batch)
    IN  /\ tab[t].pc = "sent" /\ Fault
        /\ IF n > 1
           THEN /\ Put([tab[t] EXCEPT !.pc = "loop", !.batch = {}, !.maxBatch = (n + 1) \div 2], t)
                /\ UNCHANGED owed
           ELSE Put(Settled(tab[t]), t) /\ owed' = owed \ tab[t].batch
        /\ UNCHANGED <<store, lock, tracked, refused, delivered>>

(* A pause, a failure, or an answer that never came: nothing is removed. *)
Unanswered(t) ==
    /\ tab[t].pc = "sent" /\ Fault
    /\ Put([Awaiting(tab[t], "finally") EXCEPT !.batch = {}], t)
    /\ UNCHANGED <<store, lock, tracked, owed, refused, delivered>>

(* Mutants: the lock is released before the removals are written, or never. *)
ReleaseEarly(t) ==
    /\ tab[t].pc = "finally"
    /\ lock' = NoTab
    /\ Put([tab[t] EXCEPT !.pc = "none"], t)
    /\ UNCHANGED <<store, tracked, owed, faults, refused, delivered>>

ReleaseNever(t) ==
    /\ tab[t].pc = "finally" /\ tab[t].awaits = 0
    /\ Put([tab[t] EXCEPT !.pc = "none"], t)
    /\ UNCHANGED <<store, lock, tracked, owed, faults, refused, delivered>>

(* The lock is kept until what was sent is gone from the store. *)
Release(t) ==
    /\ tab[t].pc = "finally" /\ tab[t].awaits = 0
    /\ lock' = NoTab
    /\ Put([tab[t] EXCEPT !.pc = "none"], t)
    /\ UNCHANGED <<store, tracked, owed, faults, refused, delivered>>

-----------------------------------------------------------------------------
(* A page hidden writes what is pending and sends what fits, in requests of at *)
(* most maxBatch events; it takes no lock, and removes nothing before the      *)
(* server answers.  The launches of a batch are fixed before the batch is cut  *)
(* to what fits, so a few more may be fixed than are sent; they are written.   *)
Hide(t) ==
    /\ tab[t].alive /\ t \in HiddenTabs
    /\ LET m == PersistNow(tab[t])
           pending == m.items \ m.keepalive
       IN  \E n \in 0 .. Cardinality(pending) :
           LET taken == First(n + m.maxBatch, pending)
           IN  \E fixed \in SUBSET (taken \cap m.marked) :
                  Put(PersistNow([Resolve(m, First(n, pending) \cup fixed, fixed) EXCEPT
                                     !.keepalive = @ \cup First(n, pending)]), t)
    /\ UNCHANGED <<store, lock, tracked, owed, faults, refused, delivered>>

(* The requests of hidden pages are answered one by one; es is what one of     *)
(* them carried: which events shared a request is left open.                   *)
Requests(t) == {es \in SUBSET tab[t].keepalive : es # {} /\ Cardinality(es) <= BatchSize}

KeptSettled(m, es) == [Forget(m, es) EXCEPT !.keepalive = @ \ es]

KeepaliveAnswered(t) ==
    /\ tab[t].alive
    /\ \E es \in Requests(t) : Put(KeptSettled(tab[t], es), t) /\ owed' = owed \ es
    /\ UNCHANGED <<store, lock, tracked, faults, refused, delivered>>

(* 413, as in a flush. *)
KeepaliveTooLarge(t) ==
    /\ tab[t].alive /\ Fault
    /\ \E es \in Requests(t) :
          LET n == Cardinality(es)
          IN  IF n > 1
              THEN /\ Put([tab[t] EXCEPT !.keepalive = @ \ es, !.maxBatch = (n + 1) \div 2], t)
                   /\ UNCHANGED owed
              ELSE Put(KeptSettled(tab[t], es), t) /\ owed' = owed \ es
    /\ UNCHANGED <<store, lock, tracked, refused, delivered>>

KeepaliveFails(t) ==
    /\ tab[t].alive /\ Fault
    /\ \E es \in Requests(t) : Put([tab[t] EXCEPT !.keepalive = @ \ es], t)
    /\ UNCHANGED <<store, lock, tracked, owed, refused, delivered>>

(* The page dies: what only its memory held goes with it. *)
Die(t) ==
    /\ tab[t].alive /\ Fault
    /\ Put(Dead, t)
    /\ lock' = IF lock = t THEN NoTab ELSE lock
    /\ owed' = owed \ ((InMemory(t) \ store) \ UNION {InMemory(u) : u \in Tab \ {t}})
    /\ delivered' = IF lock = t THEN delivered \ store ELSE delivered
    /\ UNCHANGED <<store, tracked, refused>>

Open(t) ==
    /\ ~tab[t].alive
    /\ Put(Fresh, t)
    /\ UNCHANGED <<store, lock, tracked, owed, faults, refused, delivered>>

Flushing(t) == FlushPersist(t) \/ FlushRead(t) \/ Merge(t) \/ Answered(t) \/ Release(t)
Storing(t) == Load(t) \/ Persist(t) \/ WriteNext(t)
Failing(t) == LoadFails(t) \/ WriteRefused(t) \/ FlushReadFails(t) \/ TooLarge(t) \/ Unanswered(t)
                 \/ KeepaliveTooLarge(t) \/ KeepaliveFails(t) \/ Die(t)

Next == \E t \in Tab :
            \/ Track(t) \/ Storing(t) \/ Flush(t) \/ Flushing(t) \/ SendNext(t) \/ Stop(t)
            \/ Hide(t) \/ KeepaliveAnswered(t) \/ Failing(t) \/ Open(t)

Spec == Init /\ [][Next]_vars

(* Timers and callbacks run in an open page, the flush timer of each tab gets  *)
(* the lock again and again, no pause lasts for ever, and a page of the        *)
(* application is opened again.                                                *)
FairSpec == Spec /\ \A t \in Tab :
                /\ WF_vars(Storing(t)) /\ WF_vars(Flushing(t) \/ Stop(t)) /\ WF_vars(Open(t))
                /\ SF_vars(Flush(t)) /\ SF_vars(SendNext(t))

-----------------------------------------------------------------------------
Somewhere(e) == e \in store \/ \E t \in Tab : e \in InMemory(t)

(* No event disappears: until the server has answered it, onDrop was told, or  *)
(* the only page that held it died, it is in the store or in a page that will  *)
(* send it, whatever two tabs, a flush, a keepalive and the debounced writes   *)
(* do at once; unless the store refused to write it.                           *)
NothingLost == \A e \in owed : Somewhere(e) \/ e \in refused

(* A flush never resends what another, of this tab or of another, delivered,   *)
(* since the lock is kept until it is removed from the store.  Exceptions: the *)
(* removal was refused or died with its page; a tab that still held the event  *)
(* wrote it to the store again, its launch fixed as its page was hidden; or    *)
(* the flushing tab could not read the store again and goes by its memory.     *)
NoResend == \A t \in Tab : tab[t].pc = "sent" => tab[t].batch \cap delivered = {}

(* Why: events are numbered as they are tracked; what is to be removed is not   *)
(* owed; a queue holds nothing owed that is not to be written, stored or        *)
(* refused, so that a flush may replace the queue by the store it read.         *)
Held(m) == m.items \cup m.unsaved \cup m.unremoved \cup PutsOf(m.writes) \cup RemovesOf(m.writes)
              \cup m.seen \cup m.batch \cup m.keepalive

Numbered == store \cup owed \cup delivered \cup UNION {Held(tab[t]) : t \in Tab} \subseteq 1 .. tracked

Closed == \A t \in Tab : ~tab[t].alive => tab[t] = Dead

RemovesUnowed == \A t \in Tab : owed \cap (tab[t].unremoved \cup RemovesOf(tab[t].writes)) = {}

KeptElsewhere ==
    \A t \in Tab :
        /\ tab[t].items \cap owed \subseteq tab[t].unsaved \cup PutsOf(tab[t].writes) \cup store \cup refused
        /\ tab[t].seen \cap owed \subseteq store

LossInv == TypeOK /\ Numbered /\ Closed /\ RemovesUnowed /\ KeptElsewhere /\ NothingLost

(* Why NoResend: one tab flushes, its queue loaded; what is not written yet is *)
(* queued here, and outside a flush it is written nowhere and in no other tab, *)
(* so that nothing delivered is to be written but by a page hidden; what was   *)
(* delivered is gone from the store or leaves it before the lock is released.  *)
OneFlushes ==
    \A t \in Tab : /\ (tab[t].pc # "none") <=> (lock = t)
                   /\ tab[t].pc \notin {"none", "load"} => tab[t].loaded
                   /\ tab[t].awaits <= Len(tab[t].writes)

Queued ==
    \A t \in Tab : /\ tab[t].unsaved \subseteq tab[t].items
                   /\ tab[t].items \cap tab[t].unremoved = {}

HeldElsewhere(t) ==
    store \cup UNION {tab[u].items \cup tab[u].seen \cup tab[u].batch \cup PutsOf(tab[u].writes) : u \in Tab \ {t}}

UnsavedHere ==
    \A t \in Tab : tab[t].pc \notin {"loop", "sent"} =>
        tab[t].unsaved \cap (HeldElsewhere(t) \cup PutsOf(tab[t].writes)) = {}

DeliveredLeave ==
    \A e \in delivered : e \notin store \/ \E t \in Tab : Leaving(e, tab[t])

FlushesUndelivered ==
    \A t \in Tab : /\ tab[t].unsaved \cap delivered = {}
                   /\ tab[t].pc = "merge" => tab[t].seen \cap delivered = {}
                   /\ tab[t].pc \in {"loop", "sent", "finally"} => tab[t].items \cap delivered = {}
                   /\ tab[t].pc = "sent" => tab[t].batch \cap delivered = {}

ResendInv == LossInv /\ OneFlushes /\ Queued /\ UnsavedHere /\ DeliveredLeave /\ FlushesUndelivered

(* Every event tracked ends: answered, dropped, or lost with its page, whatever *)
(* failed before; no event of the bounded run is left queued for ever.          *)
EveryEventEnds == <>[](owed \subseteq refused)

(* "Every way an event can fail to be queued is an onDrop reason"              *)
(* (AnalyticsClient): no exception for a write the store refused.              *)
EveryLossReported == \A e \in owed : Somewhere(e)
=============================================================================
