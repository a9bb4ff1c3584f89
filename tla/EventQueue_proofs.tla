------------------------ MODULE EventQueue_proofs ------------------------
(***************************************************************************)
(* Theorems about EventQueue, for any tabs, any number of events, whoever  *)
(* tracks them, every size of a queue and of a batch, and any number of    *)
(* faults. What a full queue drops is left open: nothing here depends on   *)
(* which events Bounded keeps.                                             *)
(***************************************************************************)
EXTENDS EventQueue, FiniteSetTheorems, SequenceTheorems, TLAPS

-----------------------------------------------------------------------------
(* Chains of writes, and a tab's memory.                                    *)

\* The chain of a page just opened.
LEMMA EmptyChain ==
    /\ <<>> \in Seq(Write) /\ DOMAIN <<>> = {}
    /\ PutsOf(<<>>) = {} /\ RemovesOf(<<>>) = {}
<1>1. <<>> \in Seq(Write) /\ Len(<<>>) = 0
  BY EmptySeq
<1>2. \A ws \in Seq(Write) : Len(ws) = 0 => DOMAIN ws = {}
  OBVIOUS
<1>3. DOMAIN <<>> = {}
  BY <1>1, <1>2
<1> QED
  BY <1>1, <1>3 DEF PutsOf, RemovesOf

\* A write joins the chain.
LEMMA AppendChain ==
    ASSUME NEW ws \in Seq(Write), NEW w \in Write
    PROVE  /\ Append(ws, w) \in Seq(Write) /\ Len(Append(ws, w)) = Len(ws) + 1
           /\ Append(ws, w)[Len(ws) + 1] = w
           /\ \A n \in DOMAIN ws : n \in DOMAIN Append(ws, w) /\ Append(ws, w)[n] = ws[n]
           /\ \A n \in DOMAIN Append(ws, w) : n \in DOMAIN ws \/ n = Len(ws) + 1
           /\ PutsOf(Append(ws, w)) = PutsOf(ws) \cup w.puts
           /\ RemovesOf(Append(ws, w)) = RemovesOf(ws) \cup w.removes
<1> DEFINE a == Append(ws, w)
<1>1. /\ a \in Seq(Write) /\ Len(a) = Len(ws) + 1 /\ a[Len(ws) + 1] = w
      /\ \A n \in DOMAIN ws : n \in DOMAIN a /\ a[n] = ws[n]
      /\ \A n \in DOMAIN a : n \in DOMAIN ws \/ n = Len(ws) + 1
      /\ Len(ws) + 1 \in DOMAIN a
  OBVIOUS
<1> HIDE DEF a
<1>2. PutsOf(a) = PutsOf(ws) \cup w.puts
  BY <1>1 DEF PutsOf
<1>3. RemovesOf(a) = RemovesOf(ws) \cup w.removes
  BY <1>1 DEF RemovesOf
<1> QED
  BY <1>1, <1>2, <1>3 DEF a

\* The first write leaves the chain.
LEMMA TailChain ==
    ASSUME NEW ws \in Seq(Write), ws # <<>>
    PROVE  /\ Head(ws) \in Write /\ Head(ws) = ws[1] /\ 1 \in DOMAIN ws
           /\ Tail(ws) \in Seq(Write) /\ Len(Tail(ws)) = Len(ws) - 1
           /\ \A n \in DOMAIN Tail(ws) : n + 1 \in DOMAIN ws /\ Tail(ws)[n] = ws[n + 1]
           /\ \A n \in DOMAIN ws : n = 1 \/ (n - 1 \in DOMAIN Tail(ws) /\ Tail(ws)[n - 1] = ws[n])
           /\ PutsOf(ws) = Head(ws).puts \cup PutsOf(Tail(ws))
           /\ RemovesOf(ws) = Head(ws).removes \cup RemovesOf(Tail(ws))
<1> DEFINE r == Tail(ws)
<1>1. /\ Head(ws) \in Write /\ Head(ws) = ws[1] /\ 1 \in DOMAIN ws
      /\ r \in Seq(Write) /\ Len(r) = Len(ws) - 1
      /\ \A n \in DOMAIN r : n + 1 \in DOMAIN ws /\ r[n] = ws[n + 1]
      /\ \A n \in DOMAIN ws : n = 1 \/ (n - 1 \in DOMAIN r /\ r[n - 1] = ws[n])
  OBVIOUS
<1> HIDE DEF r
<1>2. PutsOf(ws) = Head(ws).puts \cup PutsOf(r)
  BY <1>1 DEF PutsOf
<1>3. RemovesOf(ws) = Head(ws).removes \cup RemovesOf(r)
  BY <1>1 DEF RemovesOf
<1> QED
  BY <1>1, <1>2, <1>3 DEF r

\* The removals of the first write are done.
LEMMA ClearedChain ==
    ASSUME NEW ws \in Seq(Write), ws # <<>>
    PROVE  LET c == [ws EXCEPT ![1].removes = {}] IN
           /\ c \in Seq(Write) /\ Len(c) = Len(ws) /\ DOMAIN c = DOMAIN ws
           /\ \A n \in DOMAIN ws : c[n].puts = ws[n].puts
           /\ c[1].removes = {} /\ \A n \in DOMAIN ws \ {1} : c[n].removes = ws[n].removes
           /\ PutsOf(c) = PutsOf(ws) /\ RemovesOf(c) \subseteq RemovesOf(ws)
<1> DEFINE c == [ws EXCEPT ![1].removes = {}]
<1> DEFINE d == [ws[1] EXCEPT !.removes = {}]
<1>1. d \in Write /\ d.puts = ws[1].puts /\ d.removes = {} /\ 1 \in DOMAIN ws
  BY TailChain DEF Write
<1>2. c = [ws EXCEPT ![1] = d]
  OBVIOUS
<1> HIDE DEF d
<1>3. c \in Seq(Write) /\ Len(c) = Len(ws) /\ DOMAIN c = DOMAIN ws /\ c[1] = d
      /\ \A n \in DOMAIN ws \ {1} : c[n] = ws[n]
  <2>1. /\ c \in Seq(Write) /\ Len(c) = Len(ws)
        /\ \A n \in 1 .. Len(ws) : c[n] = IF n = 1 THEN d ELSE ws[n]
    <3>1. 1 \in 1 .. Len(ws)
      BY <1>1
    <3> HIDE DEF c
    <3> QED
      BY <1>1, <1>2, <3>1, ExceptSeq
  <2> HIDE DEF c
  <2>2. DOMAIN ws = 1 .. Len(ws) /\ DOMAIN c = 1 .. Len(c) /\ 1 \in 1 .. Len(ws)
    BY <1>1, <2>1
  <2> QED
    BY <2>1, <2>2
<1> HIDE DEF c
<1>4. /\ \A n \in DOMAIN ws : c[n].puts = ws[n].puts
      /\ c[1].removes = {} /\ \A n \in DOMAIN ws \ {1} : c[n].removes = ws[n].removes
  BY <1>1, <1>3
<1>5. PutsOf(c) = PutsOf(ws)
  BY <1>3, <1>4 DEF PutsOf
<1>6. RemovesOf(c) \subseteq RemovesOf(ws)
  BY <1>3, <1>4 DEF RemovesOf
<1> QED
  BY <1>3, <1>4, <1>5, <1>6 DEF c

\* A tab's memory is replaced.
LEMMA PutFacts ==
    ASSUME TypeOK, NEW t \in Tab, NEW m \in Memory, Put(m, t)
    PROVE  tab' \in [Tab -> Memory] /\ tab'[t] = m /\ \A u \in Tab \ {t} : tab'[u] = tab[u]
BY DEF TypeOK, Put

\* What an event's leaving changes in memory.
LEMMA ForgetFacts ==
    ASSUME NEW m \in Memory, NEW es \in SUBSET Event
    PROVE  LET n == Forget(m, es) IN
           /\ n \in Memory /\ n.items = m.items \ es /\ n.unsaved = m.unsaved \ es
           /\ n.unremoved = m.unremoved \cup es /\ n.loaded = m.loaded /\ n.alive = m.alive
           /\ n.writes = m.writes /\ n.awaits = m.awaits /\ n.pc = m.pc /\ n.seen = m.seen /\ n.batch = m.batch
           /\ n.maxBatch = m.maxBatch /\ n.keepalive = m.keepalive
BY DEF Memory, Forget

\* A queue replaced: what it drops is to leave the store.
LEMMA WithItemsFacts ==
    ASSUME NEW m \in Memory, NEW q \in SUBSET Event
    PROVE  LET n == WithItems(m, q)
               d == q \ Bounded[q]
           IN  /\ n \in Memory /\ n.items = q \ d /\ n.unsaved = m.unsaved \ d
               /\ n.unremoved = m.unremoved \cup d /\ n.loaded = m.loaded /\ n.alive = m.alive
               /\ n.writes = m.writes /\ n.awaits = m.awaits /\ n.pc = m.pc /\ n.seen = m.seen /\ n.batch = m.batch
               /\ n.maxBatch = m.maxBatch /\ n.keepalive = m.keepalive
<1> DEFINE d == q \ Bounded[q]
<1> DEFINE k == [m EXCEPT !.items = q]
<1>1. d \in SUBSET Event /\ WithItems(m, q) = Forget(k, d)
  BY DEF WithItems
<1>2. /\ k \in Memory /\ k.items = q /\ k.unsaved = m.unsaved
      /\ k.unremoved = m.unremoved /\ k.loaded = m.loaded /\ k.alive = m.alive
      /\ k.writes = m.writes /\ k.awaits = m.awaits /\ k.pc = m.pc /\ k.seen = m.seen /\ k.batch = m.batch
      /\ k.maxBatch = m.maxBatch /\ k.keepalive = m.keepalive
  BY DEF Memory
<1> HIDE DEF d, k
<1>3. /\ Forget(k, d) \in Memory /\ Forget(k, d).items = q \ d /\ Forget(k, d).unsaved = m.unsaved \ d
      /\ Forget(k, d).unremoved = m.unremoved \cup d /\ Forget(k, d).loaded = m.loaded
      /\ Forget(k, d).alive = m.alive
      /\ Forget(k, d).writes = m.writes /\ Forget(k, d).awaits = m.awaits /\ Forget(k, d).pc = m.pc /\ Forget(k, d).seen = m.seen
      /\ Forget(k, d).batch = m.batch
      /\ Forget(k, d).maxBatch = m.maxBatch /\ Forget(k, d).keepalive = m.keepalive
  BY <1>1, <1>2, ForgetFacts
<1> QED
  BY <1>1, <1>3 DEF d

\* Only a tab's notes on its launches change.
LEMMA AdoptFacts ==
    ASSUME NEW m \in Memory, NEW es \in SUBSET Event
    PROVE  LET n == Adopt(m, es) IN
           /\ n \in Memory /\ n.items = m.items /\ n.unsaved = m.unsaved
           /\ n.unremoved = m.unremoved /\ n.loaded = m.loaded /\ n.alive = m.alive
           /\ n.writes = m.writes /\ n.awaits = m.awaits /\ n.pc = m.pc /\ n.seen = m.seen
           /\ n.batch = m.batch /\ n.maxBatch = m.maxBatch /\ n.keepalive = m.keepalive
<1>1. es \cap Launches \subseteq Event
  BY ShapeAssumption
<1> QED
  BY <1>1 DEF Memory, Adopt

\* What is pending joins the chain, or nothing was.
LEMMA PersistNowFacts ==
    ASSUME NEW m \in Memory
    PROVE  LET n == PersistNow(m)
           IN  /\ n \in Memory /\ n.items = m.items /\ n.unsaved = {} /\ n.unremoved = {}
               /\ n.loaded = m.loaded /\ n.alive = m.alive /\ n.pc = m.pc /\ n.seen = m.seen
               /\ n.batch = m.batch /\ n.maxBatch = m.maxBatch /\ n.keepalive = m.keepalive
               /\ n.marked = m.marked /\ n.awaits = m.awaits
               /\ \/ m.unsaved = {} /\ m.unremoved = {} /\ n.writes = m.writes
                  \/ \E w \in Write : /\ w.removes = m.unremoved /\ w.puts = m.unsaved
                                      /\ n.writes = Append(m.writes, w)
<1> DEFINE w == [removes |-> m.unremoved, puts |-> m.unsaved]
<1>1. w \in Write /\ w.removes = m.unremoved /\ w.puts = m.unsaved
  BY DEF Write, Memory
<1>2. CASE m.unsaved = {} /\ m.unremoved = {}
  BY <1>2 DEF PersistNow
<1>3. CASE ~(m.unsaved = {} /\ m.unremoved = {})
  <2> DEFINE ws == Append(m.writes, w)
  <2> DEFINE n == [m EXCEPT !.writes = ws, !.unsaved = {}, !.unremoved = {}]
  <2>1. PersistNow(m) = n
    BY <1>3 DEF PersistNow
  <2> HIDE DEF w
  <2>2. ws \in Seq(Write)
    BY <1>1, AppendChain DEF Memory
  <2>3. ws = Append(m.writes, w)
    OBVIOUS
  <2> HIDE DEF ws
  <2>4. /\ n \in Memory /\ n.items = m.items /\ n.unsaved = {} /\ n.unremoved = {}
        /\ n.loaded = m.loaded /\ n.alive = m.alive /\ n.pc = m.pc /\ n.seen = m.seen
        /\ n.batch = m.batch /\ n.maxBatch = m.maxBatch /\ n.keepalive = m.keepalive
        /\ n.marked = m.marked /\ n.awaits = m.awaits
        /\ n.writes = ws
    BY <2>2 DEF Memory
  <2> QED
    BY <1>1, <2>1, <2>3, <2>4
<1> QED
  BY <1>2, <1>3

-----------------------------------------------------------------------------
(* What each step does to the memory of its tab.                            *)

OnlyTab(t) == tab' \in [Tab -> Memory] /\ \A u \in Tab \ {t} : tab'[u] = tab[u]

SameQueue(m, n) == n.items = m.items /\ n.unsaved = m.unsaved /\ n.unremoved = m.unremoved

SameFlush(m, n) == n.pc = m.pc /\ n.seen = m.seen /\ n.batch = m.batch

OneLess(k) == IF k = 0 THEN 0 ELSE k - 1

Persisted(m, n) ==
    /\ n.items = m.items /\ n.unsaved = {} /\ n.unremoved = {}
    /\ \/ m.unsaved = {} /\ m.unremoved = {} /\ n.writes = m.writes
       \/ \E w \in Write : /\ w.removes = m.unremoved /\ w.puts = m.unsaved
                           /\ n.writes = Append(m.writes, w)

\* A flush begins.
LEMMA FlushFacts ==
    ASSUME TypeOK, NEW t \in Tab, Flush(t)
    PROVE  /\ OnlyTab(t)
           /\ SameQueue(tab[t], tab'[t])
           /\ tab'[t].writes = tab[t].writes /\ tab'[t].awaits = tab[t].awaits
           /\ tab'[t].keepalive = tab[t].keepalive
           /\ tab'[t].loaded = tab[t].loaded /\ tab'[t].alive = tab[t].alive
           /\ tab'[t].seen = tab[t].seen
           /\ tab'[t].batch = tab[t].batch
           /\ tab'[t].pc = "load"
<1> PICK m \in Memory : m = tab[t]
  BY DEF TypeOK
<1> DEFINE n == [m EXCEPT !.pc = "load"]
<1>1. /\ n \in Memory
      /\ SameQueue(m, n)
      /\ n.writes = m.writes /\ n.awaits = m.awaits
      /\ n.keepalive = m.keepalive
      /\ n.loaded = m.loaded /\ n.alive = m.alive
      /\ n.seen = m.seen
      /\ n.batch = m.batch
      /\ n.pc = "load"
  BY DEF Memory, Phases, TypeOK, SameQueue, SameFlush, First
<1>2. Put(n, t)
  BY DEF Flush
<1> HIDE DEF n
<1> QED
  BY <1>1, <1>2, PutFacts DEF OnlyTab, SameQueue, SameFlush

\* The store is read again.
LEMMA FlushReadFacts ==
    ASSUME TypeOK, NEW t \in Tab, FlushRead(t)
    PROVE  /\ OnlyTab(t)
           /\ SameQueue(tab[t], tab'[t])
           /\ tab'[t].writes = tab[t].writes /\ tab'[t].awaits = tab[t].awaits
           /\ tab'[t].keepalive = tab[t].keepalive
           /\ tab'[t].loaded = tab[t].loaded /\ tab'[t].alive = tab[t].alive
           /\ tab'[t].batch = tab[t].batch
           /\ tab'[t].pc = "merge"
           /\ tab'[t].seen = store
<1> PICK m \in Memory : m = tab[t]
  BY DEF TypeOK
<1> DEFINE n == [m EXCEPT !.pc = "merge", !.seen = store]
<1>1. /\ n \in Memory
      /\ SameQueue(m, n)
      /\ n.writes = m.writes /\ n.awaits = m.awaits
      /\ n.keepalive = m.keepalive
      /\ n.loaded = m.loaded /\ n.alive = m.alive
      /\ n.batch = m.batch
      /\ n.pc = "merge"
      /\ n.seen = store
  BY DEF Memory, Phases, TypeOK, SameQueue, SameFlush, First
<1>2. Put(n, t)
  BY DEF FlushRead
<1> HIDE DEF n
<1> QED
  BY <1>1, <1>2, PutFacts DEF OnlyTab, SameQueue, SameFlush

\* A batch is sent, the parameter of some of its launches fixed.
LEMMA SendNextFacts ==
    ASSUME TypeOK, NEW t \in Tab, SendNext(t)
    PROVE  /\ OnlyTab(t)
           /\ tab'[t].items = tab[t].items /\ tab'[t].unremoved = tab[t].unremoved
           /\ tab[t].unsaved \subseteq tab'[t].unsaved
           /\ tab'[t].unsaved \subseteq tab[t].unsaved \cup tab[t].items
           /\ tab'[t].writes = tab[t].writes /\ tab'[t].awaits = tab[t].awaits
           /\ tab'[t].keepalive = tab[t].keepalive
           /\ tab'[t].loaded = tab[t].loaded /\ tab'[t].alive = tab[t].alive
           /\ tab'[t].seen = tab[t].seen
           /\ tab'[t].pc = "sent"
           /\ tab'[t].batch \subseteq tab[t].items
<1> PICK m \in Memory : m = tab[t]
  BY DEF TypeOK
<1> PICK b \in SUBSET Event : b = First(m.maxBatch, m.items) /\ b \subseteq m.items
  BY DEF First, Memory
<1> PICK fixed \in SUBSET b : Put([Resolve(m, b, fixed) EXCEPT !.pc = "sent", !.batch = b], t)
  BY DEF SendNext
<1> DEFINE n == [m EXCEPT !.marked = @ \ b, !.unsaved = @ \cup fixed, !.pc = "sent", !.batch = b]
<1>1. /\ n \in Memory
      /\ n.items = m.items /\ n.unremoved = m.unremoved
      /\ n.unsaved = m.unsaved \cup fixed
      /\ n.writes = m.writes /\ n.awaits = m.awaits
      /\ n.keepalive = m.keepalive
      /\ n.loaded = m.loaded /\ n.alive = m.alive
      /\ n.seen = m.seen
      /\ n.pc = "sent"
      /\ n.batch = b
  BY DEF Memory, Phases
<1>2. Put(n, t)
  BY DEF Resolve
<1> HIDE DEF n
<1> QED
  BY <1>1, <1>2, PutFacts DEF OnlyTab

\* A flush ends.
LEMMA ReleaseFacts ==
    ASSUME TypeOK, NEW t \in Tab, Release(t)
    PROVE  /\ OnlyTab(t)
           /\ SameQueue(tab[t], tab'[t])
           /\ tab'[t].writes = tab[t].writes /\ tab'[t].awaits = tab[t].awaits
           /\ tab'[t].keepalive = tab[t].keepalive
           /\ tab'[t].loaded = tab[t].loaded /\ tab'[t].alive = tab[t].alive
           /\ tab'[t].seen = tab[t].seen
           /\ tab'[t].batch = tab[t].batch
           /\ tab'[t].pc = "none"
<1> PICK m \in Memory : m = tab[t]
  BY DEF TypeOK
<1> DEFINE n == [m EXCEPT !.pc = "none"]
<1>1. /\ n \in Memory
      /\ SameQueue(m, n)
      /\ n.writes = m.writes /\ n.awaits = m.awaits
      /\ n.keepalive = m.keepalive
      /\ n.loaded = m.loaded /\ n.alive = m.alive
      /\ n.seen = m.seen
      /\ n.batch = m.batch
      /\ n.pc = "none"
  BY DEF Memory, Phases, TypeOK, SameQueue, SameFlush, First
<1>2. Put(n, t)
  BY DEF Release
<1> HIDE DEF n
<1> QED
  BY <1>1, <1>2, PutFacts DEF OnlyTab, SameQueue, SameFlush

\* An event is tracked.
LEMMA TrackFacts ==
    ASSUME TypeOK, NEW t \in Tab, Track(t)
    PROVE  LET q == tab[t].items \cup {tracked + 1}
               d == q \ Bounded[q] IN
           /\ OnlyTab(t)
           /\ tab'[t].items = q \ d
           /\ tab'[t].unsaved = (tab[t].unsaved \cup {tracked + 1}) \ d
           /\ tab'[t].unremoved = tab[t].unremoved \cup d
           /\ tab'[t].writes = tab[t].writes /\ tab'[t].awaits = tab[t].awaits
           /\ tab'[t].keepalive = tab[t].keepalive
           /\ tab'[t].loaded = tab[t].loaded /\ tab'[t].alive = tab[t].alive
           /\ SameFlush(tab[t], tab'[t])
           /\ q \in SUBSET Event
<1> PICK m \in Memory : m = tab[t]
  BY DEF TypeOK
<1>0. tracked + 1 \in Event
  BY ShapeAssumption DEF TypeOK, Event, Track
<1> PICK o \in Memory : o = Adopt(m, {tracked + 1})
  BY <1>0, AdoptFacts
<1>9. /\ o.unsaved = m.unsaved /\ o.unremoved = m.unremoved /\ o.loaded = m.loaded
      /\ o.alive = m.alive /\ o.writes = m.writes /\ o.awaits = m.awaits /\ o.pc = m.pc
      /\ o.seen = m.seen /\ o.batch = m.batch /\ o.keepalive = m.keepalive
  BY <1>0, AdoptFacts
<1> DEFINE k == [o EXCEPT !.unsaved = o.unsaved \cup {tracked + 1}]
<1> DEFINE q == m.items \cup {tracked + 1}
<1> DEFINE d == q \ Bounded[q]
<1> DEFINE n == WithItems(k, q)
<1>10. q \in SUBSET Event
  BY <1>0 DEF Memory
<1>1. /\ k \in Memory
      /\ k.unsaved = m.unsaved \cup {tracked + 1}
      /\ k.unremoved = m.unremoved
      /\ k.writes = m.writes /\ k.awaits = m.awaits
      /\ k.keepalive = m.keepalive
      /\ k.loaded = m.loaded
      /\ k.pc = m.pc
      /\ k.seen = m.seen
      /\ k.batch = m.batch
      /\ k.alive = m.alive
  <2>1. /\ k \in Memory
        /\ k.unsaved = o.unsaved \cup {tracked + 1}
        /\ k.unremoved = o.unremoved
        /\ k.writes = o.writes /\ k.awaits = o.awaits
        /\ k.keepalive = o.keepalive
        /\ k.loaded = o.loaded
        /\ k.pc = o.pc
        /\ k.seen = o.seen
        /\ k.batch = o.batch
        /\ k.alive = o.alive
    BY <1>0 DEF Memory, Phases
  <2> HIDE DEF k
  <2> QED
    BY <1>9, <2>1
<1>2. Put(n, t)
  BY DEF Track
<1>3. d = q \ Bounded[q] /\ n = WithItems(k, q)
  OBVIOUS
<1> HIDE DEF k, n, d, q
<1>4. /\ n \in Memory /\ n.items = q \ d /\ n.unsaved = k.unsaved \ d
      /\ n.unremoved = k.unremoved \cup d /\ n.loaded = k.loaded /\ n.alive = k.alive /\ n.writes = k.writes /\ n.awaits = k.awaits
      /\ n.pc = k.pc /\ n.seen = k.seen /\ n.batch = k.batch /\ n.keepalive = k.keepalive
  BY <1>1, <1>3, <1>10, WithItemsFacts
<1>5. n = tab'[t] /\ OnlyTab(t)
  BY <1>2, <1>4, PutFacts DEF OnlyTab
<1> QED
  BY <1>1, <1>3, <1>4, <1>5, <1>10 DEF q, SameFlush

\* The persisted queue is folded into memory.
LEMMA LoadFacts ==
    ASSUME TypeOK, NEW t \in Tab, Load(t)
    PROVE  LET q == tab[t].items \cup (store \ tab[t].unremoved)
               d == q \ Bounded[q] IN
           /\ OnlyTab(t)
           /\ tab'[t].items = q \ d
           /\ tab'[t].unsaved = tab[t].unsaved \ d
           /\ tab'[t].unremoved = tab[t].unremoved \cup d
           /\ tab'[t].writes = tab[t].writes /\ tab'[t].awaits = tab[t].awaits
           /\ tab'[t].keepalive = tab[t].keepalive
           /\ tab'[t].loaded /\ tab'[t].alive = tab[t].alive
           /\ SameFlush(tab[t], tab'[t])
<1> PICK m \in Memory : m = tab[t]
  BY DEF TypeOK
<1> DEFINE q == m.items \cup (store \ m.unremoved)
<1>0. q \in SUBSET Event /\ q \cap store \in SUBSET Event
  BY DEF TypeOK, Memory
<1> PICK o \in Memory : o = Adopt(m, q \cap store)
  BY <1>0, AdoptFacts
<1>9. /\ o.unsaved = m.unsaved /\ o.unremoved = m.unremoved /\ o.loaded = m.loaded
      /\ o.alive = m.alive /\ o.writes = m.writes /\ o.awaits = m.awaits /\ o.pc = m.pc
      /\ o.seen = m.seen /\ o.batch = m.batch /\ o.keepalive = m.keepalive
  BY <1>0, AdoptFacts
<1> DEFINE k == [o EXCEPT !.loaded = TRUE]
<1> DEFINE d == q \ Bounded[q]
<1> DEFINE n == WithItems(k, q)
<1>10. q \in SUBSET Event
  BY <1>0 DEF Memory
<1>1. /\ k \in Memory
      /\ k.loaded = TRUE
      /\ k.unsaved = m.unsaved
      /\ k.unremoved = m.unremoved
      /\ k.writes = m.writes /\ k.awaits = m.awaits
      /\ k.keepalive = m.keepalive
      /\ k.pc = m.pc
      /\ k.seen = m.seen
      /\ k.batch = m.batch
      /\ k.alive = m.alive
  <2>1. /\ k \in Memory
        /\ k.loaded = TRUE
        /\ k.unsaved = o.unsaved
        /\ k.unremoved = o.unremoved
        /\ k.writes = o.writes /\ k.awaits = o.awaits
        /\ k.keepalive = o.keepalive
        /\ k.pc = o.pc
        /\ k.seen = o.seen
        /\ k.batch = o.batch
        /\ k.alive = o.alive
    BY DEF Memory, Phases
  <2> HIDE DEF k
  <2> QED
    BY <1>9, <2>1
<1>2. Put(n, t)
  BY DEF Load
<1>3. d = q \ Bounded[q] /\ n = WithItems(k, q)
  OBVIOUS
<1> HIDE DEF k, n, d, q
<1>4. /\ n \in Memory /\ n.items = q \ d /\ n.unsaved = k.unsaved \ d
      /\ n.unremoved = k.unremoved \cup d /\ n.loaded = k.loaded /\ n.alive = k.alive /\ n.writes = k.writes /\ n.awaits = k.awaits
      /\ n.pc = k.pc /\ n.seen = k.seen /\ n.batch = k.batch /\ n.keepalive = k.keepalive
  BY <1>1, <1>3, <1>10, WithItemsFacts
<1>5. n = tab'[t] /\ OnlyTab(t)
  BY <1>2, <1>4, PutFacts DEF OnlyTab
<1> QED
  BY <1>1, <1>3, <1>4, <1>5, <1>10 DEF q, SameFlush

\* The store as read becomes the queue, with what is not written.
LEMMA MergeFacts ==
    ASSUME TypeOK, NEW t \in Tab, Merge(t)
    PROVE  LET q == (tab[t].seen \ tab[t].unremoved) \cup (tab[t].items \cap tab[t].unsaved)
               d == q \ Bounded[q] IN
           /\ OnlyTab(t)
           /\ tab'[t].items = q \ d
           /\ tab'[t].unsaved = tab[t].unsaved \ d
           /\ tab'[t].unremoved = tab[t].unremoved \cup d
           /\ tab'[t].writes = tab[t].writes /\ tab'[t].awaits = tab[t].awaits
           /\ tab'[t].keepalive = tab[t].keepalive
           /\ tab'[t].loaded = tab[t].loaded /\ tab'[t].alive = tab[t].alive
           /\ tab'[t].batch = tab[t].batch
           /\ tab'[t].pc = "loop"
           /\ tab'[t].seen = {}
<1> PICK m \in Memory : m = tab[t]
  BY DEF TypeOK
<1> DEFINE q == (m.seen \ m.unremoved) \cup (m.items \cap m.unsaved)
<1>0. q \in SUBSET Event /\ q \cap m.seen \in SUBSET Event
  BY DEF TypeOK, Memory
<1> PICK o \in Memory : o = Adopt(m, q \cap m.seen)
  BY <1>0, AdoptFacts
<1>9. /\ o.unsaved = m.unsaved /\ o.unremoved = m.unremoved /\ o.loaded = m.loaded
      /\ o.alive = m.alive /\ o.writes = m.writes /\ o.awaits = m.awaits /\ o.pc = m.pc
      /\ o.seen = m.seen /\ o.batch = m.batch /\ o.keepalive = m.keepalive
  BY <1>0, AdoptFacts
<1> DEFINE k == [o EXCEPT !.pc = "loop", !.seen = {}, !.marked = @ \cap q]
<1> DEFINE d == q \ Bounded[q]
<1> DEFINE n == WithItems(k, q)
<1>10. q \in SUBSET Event
  BY <1>0 DEF Memory
<1>1. /\ k \in Memory
      /\ k.pc = "loop"
      /\ k.seen = {}
      /\ k.unsaved = m.unsaved
      /\ k.unremoved = m.unremoved
      /\ k.writes = m.writes /\ k.awaits = m.awaits
      /\ k.keepalive = m.keepalive
      /\ k.loaded = m.loaded
      /\ k.batch = m.batch
      /\ k.alive = m.alive
  <2>1. /\ k \in Memory
        /\ k.pc = "loop"
        /\ k.seen = {}
        /\ k.unsaved = o.unsaved
        /\ k.unremoved = o.unremoved
        /\ k.writes = o.writes /\ k.awaits = o.awaits
        /\ k.keepalive = o.keepalive
        /\ k.loaded = o.loaded
        /\ k.batch = o.batch
        /\ k.alive = o.alive
    <3>1. PICK mk \in SUBSET Event : mk = o.marked \cap q
      BY DEF Memory
    <3>2. k = [o EXCEPT !.pc = "loop", !.seen = {}, !.marked = mk]
      BY <3>1
    <3> HIDE DEF k, q, d, n
    <3> QED
      BY <3>2 DEF Memory, Phases
  <2> HIDE DEF k
  <2> QED
    BY <1>9, <2>1
<1>2. Put(n, t)
  BY DEF Merge
<1>3. d = q \ Bounded[q] /\ n = WithItems(k, q)
  OBVIOUS
<1> HIDE DEF k, n, d, q
<1>4. /\ n \in Memory /\ n.items = q \ d /\ n.unsaved = k.unsaved \ d
      /\ n.unremoved = k.unremoved \cup d /\ n.loaded = k.loaded /\ n.alive = k.alive /\ n.writes = k.writes /\ n.awaits = k.awaits
      /\ n.pc = k.pc /\ n.seen = k.seen /\ n.batch = k.batch /\ n.keepalive = k.keepalive
  BY <1>1, <1>3, <1>10, WithItemsFacts
<1>5. n = tab'[t] /\ OnlyTab(t)
  BY <1>2, <1>4, PutFacts DEF OnlyTab
<1> QED
  BY <1>1, <1>3, <1>4, <1>5, <1>10 DEF q, SameFlush

\* The debounced write.
LEMMA PersistFacts ==
    ASSUME TypeOK, NEW t \in Tab, Persist(t)
    PROVE  /\ OnlyTab(t)
           /\ Persisted(tab[t], tab'[t])
           /\ SameFlush(tab[t], tab'[t]) /\ tab'[t].awaits = tab[t].awaits
           /\ tab'[t].loaded = tab[t].loaded /\ tab'[t].alive = tab[t].alive
           /\ tab'[t].keepalive = tab[t].keepalive
<1> PICK m \in Memory : m = tab[t]
  BY DEF TypeOK
<1>1. /\ PersistNow(m) \in Memory /\ Persisted(m, PersistNow(m))
      /\ SameFlush(m, PersistNow(m)) /\ PersistNow(m).loaded = m.loaded /\ PersistNow(m).alive = m.alive
      /\ PersistNow(m).keepalive = m.keepalive /\ PersistNow(m).awaits = m.awaits
  BY PersistNowFacts DEF Persisted, SameFlush
<1> PICK p \in Memory : p = PersistNow(m)
  BY <1>1
<1> DEFINE n == p
<1>2. /\ n \in Memory
      /\ Persisted(m, n)
      /\ SameFlush(m, n) /\ n.awaits = m.awaits
      /\ n.loaded = m.loaded /\ n.alive = m.alive
      /\ n.keepalive = m.keepalive
  BY <1>1 DEF Memory, Phases, Persisted, SameFlush
<1>3. Put(n, t)
  BY DEF Persist
<1> HIDE DEF n
<1>4. n = tab'[t] /\ OnlyTab(t)
  BY <1>2, <1>3, PutFacts DEF OnlyTab
<1> QED
  BY <1>2, <1>4 DEF Persisted, SameFlush

\* A flush writes what is pending.
LEMMA FlushPersistFacts ==
    ASSUME TypeOK, NEW t \in Tab, FlushPersist(t)
    PROVE  /\ OnlyTab(t)
           /\ Persisted(tab[t], tab'[t])
           /\ tab'[t].loaded = tab[t].loaded /\ tab'[t].alive = tab[t].alive
           /\ tab'[t].keepalive = tab[t].keepalive
           /\ tab'[t].seen = tab[t].seen
           /\ tab'[t].batch = tab[t].batch
           /\ tab'[t].pc = "persist" /\ tab'[t].awaits = Len(tab'[t].writes)
<1> PICK m \in Memory : m = tab[t]
  BY DEF TypeOK
<1>1. /\ PersistNow(m) \in Memory /\ Persisted(m, PersistNow(m))
      /\ SameFlush(m, PersistNow(m)) /\ PersistNow(m).loaded = m.loaded /\ PersistNow(m).alive = m.alive
      /\ PersistNow(m).keepalive = m.keepalive /\ PersistNow(m).awaits = m.awaits
  BY PersistNowFacts DEF Persisted, SameFlush
<1> PICK p \in Memory : p = PersistNow(m)
  BY <1>1
<1>0. Len(p.writes) \in Nat
  BY DEF Memory
<1> DEFINE n == [p EXCEPT !.pc = "persist", !.awaits = Len(p.writes)]
<1>2. /\ n \in Memory
      /\ Persisted(m, n)
      /\ n.loaded = m.loaded /\ n.alive = m.alive
      /\ n.keepalive = m.keepalive
      /\ n.seen = m.seen
      /\ n.batch = m.batch
      /\ n.pc = "persist" /\ n.awaits = Len(n.writes)
  BY <1>1, <1>0 DEF Memory, Phases, Persisted, SameFlush
<1>3. Put(n, t)
  BY DEF FlushPersist, Awaiting
<1> HIDE DEF n
<1>4. n = tab'[t] /\ OnlyTab(t)
  BY <1>2, <1>3, PutFacts DEF OnlyTab
<1> QED
  BY <1>2, <1>4 DEF Persisted, SameFlush

\* A flush is held back.
LEMMA StopFacts ==
    ASSUME TypeOK, NEW t \in Tab, Stop(t)
    PROVE  /\ OnlyTab(t)
           /\ Persisted(tab[t], tab'[t])
           /\ tab'[t].loaded = tab[t].loaded /\ tab'[t].alive = tab[t].alive
           /\ tab'[t].keepalive = tab[t].keepalive
           /\ tab'[t].seen = tab[t].seen
           /\ tab'[t].batch = tab[t].batch
           /\ tab'[t].pc = "finally" /\ tab'[t].awaits = Len(tab'[t].writes)
<1> PICK m \in Memory : m = tab[t]
  BY DEF TypeOK
<1>1. /\ PersistNow(m) \in Memory /\ Persisted(m, PersistNow(m))
      /\ SameFlush(m, PersistNow(m)) /\ PersistNow(m).loaded = m.loaded /\ PersistNow(m).alive = m.alive
      /\ PersistNow(m).keepalive = m.keepalive /\ PersistNow(m).awaits = m.awaits
  BY PersistNowFacts DEF Persisted, SameFlush
<1> PICK p \in Memory : p = PersistNow(m)
  BY <1>1
<1>0. Len(p.writes) \in Nat
  BY DEF Memory
<1> DEFINE n == [p EXCEPT !.pc = "finally", !.awaits = Len(p.writes)]
<1>2. /\ n \in Memory
      /\ Persisted(m, n)
      /\ n.loaded = m.loaded /\ n.alive = m.alive
      /\ n.keepalive = m.keepalive
      /\ n.seen = m.seen
      /\ n.batch = m.batch
      /\ n.pc = "finally" /\ n.awaits = Len(n.writes)
  BY <1>1, <1>0 DEF Memory, Phases, Persisted, SameFlush
<1>3. Put(n, t)
  BY DEF Stop, Awaiting
<1> HIDE DEF n
<1>4. n = tab'[t] /\ OnlyTab(t)
  BY <1>2, <1>3, PutFacts DEF OnlyTab
<1> QED
  BY <1>2, <1>4 DEF Persisted, SameFlush

\* A batch is not answered.
LEMMA UnansweredFacts ==
    ASSUME TypeOK, NEW t \in Tab, Unanswered(t)
    PROVE  /\ OnlyTab(t)
           /\ Persisted(tab[t], tab'[t])
           /\ tab'[t].loaded = tab[t].loaded /\ tab'[t].alive = tab[t].alive
           /\ tab'[t].keepalive = tab[t].keepalive
           /\ tab'[t].seen = tab[t].seen
           /\ tab'[t].batch = {}
           /\ tab'[t].pc = "finally" /\ tab'[t].awaits = Len(tab'[t].writes)
<1> PICK m \in Memory : m = tab[t]
  BY DEF TypeOK
<1>1. /\ PersistNow(m) \in Memory /\ Persisted(m, PersistNow(m))
      /\ SameFlush(m, PersistNow(m)) /\ PersistNow(m).loaded = m.loaded /\ PersistNow(m).alive = m.alive
      /\ PersistNow(m).keepalive = m.keepalive /\ PersistNow(m).awaits = m.awaits
  BY PersistNowFacts DEF Persisted, SameFlush
<1> PICK p \in Memory : p = PersistNow(m)
  BY <1>1
<1>0. Len(p.writes) \in Nat
  BY DEF Memory
<1> DEFINE n == [p EXCEPT !.pc = "finally", !.awaits = Len(p.writes), !.batch = {}]
<1>2. /\ n \in Memory
      /\ Persisted(m, n)
      /\ n.loaded = m.loaded /\ n.alive = m.alive
      /\ n.keepalive = m.keepalive
      /\ n.seen = m.seen
      /\ n.batch = {}
      /\ n.pc = "finally" /\ n.awaits = Len(n.writes)
  BY <1>1, <1>0 DEF Memory, Phases, Persisted, SameFlush
<1>3. Put(n, t)
  BY DEF Unanswered, Awaiting
<1> HIDE DEF n
<1>4. n = tab'[t] /\ OnlyTab(t)
  BY <1>2, <1>3, PutFacts DEF OnlyTab
<1> QED
  BY <1>2, <1>4 DEF Persisted, SameFlush

\* A hidden page writes and sends what is pending, then writes what it fixed.
LEMMA HideFacts ==
    ASSUME TypeOK, NEW t \in Tab, Hide(t)
    PROVE  /\ OnlyTab(t)
           /\ \E p, h \in Memory :
                 /\ Persisted(tab[t], p) /\ Persisted(h, tab'[t])
                 /\ h.items = p.items /\ h.unsaved \subseteq p.items /\ h.unremoved = {}
                 /\ h.writes = p.writes /\ p.awaits = tab[t].awaits /\ h.awaits = p.awaits
                 /\ SameFlush(tab[t], p) /\ SameFlush(p, h)
           /\ SameFlush(tab[t], tab'[t]) /\ tab'[t].awaits = tab[t].awaits
           /\ tab'[t].loaded = tab[t].loaded /\ tab'[t].alive = tab[t].alive
           /\ tab'[t].keepalive \subseteq tab[t].keepalive \cup tab[t].items
<1> PICK m \in Memory : m = tab[t]
  BY DEF TypeOK
<1>1. /\ PersistNow(m) \in Memory /\ Persisted(m, PersistNow(m))
      /\ SameFlush(m, PersistNow(m)) /\ PersistNow(m).loaded = m.loaded /\ PersistNow(m).alive = m.alive
      /\ PersistNow(m).keepalive = m.keepalive /\ PersistNow(m).awaits = m.awaits
  BY PersistNowFacts DEF Persisted, SameFlush
<1> PICK p \in Memory : p = PersistNow(m)
  BY <1>1
<1> DEFINE pending == p.items \ p.keepalive
<1> DEFINE Sent(es, fixed) ==
              PersistNow([Resolve(p, es \cup fixed, fixed) EXCEPT !.keepalive = @ \cup es])
<1>2. PICK k \in 0 .. Cardinality(pending) :
         \E fixed \in SUBSET (First(k + p.maxBatch, pending) \cap p.marked) :
            Put(Sent(First(k, pending), fixed), t)
  BY DEF Hide
<1>3. /\ First(k + p.maxBatch, pending) \subseteq p.items
      /\ First(k, pending) \subseteq p.items
      /\ p.items \in SUBSET Event
  BY DEF First, Memory
<1> HIDE DEF Sent, pending
<1> PICK es \in SUBSET p.items, fixed \in SUBSET p.items : Put(Sent(es, fixed), t)
  BY <1>2, <1>3
<1> DEFINE h == [p EXCEPT !.marked = @ \ (es \cup fixed), !.unsaved = @ \cup fixed, !.keepalive = @ \cup es]
<1>5. Put(PersistNow(h), t)
  BY DEF Resolve, Sent
<1>6. /\ h \in Memory /\ h.items = p.items /\ h.unsaved = fixed /\ h.unremoved = {}
      /\ h.writes = p.writes /\ h.awaits = p.awaits /\ SameFlush(p, h)
      /\ h.loaded = p.loaded /\ h.alive = p.alive /\ h.keepalive = p.keepalive \cup es
  <2>1. p.unsaved = {} /\ p.unremoved = {}
    BY <1>1 DEF Persisted
  <2>2. fixed \in SUBSET Event /\ es \in SUBSET Event
    BY <1>3
  <2>3. /\ h \in Memory /\ h.items = p.items /\ h.unsaved = p.unsaved \cup fixed
        /\ h.unremoved = p.unremoved /\ h.writes = p.writes /\ h.awaits = p.awaits
        /\ h.pc = p.pc /\ h.seen = p.seen /\ h.batch = p.batch
        /\ h.loaded = p.loaded /\ h.alive = p.alive /\ h.keepalive = p.keepalive \cup es
    <3>1. PICK mk \in SUBSET Event, us \in SUBSET Event, ka \in SUBSET Event :
             /\ mk = p.marked \ (es \cup fixed) /\ us = p.unsaved \cup fixed
             /\ ka = p.keepalive \cup es
      <4>1. p.marked \in SUBSET Event /\ p.unsaved \in SUBSET Event /\ p.keepalive \in SUBSET Event
        BY DEF Memory
      <4> QED
        BY <2>2, <4>1
    <3>2. h = [p EXCEPT !.marked = mk, !.unsaved = us, !.keepalive = ka]
      BY <3>1
    <3> HIDE DEF h
    <3>3. /\ h \in Memory /\ h.items = p.items /\ h.unsaved = us
          /\ h.unremoved = p.unremoved /\ h.writes = p.writes /\ h.awaits = p.awaits
          /\ h.pc = p.pc /\ h.seen = p.seen /\ h.batch = p.batch
          /\ h.loaded = p.loaded /\ h.alive = p.alive /\ h.keepalive = ka
      BY <3>2 DEF Memory
    <3> QED
      BY <3>1, <3>3
  <2> HIDE DEF h
  <2> QED
    BY <2>1, <2>3 DEF SameFlush
<1> HIDE DEF h
<1>7. /\ PersistNow(h) \in Memory /\ Persisted(h, PersistNow(h))
      /\ SameFlush(h, PersistNow(h)) /\ PersistNow(h).loaded = h.loaded /\ PersistNow(h).alive = h.alive
      /\ PersistNow(h).keepalive = h.keepalive /\ PersistNow(h).awaits = h.awaits
  BY <1>6, PersistNowFacts DEF Persisted, SameFlush
<1> PICK n \in Memory : n = PersistNow(h)
  BY <1>7
<1>8. n = tab'[t] /\ OnlyTab(t)
  BY <1>5, PutFacts DEF OnlyTab
<1>9. Persisted(tab[t], p) /\ Persisted(h, tab'[t])
  BY <1>1, <1>7, <1>8
<1>10. /\ SameFlush(m, n) /\ n.awaits = m.awaits /\ n.loaded = m.loaded /\ n.alive = m.alive
       /\ n.keepalive = m.keepalive \cup es /\ es \subseteq m.items
  BY <1>1, <1>3, <1>6, <1>7 DEF SameFlush, Persisted
<1>12. /\ h.items = p.items /\ h.unsaved \subseteq p.items /\ h.unremoved = {} /\ h.writes = p.writes
       /\ p.awaits = tab[t].awaits /\ h.awaits = p.awaits /\ SameFlush(tab[t], p) /\ SameFlush(p, h)
  BY <1>1, <1>6
<1> QED
  BY <1>6, <1>8, <1>9, <1>10, <1>12 DEF SameFlush

\* A batch is answered, or a single event too large is dropped.
LEMMA SettledFacts ==
    ASSUME TypeOK, NEW t \in Tab, Put(Settled(tab[t]), t)
    PROVE  /\ OnlyTab(t)
           /\ tab'[t].items = tab[t].items \ tab[t].batch
           /\ tab'[t].unsaved = tab[t].unsaved \ tab[t].batch
           /\ tab'[t].unremoved = tab[t].unremoved \cup tab[t].batch
           /\ tab'[t].writes = tab[t].writes /\ tab'[t].awaits = tab[t].awaits
           /\ tab'[t].loaded = tab[t].loaded /\ tab'[t].alive = tab[t].alive
           /\ tab'[t].keepalive = tab[t].keepalive
           /\ tab'[t].seen = tab[t].seen
           /\ tab'[t].batch = {}
           /\ tab'[t].pc = "loop"
<1> PICK m \in Memory : m = tab[t]
  BY DEF TypeOK
<1> DEFINE f == Forget(m, m.batch)
<1>1. /\ f \in Memory /\ f.items = m.items \ m.batch /\ f.unsaved = m.unsaved \ m.batch
      /\ f.unremoved = m.unremoved \cup m.batch /\ f.writes = m.writes /\ f.awaits = m.awaits /\ f.loaded = m.loaded /\ f.alive = m.alive
      /\ SameFlush(m, f) /\ f.keepalive = m.keepalive
  <2>1. m.batch \in SUBSET Event
    BY DEF Memory
  <2> QED
    BY <2>1, ForgetFacts DEF SameFlush
<1> DEFINE n == [f EXCEPT !.pc = "loop", !.batch = {}]
<1>2. Put(n, t)
  BY DEF Settled
<1> HIDE DEF f
<1>3. /\ n \in Memory
      /\ n.items = m.items \ m.batch
      /\ n.unsaved = m.unsaved \ m.batch
      /\ n.unremoved = m.unremoved \cup m.batch
      /\ n.writes = m.writes /\ n.awaits = m.awaits
      /\ n.loaded = m.loaded /\ n.alive = m.alive
      /\ n.keepalive = m.keepalive
      /\ n.seen = m.seen
      /\ n.batch = {}
      /\ n.pc = "loop"
  BY <1>1 DEF Memory, Phases, SameFlush
<1> HIDE DEF n
<1>4. n = tab'[t] /\ OnlyTab(t)
  BY <1>2, <1>3, PutFacts DEF OnlyTab
<1> QED
  BY <1>3, <1>4 DEF SameFlush

\* A request of a hidden page is answered, or carried a single event too large.
LEMMA KeptSettledFacts ==
    ASSUME TypeOK, NEW t \in Tab, NEW es \in SUBSET tab[t].keepalive, Put(KeptSettled(tab[t], es), t)
    PROVE  /\ OnlyTab(t)
           /\ tab'[t].items = tab[t].items \ es
           /\ tab'[t].unsaved = tab[t].unsaved \ es
           /\ tab'[t].unremoved = tab[t].unremoved \cup es
           /\ tab'[t].writes = tab[t].writes /\ tab'[t].awaits = tab[t].awaits
           /\ tab'[t].loaded = tab[t].loaded /\ tab'[t].alive = tab[t].alive
           /\ SameFlush(tab[t], tab'[t])
           /\ tab'[t].keepalive = tab[t].keepalive \ es
<1> PICK m \in Memory : m = tab[t]
  BY DEF TypeOK
<1> DEFINE f == Forget(m, es)
<1>1. /\ f \in Memory /\ f.items = m.items \ es /\ f.unsaved = m.unsaved \ es
      /\ f.unremoved = m.unremoved \cup es /\ f.writes = m.writes /\ f.awaits = m.awaits
      /\ f.loaded = m.loaded /\ f.alive = m.alive
      /\ SameFlush(m, f) /\ f.keepalive = m.keepalive
  <2>1. es \in SUBSET Event
    BY DEF Memory
  <2> QED
    BY <2>1, ForgetFacts DEF SameFlush
<1> DEFINE n == [f EXCEPT !.keepalive = @ \ es]
<1>2. Put(n, t)
  BY DEF KeptSettled
<1> HIDE DEF f
<1>3. /\ n \in Memory
      /\ n.items = m.items \ es
      /\ n.unsaved = m.unsaved \ es
      /\ n.unremoved = m.unremoved \cup es
      /\ n.writes = m.writes /\ n.awaits = m.awaits
      /\ n.loaded = m.loaded /\ n.alive = m.alive
      /\ SameFlush(m, n)
      /\ n.keepalive = m.keepalive \ es
  BY <1>1 DEF Memory, Phases, SameFlush
<1> HIDE DEF n
<1>4. n = tab'[t] /\ OnlyTab(t)
  BY <1>2, <1>3, PutFacts DEF OnlyTab
<1> QED
  BY <1>3, <1>4 DEF SameFlush

\* Half of a batch is a number of events.
LEMMA HalfFacts ==
    ASSUME NEW es \in SUBSET Event
    PROVE  (Cardinality(es) + 1) \div 2 \in Nat
<1>1. IsFiniteSet(Event)
  BY ShapeAssumption, FS_Interval DEF Event
<1>2. Cardinality(es) \in Nat
  BY <1>1, FS_Subset, FS_CardinalityType
<1>3. \A n \in Nat : (n + 1) \div 2 \in Nat
  OBVIOUS
<1> QED
  BY <1>2, <1>3

\* A batch too large is to be halved.
LEMMA HalvedFacts ==
    ASSUME TypeOK, NEW t \in Tab, NEW k \in Nat,
           Put([tab[t] EXCEPT !.pc = "loop", !.batch = {}, !.maxBatch = k], t)
    PROVE  /\ OnlyTab(t)
           /\ SameQueue(tab[t], tab'[t])
           /\ tab'[t].writes = tab[t].writes /\ tab'[t].awaits = tab[t].awaits
           /\ tab'[t].keepalive = tab[t].keepalive
           /\ tab'[t].loaded = tab[t].loaded /\ tab'[t].alive = tab[t].alive
           /\ tab'[t].seen = tab[t].seen
           /\ tab'[t].pc = "loop"
           /\ tab'[t].batch = {}
<1> PICK m \in Memory : m = tab[t]
  BY DEF TypeOK
<1> DEFINE n == [m EXCEPT !.pc = "loop", !.batch = {}, !.maxBatch = k]
<1>1. /\ n \in Memory
      /\ SameQueue(m, n)
      /\ n.writes = m.writes /\ n.awaits = m.awaits
      /\ n.keepalive = m.keepalive
      /\ n.loaded = m.loaded /\ n.alive = m.alive
      /\ n.seen = m.seen
      /\ n.pc = "loop"
      /\ n.batch = {}
  BY DEF Memory, Phases, TypeOK, SameQueue, SameFlush, First
<1>2. Put(n, t)
  OBVIOUS
<1> HIDE DEF n
<1> QED
  BY <1>1, <1>2, PutFacts DEF OnlyTab, SameQueue, SameFlush

\* A request of a hidden page fails, or is to be halved.
LEMMA KeptFacts ==
    ASSUME TypeOK, NEW t \in Tab, NEW es, NEW k \in Nat,
           Put([tab[t] EXCEPT !.keepalive = @ \ es, !.maxBatch = k], t)
    PROVE  /\ OnlyTab(t)
           /\ SameQueue(tab[t], tab'[t])
           /\ tab'[t].writes = tab[t].writes /\ tab'[t].awaits = tab[t].awaits
           /\ tab'[t].loaded = tab[t].loaded /\ tab'[t].alive = tab[t].alive
           /\ SameFlush(tab[t], tab'[t])
           /\ tab'[t].keepalive \subseteq tab[t].keepalive
<1> PICK m \in Memory : m = tab[t]
  BY DEF TypeOK
<1> DEFINE n == [m EXCEPT !.keepalive = @ \ es, !.maxBatch = k]
<1>1. /\ n \in Memory
      /\ SameQueue(m, n)
      /\ n.writes = m.writes /\ n.awaits = m.awaits
      /\ n.loaded = m.loaded /\ n.alive = m.alive
      /\ SameFlush(m, n)
      /\ n.keepalive \subseteq m.keepalive
  BY DEF Memory, SameQueue, SameFlush
<1>2. Put(n, t)
  OBVIOUS
<1> HIDE DEF n
<1> QED
  BY <1>1, <1>2, PutFacts DEF OnlyTab, SameQueue, SameFlush

\* A request of a hidden page fails.
LEMMA KeepaliveFailsFacts ==
    ASSUME TypeOK, NEW t \in Tab, KeepaliveFails(t)
    PROVE  /\ OnlyTab(t)
           /\ SameQueue(tab[t], tab'[t])
           /\ tab'[t].writes = tab[t].writes /\ tab'[t].awaits = tab[t].awaits
           /\ tab'[t].loaded = tab[t].loaded /\ tab'[t].alive = tab[t].alive
           /\ SameFlush(tab[t], tab'[t])
           /\ tab'[t].keepalive \subseteq tab[t].keepalive
<1> PICK m \in Memory : m = tab[t]
  BY DEF TypeOK
<1> PICK es : Put([m EXCEPT !.keepalive = @ \ es], t)
  BY DEF KeepaliveFails
<1>1. [m EXCEPT !.keepalive = @ \ es] = [m EXCEPT !.keepalive = @ \ es, !.maxBatch = m.maxBatch]
  BY DEF Memory
<1>2. m.maxBatch \in Nat
  BY DEF Memory
<1>3. Put([m EXCEPT !.keepalive = @ \ es, !.maxBatch = m.maxBatch], t)
  BY <1>1
<1> QED
  BY <1>2, <1>3, KeptFacts

\* A queue that cannot be read is taken as it is in memory.
LEMMA LoadFailsFacts ==
    ASSUME TypeOK, NEW t \in Tab, LoadFails(t)
    PROVE  /\ OnlyTab(t)
           /\ SameQueue(tab[t], tab'[t])
           /\ tab'[t].writes = tab[t].writes /\ tab'[t].awaits = tab[t].awaits
           /\ tab'[t].keepalive = tab[t].keepalive
           /\ tab'[t].loaded /\ tab'[t].alive = tab[t].alive
           /\ SameFlush(tab[t], tab'[t])
<1> PICK m \in Memory : m = tab[t]
  BY DEF TypeOK
<1> DEFINE n == [m EXCEPT !.loaded = TRUE]
<1>1. /\ n \in Memory
      /\ SameQueue(m, n)
      /\ n.writes = m.writes /\ n.awaits = m.awaits
      /\ n.keepalive = m.keepalive
      /\ n.loaded /\ n.alive = m.alive
      /\ SameFlush(m, n)
  BY DEF Memory, SameQueue, SameFlush
<1>2. Put(n, t)
  BY DEF LoadFails
<1> HIDE DEF n
<1> QED
  BY <1>1, <1>2, PutFacts DEF OnlyTab, SameQueue, SameFlush

\* A second read that fails leaves the queue as it is.
LEMMA FlushReadFailsFacts ==
    ASSUME TypeOK, NEW t \in Tab, FlushReadFails(t)
    PROVE  /\ OnlyTab(t)
           /\ SameQueue(tab[t], tab'[t])
           /\ tab'[t].writes = tab[t].writes /\ tab'[t].awaits = tab[t].awaits
           /\ tab'[t].keepalive = tab[t].keepalive
           /\ tab'[t].loaded = tab[t].loaded /\ tab'[t].alive = tab[t].alive
           /\ tab'[t].seen = tab[t].seen /\ tab'[t].batch = tab[t].batch
           /\ tab'[t].pc = "loop"
<1> PICK m \in Memory : m = tab[t]
  BY DEF TypeOK
<1> DEFINE n == [m EXCEPT !.pc = "loop"]
<1>1. /\ n \in Memory
      /\ SameQueue(m, n)
      /\ n.writes = m.writes /\ n.awaits = m.awaits
      /\ n.keepalive = m.keepalive
      /\ n.loaded = m.loaded /\ n.alive = m.alive
      /\ n.seen = m.seen /\ n.batch = m.batch
      /\ n.pc = "loop"
  BY DEF Memory, Phases, SameQueue
<1>2. Put(n, t)
  BY DEF FlushReadFails
<1> HIDE DEF n
<1> QED
  BY <1>1, <1>2, PutFacts DEF OnlyTab, SameQueue

\* A write of the chain is done, its removals before its puts.
LEMMA WriteNextFacts ==
    ASSUME TypeOK, NEW t \in Tab, WriteNext(t)
    PROVE  LET ws == tab[t].writes
               w == Head(ws) IN
           /\ OnlyTab(t) /\ ws \in Seq(Write) /\ ws # <<>> /\ w \in Write
           /\ SameQueue(tab[t], tab'[t]) /\ SameFlush(tab[t], tab'[t])
           /\ tab'[t].loaded = tab[t].loaded /\ tab'[t].keepalive = tab[t].keepalive
           /\ tab'[t].alive = tab[t].alive
           /\ \/ /\ w.removes # {} /\ w.puts = {} /\ store' = store \ w.removes
                 /\ tab'[t].writes = Tail(ws) /\ tab'[t].awaits = OneLess(tab[t].awaits)
              \/ /\ w.removes # {} /\ w.puts # {} /\ store' = store \ w.removes
                 /\ tab'[t].writes = [ws EXCEPT ![1].removes = {}]
                 /\ tab'[t].awaits = tab[t].awaits
              \/ /\ w.removes = {} /\ store' = store \cup w.puts
                 /\ tab'[t].writes = Tail(ws) /\ tab'[t].awaits = OneLess(tab[t].awaits)
                 /\ delivered' = {e \in delivered : e \in w.puts => \E u \in Tab : Leaving(e, tab'[u])}
           /\ w.removes # {} => delivered' = delivered
<1> PICK m \in Memory : m = tab[t]
  BY DEF TypeOK
<1>1. m.writes \in Seq(Write) /\ m.writes # <<>>
  BY DEF Memory, WriteNext
<1> PICK ws \in Seq(Write) : ws = m.writes
  BY <1>1
<1>2. ws # <<>> /\ Head(ws) \in Write /\ Tail(ws) \in Seq(Write) /\ [ws EXCEPT ![1].removes = {}] \in Seq(Write)
  BY <1>1, TailChain, ClearedChain
<1> DEFINE a == OneLess(m.awaits)
<1>3. m.awaits \in Nat /\ a \in Nat
  BY DEF Memory, OneLess
<1> PICK r \in Seq(Write) : r = Tail(ws)
  BY <1>2
<1> PICK c \in Seq(Write) : c = [ws EXCEPT ![1].removes = {}]
  BY <1>2
<1> DEFINE done == [m EXCEPT !.writes = r, !.awaits = a]
<1> DEFINE half == [m EXCEPT !.writes = c]
<1>4. /\ done \in Memory /\ SameQueue(m, done) /\ SameFlush(m, done) /\ done.writes = r
      /\ done.awaits = a
      /\ done.loaded = m.loaded /\ done.keepalive = m.keepalive /\ done.alive = m.alive
  BY <1>3 DEF Memory, SameQueue, SameFlush
<1>5. /\ half \in Memory /\ SameQueue(m, half) /\ SameFlush(m, half) /\ half.writes = c
      /\ half.awaits = m.awaits
      /\ half.loaded = m.loaded /\ half.keepalive = m.keepalive /\ half.alive = m.alive
  BY DEF Memory, SameQueue, SameFlush
<1>6. Written(m) = done
  BY DEF Written, OneLess
<1>7. [m EXCEPT !.writes[1].removes = {}] = half
  OBVIOUS
<1> HIDE DEF done, half, a
<1>8. \/ /\ Head(ws).removes # {} /\ Head(ws).puts = {} /\ store' = store \ Head(ws).removes
         /\ Put(done, t) /\ delivered' = delivered
      \/ /\ Head(ws).removes # {} /\ Head(ws).puts # {} /\ store' = store \ Head(ws).removes
         /\ Put(half, t) /\ delivered' = delivered
      \/ /\ Head(ws).removes = {} /\ store' = store \cup Head(ws).puts
         /\ Put(done, t)
         /\ delivered' = {e \in delivered : e \in Head(ws).puts => \E u \in Tab : Leaving(e, tab'[u])}
  BY <1>6, <1>7 DEF WriteNext
<1>9. (Put(done, t) => tab'[t] = done /\ OnlyTab(t)) /\ (Put(half, t) => tab'[t] = half /\ OnlyTab(t))
  BY <1>4, <1>5, PutFacts DEF OnlyTab
<1>10. a = OneLess(tab[t].awaits)
  BY DEF a
<1> QED
  BY <1>2, <1>4, <1>5, <1>8, <1>9, <1>10

\* A write the store refuses leaves the chain.
LEMMA WriteRefusedFacts ==
    ASSUME TypeOK, NEW t \in Tab, WriteRefused(t)
    PROVE  LET ws == tab[t].writes IN
           /\ OnlyTab(t) /\ ws \in Seq(Write) /\ ws # <<>> /\ Head(ws) \in Write
           /\ SameQueue(tab[t], tab'[t]) /\ SameFlush(tab[t], tab'[t])
           /\ tab'[t].loaded = tab[t].loaded /\ tab'[t].keepalive = tab[t].keepalive
           /\ tab'[t].alive = tab[t].alive
           /\ tab'[t].writes = Tail(ws) /\ tab'[t].awaits = OneLess(tab[t].awaits)
<1> PICK m \in Memory : m = tab[t]
  BY DEF TypeOK
<1>1. m.writes \in Seq(Write) /\ m.writes # <<>>
  BY DEF Memory, WriteRefused
<1> PICK ws \in Seq(Write) : ws = m.writes
  BY <1>1
<1>2. ws # <<>> /\ Head(ws) \in Write /\ Tail(ws) \in Seq(Write)
  BY <1>1, TailChain
<1> PICK v \in Seq(Write) : v = Tail(ws)
  BY <1>2
<1> DEFINE a == OneLess(m.awaits)
<1>3. a \in Nat
  BY DEF Memory, OneLess
<1> DEFINE n == [m EXCEPT !.writes = v, !.awaits = a]
<1>4. /\ n \in Memory /\ SameQueue(m, n) /\ SameFlush(m, n) /\ n.writes = v /\ n.awaits = a
      /\ n.loaded = m.loaded /\ n.keepalive = m.keepalive /\ n.alive = m.alive
  BY <1>3 DEF Memory, SameQueue, SameFlush
<1>5. Put(n, t)
  BY DEF WriteRefused, Written, OneLess
<1> HIDE DEF n
<1>6. n = tab'[t] /\ OnlyTab(t)
  BY <1>4, <1>5, PutFacts DEF OnlyTab
<1> QED
  BY <1>2, <1>4, <1>6

\* A page dies, or one opens: its memory is empty.
LEMMA EmptyFacts ==
    ASSUME TypeOK, NEW t \in Tab, Put(Dead, t) \/ Put(Fresh, t)
    PROVE  /\ OnlyTab(t) /\ (tab'[t].alive \/ tab'[t] = Dead)
           /\ tab'[t].items = {} /\ tab'[t].unsaved = {} /\ tab'[t].unremoved = {} /\ tab'[t].writes = <<>>
           /\ tab'[t].pc = "none" /\ tab'[t].seen = {} /\ tab'[t].batch = {} /\ tab'[t].keepalive = {}
           /\ tab'[t].awaits = 0 /\ PutsOf(tab'[t].writes) = {} /\ RemovesOf(tab'[t].writes) = {}
<1>1. /\ Fresh \in Memory /\ Fresh.items = {} /\ Fresh.unsaved = {} /\ Fresh.unremoved = {}
      /\ Fresh.writes = <<>> /\ Fresh.pc = "none" /\ Fresh.seen = {} /\ Fresh.batch = {}
      /\ Fresh.keepalive = {} /\ Fresh.alive /\ Fresh.awaits = 0
  BY ShapeAssumption DEF Fresh, Memory, Phases
<1>2. /\ Dead \in Memory /\ Dead.items = {} /\ Dead.unsaved = {} /\ Dead.unremoved = {}
      /\ Dead.writes = <<>> /\ Dead.pc = "none" /\ Dead.seen = {} /\ Dead.batch = {}
      /\ Dead.keepalive = {} /\ Dead.awaits = 0
  <2> PICK f \in Memory : f = Fresh
    BY <1>1
  <2>1. Dead = [f EXCEPT !.alive = FALSE]
    BY DEF Dead
  <2> QED
    BY <1>1, <2>1 DEF Memory
<1>3. PutsOf(<<>>) = {} /\ RemovesOf(<<>>) = {}
  BY EmptyChain
<1>4. CASE Put(Dead, t)
  BY <1>2, <1>3, <1>4, PutFacts DEF OnlyTab
<1>5. CASE Put(Fresh, t)
  BY <1>1, <1>3, <1>5, PutFacts DEF OnlyTab
<1> QED
  BY <1>4, <1>5

\* What a persisted memory is to put and to remove.
LEMMA PersistedFacts ==
    ASSUME NEW m \in Memory, NEW n \in Memory, Persisted(m, n)
    PROVE  /\ PutsOf(n.writes) = PutsOf(m.writes) \cup m.unsaved
           /\ RemovesOf(n.writes) = RemovesOf(m.writes) \cup m.unremoved
<1>1. m.writes \in Seq(Write)
  BY DEF Memory
<1> QED
  BY <1>1, AppendChain DEF Persisted

-----------------------------------------------------------------------------
(* No event is lost.                                                         *)

\* What a step of one tab has to respect, for nothing to be lost.
LEMMA LossStep ==
    ASSUME LossInv, NEW t \in Tab, OnlyTab(t),
           tracked' \in 0 .. NumEvents, tracked <= tracked',
           faults' \in 0 .. MaxFaults, lock' \in Tab \cup {NoTab}, refused' \subseteq Event,
           Held(tab'[t]) \cup store' \cup owed' \cup delivered' \subseteq 1 .. tracked',
           owed' \cap (tab'[t].unremoved \cup RemovesOf(tab'[t].writes)) = {},
           tab'[t].items \cap owed' \subseteq
               tab'[t].unsaved \cup PutsOf(tab'[t].writes) \cup store' \cup refused',
           tab'[t].seen \cap owed' \subseteq store', tab'[t].alive \/ tab'[t] = Dead,
           \A e \in owed' : e \in owed \/ e \notin 1 .. tracked,
           store \cap owed' \subseteq store', refused \subseteq refused',
           \A e \in owed' : \/ e \notin InMemory(t) /\ e \in owed
                            \/ e \in InMemory(t)' \/ e \in store' \/ e \in refused'
                            \/ \E u \in Tab \ {t} : e \in InMemory(u)
    PROVE  LossInv'
<1>1. /\ store \cup owed \cup delivered \subseteq 1 .. tracked /\ \A u \in Tab : Held(tab[u]) \subseteq 1 .. tracked
      /\ tracked \in Nat /\ tracked' \in Nat /\ 1 .. tracked \subseteq 1 .. tracked'
  BY ShapeAssumption DEF LossInv, Numbered, TypeOK
<1>2. \A u \in Tab \ {t} : tab'[u] = tab[u] /\ Held(tab[u])' = Held(tab[u]) /\ InMemory(u)' = InMemory(u)
  BY DEF OnlyTab, Held, InMemory
<1>3. TypeOK'
  <2>1. 1 .. tracked' \subseteq Event
    BY ShapeAssumption DEF Event
  <2> QED
    BY <2>1 DEF TypeOK, OnlyTab
<1>4. Numbered'
  <2>1. \A u \in Tab : Held(tab[u])' \subseteq 1 .. tracked'
    <3> SUFFICES ASSUME NEW u \in Tab PROVE Held(tab[u])' \subseteq 1 .. tracked'
      OBVIOUS
    <3>1. CASE u = t
      BY <3>1 DEF Held
    <3>2. CASE u # t
      BY <1>1, <1>2, <3>2
    <3> QED
      BY <3>1, <3>2
  <2> QED
    BY <2>1 DEF Numbered
<1>5. RemovesUnowed'
  <2> SUFFICES ASSUME NEW u \in Tab, u # t
               PROVE  owed' \cap (tab'[u].unremoved \cup RemovesOf(tab'[u].writes)) = {}
    BY DEF RemovesUnowed
  <2>1. tab'[u] = tab[u] /\ owed \cap (tab[u].unremoved \cup RemovesOf(tab[u].writes)) = {}
    BY <1>2 DEF LossInv, RemovesUnowed
  <2>2. tab[u].unremoved \cup RemovesOf(tab[u].writes) \subseteq 1 .. tracked
    BY <1>1 DEF Held
  <2> QED
    BY <2>1, <2>2
<1>6. KeptElsewhere'
  <2> SUFFICES ASSUME NEW u \in Tab, u # t
               PROVE  /\ tab'[u].items \cap owed' \subseteq
                             tab'[u].unsaved \cup PutsOf(tab'[u].writes) \cup store' \cup refused'
                      /\ tab'[u].seen \cap owed' \subseteq store'
    BY DEF KeptElsewhere
  <2>1. /\ tab'[u] = tab[u] /\ tab[u].seen \cap owed \subseteq store
        /\ tab[u].items \cap owed \subseteq
               tab[u].unsaved \cup PutsOf(tab[u].writes) \cup store \cup refused
    BY <1>2 DEF LossInv, KeptElsewhere
  <2>2. tab[u].items \cup tab[u].seen \subseteq 1 .. tracked
    BY <1>1 DEF Held
  <2> QED
    BY <2>1, <2>2
<1>7. NothingLost'
  <2> SUFFICES ASSUME NEW e \in owed'
               PROVE  e \in store' \/ e \in refused' \/ \E u \in Tab : e \in InMemory(u)'
    BY DEF NothingLost, Somewhere
  <2>1. CASE \E u \in Tab \ {t} : e \in InMemory(u)
    BY <1>2, <2>1
  <2>2. CASE e \notin InMemory(t) /\ e \in owed
    <3>1. e \in store \/ e \in refused \/ \E u \in Tab : e \in InMemory(u)
      BY <2>2 DEF LossInv, NothingLost, Somewhere
    <3> QED
      BY <1>2, <2>2, <3>1
  <2> QED
    BY <2>1, <2>2
<1>8. Closed'
  BY <1>2 DEF LossInv, Closed, Dead, Fresh
<1> QED
  BY <1>3, <1>4, <1>5, <1>6, <1>7, <1>8 DEF LossInv

\* At first nothing is owed.
LEMMA InitLoss == Init => LossInv
<1> SUFFICES ASSUME Init PROVE LossInv
  OBVIOUS
<1>1. /\ Fresh \in Memory /\ Held(Fresh) = {} /\ Fresh.items = {} /\ Fresh.unremoved = {} /\ Fresh.seen = {}
      /\ RemovesOf(Fresh.writes) = {} /\ Fresh.alive
  BY EmptyChain, ShapeAssumption DEF Fresh, Memory, Phases, Held
<1>2. tab \in [Tab -> Memory] /\ \A t \in Tab : tab[t] = Fresh
  BY <1>1 DEF Init
<1>3. TypeOK
  BY <1>2, ShapeAssumption DEF Init, TypeOK
<1>4. Numbered
  BY <1>1, <1>2 DEF Init, Numbered
<1> QED
  BY <1>1, <1>2, <1>3, <1>4 DEF Init, LossInv, Closed, RemovesUnowed, KeptElsewhere, NothingLost

\* What LossInv says of one tab's memory.
LEMMA HeldFacts ==
    ASSUME LossInv, NEW t \in Tab
    PROVE  /\ tab[t] \in Memory /\ TypeOK /\ tracked \in Nat /\ (tab[t].alive \/ tab[t] = Dead)
           /\ store \cup owed \cup delivered \subseteq 1 .. tracked /\ Held(tab[t]) \subseteq 1 .. tracked
           /\ owed \cap (tab[t].unremoved \cup RemovesOf(tab[t].writes)) = {}
           /\ tab[t].items \cap owed \subseteq
                  tab[t].unsaved \cup PutsOf(tab[t].writes) \cup store \cup refused
           /\ tab[t].seen \cap owed \subseteq store
BY ShapeAssumption DEF LossInv, TypeOK, Numbered, Closed, RemovesUnowed, KeptElsewhere

\* Steps that change neither the queue nor the chain of a tab, but for events
\* queued that are to be written again.
LEMMA QuietLoss ==
    ASSUME LossInv, NEW t \in Tab, OnlyTab(t),
           tab'[t].items = tab[t].items, tab'[t].unremoved = tab[t].unremoved,
           tab[t].unsaved \subseteq tab'[t].unsaved,
           tab'[t].unsaved \subseteq tab[t].unsaved \cup tab[t].items,
           tab'[t].writes = tab[t].writes, tab'[t].alive = tab[t].alive, tab[t].alive,
           tab'[t].seen = tab[t].seen \/ tab'[t].seen = store,
           tab'[t].batch \subseteq tab[t].batch \cup tab[t].items,
           tab'[t].keepalive \subseteq tab[t].keepalive \cup tab[t].items,
           UNCHANGED <<store, tracked, owed, refused>>, delivered' \subseteq delivered,
           faults' \in 0 .. MaxFaults, lock' \in Tab \cup {NoTab}
    PROVE  LossInv'
<1>1. Held(tab'[t]) \subseteq 1 .. tracked
  BY HeldFacts DEF Held
<1>2. InMemory(t)' = InMemory(t)
  BY DEF InMemory
<1>4. /\ owed' \cap (tab'[t].unremoved \cup RemovesOf(tab'[t].writes)) = {}
      /\ tab'[t].items \cap owed' \subseteq
               tab'[t].unsaved \cup PutsOf(tab'[t].writes) \cup store' \cup refused'
      /\ tab'[t].seen \cap owed' \subseteq store'
  BY HeldFacts
<1>5. /\ tracked' \in 0 .. NumEvents /\ tracked <= tracked'
      /\ faults' \in 0 .. MaxFaults /\ lock' \in Tab \cup {NoTab} /\ refused' \subseteq Event
  BY HeldFacts DEF LossInv, TypeOK
<1>6. /\ \A e \in owed' : e \in owed \/ e \notin 1 .. tracked
      /\ store \cap owed' \subseteq store' /\ refused \subseteq refused'
      /\ tab'[t].alive \/ tab'[t] = Dead
  OBVIOUS
<1>7. \A e \in owed' : \/ e \notin InMemory(t) /\ e \in owed
                       \/ e \in InMemory(t)' \/ e \in store' \/ e \in refused'
                       \/ \E u \in Tab \ {t} : e \in InMemory(u)
  BY <1>2
<1>8. Held(tab'[t]) \cup store' \cup owed' \cup delivered' \subseteq 1 .. tracked'
  BY <1>1, HeldFacts
<1> QED
  BY <1>4, <1>5, <1>6, <1>7, <1>8, LossStep

\* Steps that write what is pending.
LEMMA PersistedLoss ==
    ASSUME LossInv, NEW t \in Tab, OnlyTab(t), NEW fixed, fixed \subseteq tab[t].items,
           tab'[t].items = tab[t].items, tab'[t].unsaved = {}, tab'[t].unremoved = {},
           PutsOf(tab'[t].writes) = PutsOf(tab[t].writes) \cup tab[t].unsaved \cup fixed,
           RemovesOf(tab'[t].writes) = RemovesOf(tab[t].writes) \cup tab[t].unremoved,
           tab'[t].alive = tab[t].alive, tab[t].alive,
           tab'[t].seen = tab[t].seen, tab'[t].batch \subseteq tab[t].batch,
           tab'[t].keepalive \subseteq tab[t].keepalive \cup tab[t].items,
           UNCHANGED <<store, tracked, owed, refused, delivered>>,
           faults' \in 0 .. MaxFaults, lock' \in Tab \cup {NoTab}
    PROVE  LossInv'
<1>2. Held(tab'[t]) \subseteq 1 .. tracked
  BY HeldFacts DEF Held
<1>3. InMemory(t) \subseteq InMemory(t)'
  BY DEF InMemory
<1>5. /\ owed' \cap (tab'[t].unremoved \cup RemovesOf(tab'[t].writes)) = {}
      /\ tab'[t].items \cap owed' \subseteq
               tab'[t].unsaved \cup PutsOf(tab'[t].writes) \cup store' \cup refused'
      /\ tab'[t].seen \cap owed' \subseteq store'
  BY HeldFacts
<1>6. /\ tracked' \in 0 .. NumEvents /\ tracked <= tracked'
      /\ faults' \in 0 .. MaxFaults /\ lock' \in Tab \cup {NoTab} /\ refused' \subseteq Event
  BY HeldFacts DEF LossInv, TypeOK
<1>7. /\ \A e \in owed' : e \in owed \/ e \notin 1 .. tracked
      /\ store \cap owed' \subseteq store' /\ refused \subseteq refused'
      /\ tab'[t].alive \/ tab'[t] = Dead
  OBVIOUS
<1>8. \A e \in owed' : \/ e \notin InMemory(t) /\ e \in owed
                       \/ e \in InMemory(t)' \/ e \in store' \/ e \in refused'
                       \/ \E u \in Tab \ {t} : e \in InMemory(u)
  BY <1>3
<1>9. Held(tab'[t]) \cup store' \cup owed' \cup delivered' \subseteq 1 .. tracked'
  BY <1>2, HeldFacts
<1> QED
  BY <1>5, <1>6, <1>7, <1>8, <1>9, LossStep

\* Steps that take from the queue what is no longer owed.
LEMMA ForgetLoss ==
    ASSUME LossInv, NEW t \in Tab, OnlyTab(t), NEW es,
           es \subseteq tab[t].batch \/ es \subseteq tab[t].keepalive,
           tab'[t].items = tab[t].items \ es, tab'[t].unsaved = tab[t].unsaved \ es,
           tab'[t].unremoved = tab[t].unremoved \cup es, tab'[t].writes = tab[t].writes,
           tab'[t].alive = tab[t].alive, tab[t].alive,
           tab'[t].seen = tab[t].seen, tab'[t].batch \subseteq tab[t].batch,
           tab'[t].keepalive \subseteq tab[t].keepalive,
           owed' = owed \ es, delivered' \subseteq delivered \cup es,
           UNCHANGED <<store, tracked, refused>>,
           faults' \in 0 .. MaxFaults, lock' \in Tab \cup {NoTab}
    PROVE  LossInv'
<1>1. es \subseteq 1 .. tracked /\ Held(tab'[t]) \subseteq 1 .. tracked
  BY HeldFacts DEF Held
<1>2. InMemory(t) \subseteq InMemory(t)' \cup es
  BY DEF InMemory
<1>4. /\ owed' \cap (tab'[t].unremoved \cup RemovesOf(tab'[t].writes)) = {}
      /\ tab'[t].items \cap owed' \subseteq
               tab'[t].unsaved \cup PutsOf(tab'[t].writes) \cup store' \cup refused'
      /\ tab'[t].seen \cap owed' \subseteq store'
  BY HeldFacts
<1>5. Held(tab'[t]) \cup store' \cup owed' \cup delivered' \subseteq 1 .. tracked'
  BY <1>1, HeldFacts
<1>6. /\ tracked' \in 0 .. NumEvents /\ tracked <= tracked'
      /\ faults' \in 0 .. MaxFaults /\ lock' \in Tab \cup {NoTab} /\ refused' \subseteq Event
  BY HeldFacts DEF LossInv, TypeOK
<1>7. /\ \A e \in owed' : e \in owed \/ e \notin 1 .. tracked
      /\ store \cap owed' \subseteq store' /\ refused \subseteq refused'
      /\ tab'[t].alive \/ tab'[t] = Dead
  OBVIOUS
<1>8. \A e \in owed' : \/ e \notin InMemory(t) /\ e \in owed
                       \/ e \in InMemory(t)' \/ e \in store' \/ e \in refused'
                       \/ \E u \in Tab \ {t} : e \in InMemory(u)
  BY <1>2
<1> QED
  BY <1>4, <1>5, <1>6, <1>7, <1>8, LossStep

\* Steps that make q the queue, what it drops no longer owed.
LEMMA RequeueLoss ==
    ASSUME LossInv, NEW t \in Tab, OnlyTab(t), NEW q, NEW d, d \subseteq q, NEW new,
           tracked' \in 0 .. NumEvents, tracked <= tracked',
           new \subseteq 1 .. tracked', new \cap 1 .. tracked = {},
           tab'[t].items = q \ d, tab'[t].unsaved = (tab[t].unsaved \cup new) \ d,
           tab'[t].unremoved = tab[t].unremoved \cup d, tab'[t].writes = tab[t].writes,
           tab'[t].alive = tab[t].alive, tab[t].alive,
           tab'[t].seen \subseteq tab[t].seen, tab'[t].batch = tab[t].batch,
           tab'[t].keepalive = tab[t].keepalive,
           owed' = (owed \cup new) \ d,
           q \subseteq tab[t].items \cup new \cup store \cup tab[t].seen,
           new \subseteq q, tab[t].items \subseteq q \/ tab[t].items \cap tab[t].unsaved \subseteq q,
           UNCHANGED <<store, refused, faults, lock, delivered>>
    PROVE  LossInv'
<1>1. tracked \in Nat /\ tracked' \in Nat /\ 1 .. tracked \subseteq 1 .. tracked'
  BY HeldFacts, ShapeAssumption
<1>2. /\ tab[t].items \subseteq 1 .. tracked /\ tab[t].unsaved \subseteq 1 .. tracked
      /\ tab[t].unremoved \cup RemovesOf(tab[t].writes) \subseteq 1 .. tracked
      /\ tab[t].seen \subseteq 1 .. tracked
  BY HeldFacts DEF Held
<1>3. Held(tab'[t]) \subseteq 1 .. tracked'
  <2>1. q \subseteq 1 .. tracked'
    BY <1>1, <1>2, HeldFacts
  <2>2. Held(tab[t]) \subseteq 1 .. tracked'
    BY <1>1, HeldFacts
  <2> QED
    BY <2>1, <2>2 DEF Held
<1>4. Held(tab'[t]) \cup store' \cup owed' \cup delivered' \subseteq 1 .. tracked'
  BY <1>1, <1>3, HeldFacts
<1>5. owed' \cap (tab'[t].unremoved \cup RemovesOf(tab'[t].writes)) = {}
  BY <1>2, HeldFacts
<1>6. tab'[t].items \cap owed' \subseteq
          tab'[t].unsaved \cup PutsOf(tab'[t].writes) \cup store' \cup refused'
  <2> SUFFICES ASSUME NEW e \in q \ d, e \in owed, e \notin new
               PROVE  e \in tab[t].unsaved \cup PutsOf(tab[t].writes) \cup store \cup refused
    OBVIOUS
  <2>1. e \in tab[t].items \/ e \in store \/ e \in tab[t].seen
    OBVIOUS
  <2> QED
    BY <2>1, HeldFacts
<1>7. tab'[t].seen \cap owed' \subseteq store'
  BY <1>2, HeldFacts
<1>8. \A e \in owed' : e \in InMemory(t) => e \in InMemory(t)' \/ e \in store' \/ e \in refused'
  <2> SUFFICES ASSUME NEW e \in owed', e \in InMemory(t)
               PROVE  e \in InMemory(t)' \/ e \in store' \/ e \in refused'
    OBVIOUS
  <2>1. CASE e \in PutsOf(tab[t].writes)
    BY <2>1 DEF InMemory
  <2>2. CASE e \in q
    BY <2>2 DEF InMemory
  <2>3. CASE e \in tab[t].items /\ e \notin q
    <3>1. e \in owed /\ e \notin tab[t].unsaved
      BY <1>2, <2>3
    <3>2. e \in PutsOf(tab[t].writes) \cup store \cup refused
      BY <2>3, <3>1, HeldFacts
    <3> QED
      BY <2>1, <3>2
  <2> QED
    BY <2>1, <2>2, <2>3 DEF InMemory
<1>9. \A e \in owed' : e \in new => e \in InMemory(t)'
  BY DEF InMemory
<1>10. tab'[t].alive
  OBVIOUS
<1>11. faults' \in 0 .. MaxFaults /\ lock' \in Tab \cup {NoTab} /\ refused' \subseteq Event
  BY DEF LossInv, TypeOK
<1>12. /\ \A e \in owed' : e \in owed \/ e \notin 1 .. tracked
       /\ store \cap owed' \subseteq store' /\ refused \subseteq refused'
  OBVIOUS
<1>13. \A e \in owed' : \/ e \notin InMemory(t) /\ e \in owed
                        \/ e \in InMemory(t)' \/ e \in store' \/ e \in refused'
                        \/ \E u \in Tab \ {t} : e \in InMemory(u)
  BY <1>8, <1>9
<1> QED
  BY <1>4, <1>5, <1>6, <1>7, <1>10, <1>11, <1>12, <1>13, LossStep

\* Nothing is lost when an event is tracked.
LEMMA TrackLoss ==
    ASSUME LossInv, NEW t \in Tab, Track(t)
    PROVE  LossInv'
<1> DEFINE new == {tracked + 1}
<1> DEFINE q == tab[t].items \cup new
<1> DEFINE d == q \ Bounded[q]
<1>1. /\ tracked' = tracked + 1 /\ tab[t].alive /\ owed' = (owed \cup new) \ d
      /\ UNCHANGED <<store, lock, faults, refused, delivered>>
      /\ tracked < NumEvents
  BY DEF Track
<1>2. /\ OnlyTab(t) /\ tab'[t].items = q \ d /\ tab'[t].unsaved = (tab[t].unsaved \cup new) \ d
      /\ tab'[t].unremoved = tab[t].unremoved \cup d /\ tab'[t].writes = tab[t].writes
      /\ tab'[t].keepalive = tab[t].keepalive /\ tab'[t].alive = tab[t].alive
      /\ tab'[t].seen = tab[t].seen /\ tab'[t].batch = tab[t].batch
  BY TrackFacts, HeldFacts DEF SameFlush
<1>3. /\ tracked' \in 0 .. NumEvents /\ tracked <= tracked' /\ new \subseteq 1 .. tracked'
      /\ new \cap 1 .. tracked = {}
  BY <1>1, HeldFacts, ShapeAssumption DEF LossInv, TypeOK
<1>4. /\ d \subseteq q /\ new \subseteq q /\ tab[t].items \subseteq q
      /\ q \subseteq tab[t].items \cup new \cup store \cup tab[t].seen
  OBVIOUS
<1> HIDE DEF q, d, new
<1> QED
  BY <1>1, <1>2, <1>3, <1>4, RequeueLoss

\* Nothing is lost when the store is read into the queue.
LEMMA LoadLoss ==
    ASSUME LossInv, NEW t \in Tab, Load(t)
    PROVE  LossInv'
<1> DEFINE new == {}
<1> DEFINE q == tab[t].items \cup (store \ tab[t].unremoved)
<1> DEFINE d == q \ Bounded[q]
<1>1. /\ tab[t].alive /\ owed' = (owed \cup new) \ d
      /\ UNCHANGED <<store, lock, tracked, faults, refused, delivered>>
  BY DEF Load
<1>2. /\ OnlyTab(t) /\ tab'[t].items = q \ d /\ tab'[t].unsaved = (tab[t].unsaved \cup new) \ d
      /\ tab'[t].unremoved = tab[t].unremoved \cup d /\ tab'[t].writes = tab[t].writes
      /\ tab'[t].keepalive = tab[t].keepalive /\ tab'[t].alive = tab[t].alive
      /\ tab'[t].seen = tab[t].seen /\ tab'[t].batch = tab[t].batch
  BY LoadFacts, HeldFacts DEF SameFlush
<1>3. tracked' \in 0 .. NumEvents /\ tracked <= tracked'
  BY <1>1, HeldFacts DEF LossInv, TypeOK
<1>4. /\ d \subseteq q /\ tab[t].items \subseteq q
      /\ q \subseteq tab[t].items \cup new \cup store \cup tab[t].seen
      /\ new \subseteq q /\ new \subseteq 1 .. tracked' /\ new \cap 1 .. tracked = {}
  OBVIOUS
<1> HIDE DEF q, d, new
<1> QED
  BY <1>1, <1>2, <1>3, <1>4, RequeueLoss

\* Nothing is lost when the store as read becomes the queue.
LEMMA MergeLoss ==
    ASSUME LossInv, NEW t \in Tab, Merge(t)
    PROVE  LossInv'
<1> DEFINE new == {}
<1> DEFINE q == (tab[t].seen \ tab[t].unremoved) \cup (tab[t].items \cap tab[t].unsaved)
<1> DEFINE d == q \ Bounded[q]
<1>1. /\ tab[t].pc = "merge" /\ owed' = (owed \cup new) \ d
      /\ UNCHANGED <<store, lock, tracked, faults, refused, delivered>>
  BY DEF Merge
<1>2. /\ OnlyTab(t) /\ tab'[t].items = q \ d /\ tab'[t].unsaved = (tab[t].unsaved \cup new) \ d
      /\ tab'[t].unremoved = tab[t].unremoved \cup d /\ tab'[t].writes = tab[t].writes
      /\ tab'[t].keepalive = tab[t].keepalive /\ tab'[t].alive = tab[t].alive
      /\ tab'[t].seen \subseteq tab[t].seen /\ tab'[t].batch = tab[t].batch
  BY MergeFacts, HeldFacts
<1>3. tracked' \in 0 .. NumEvents /\ tracked <= tracked' /\ tab[t].alive
  BY <1>1, HeldFacts DEF LossInv, TypeOK, Dead, Fresh
<1>4. /\ d \subseteq q /\ tab[t].items \cap tab[t].unsaved \subseteq q
      /\ q \subseteq tab[t].items \cup new \cup store \cup tab[t].seen
      /\ new \subseteq q /\ new \subseteq 1 .. tracked' /\ new \cap 1 .. tracked = {}
  OBVIOUS
<1> HIDE DEF q, d, new
<1> QED
  BY <1>1, <1>2, <1>3, <1>4, RequeueLoss

\* Nothing is lost as a chain of writes goes on, or is refused a write.
LEMMA ChainLoss ==
    ASSUME LossInv, NEW t \in Tab, WriteNext(t) \/ WriteRefused(t)
    PROVE  LossInv'
<1> PICK ws : ws = tab[t].writes
  OBVIOUS
<1>1. ws \in Seq(Write) /\ ws # <<>> /\ Head(ws) \in Write
  BY WriteNextFacts, WriteRefusedFacts, HeldFacts
<1>2. /\ OnlyTab(t) /\ SameQueue(tab[t], tab'[t]) /\ SameFlush(tab[t], tab'[t])
      /\ tab'[t].keepalive = tab[t].keepalive /\ tab'[t].alive = tab[t].alive /\ tab[t].alive
      /\ UNCHANGED <<lock, tracked, owed>>
  BY WriteNextFacts, WriteRefusedFacts, HeldFacts DEF WriteNext, WriteRefused
<1>3. /\ PutsOf(ws) = Head(ws).puts \cup PutsOf(Tail(ws))
      /\ RemovesOf(ws) = Head(ws).removes \cup RemovesOf(Tail(ws))
      /\ PutsOf([ws EXCEPT ![1].removes = {}]) = PutsOf(ws)
      /\ RemovesOf([ws EXCEPT ![1].removes = {}]) \subseteq RemovesOf(ws)
  BY <1>1, TailChain, ClearedChain
<1>4. /\ PutsOf(tab'[t].writes) \subseteq PutsOf(ws) /\ RemovesOf(tab'[t].writes) \subseteq RemovesOf(ws)
      /\ store' \subseteq store \cup PutsOf(ws) /\ delivered' \subseteq delivered
      /\ PutsOf(ws) \subseteq PutsOf(tab'[t].writes) \cup store' \cup refused'
      /\ \A e \in store : e \in store' \/ e \in Head(ws).removes
      /\ refused \subseteq refused' /\ refused' \subseteq refused \cup PutsOf(ws)
  <2>1. CASE WriteNext(t)
    <3>1. /\ refused' = refused /\ delivered' \subseteq delivered
          /\ \/ /\ Head(ws).puts = {} /\ store' = store \ Head(ws).removes
                /\ tab'[t].writes = Tail(ws)
             \/ /\ store' = store \ Head(ws).removes
                /\ tab'[t].writes = [ws EXCEPT ![1].removes = {}]
             \/ /\ store' = store \cup Head(ws).puts /\ tab'[t].writes = Tail(ws)
      BY <2>1, WriteNextFacts, HeldFacts DEF WriteNext
    <3> QED
      BY <1>3, <3>1
  <2>2. CASE WriteRefused(t)
    <3>1. /\ store' = store /\ refused' = refused \cup Head(ws).puts
          /\ delivered' = delivered \ Head(ws).removes /\ tab'[t].writes = Tail(ws)
      BY <2>2, WriteRefusedFacts, HeldFacts DEF WriteRefused
    <3> QED
      BY <1>3, <3>1
  <2> QED
    BY <2>1, <2>2
<1>5. /\ PutsOf(ws) \cup RemovesOf(ws) \subseteq Held(tab[t]) /\ Held(tab'[t]) \subseteq Held(tab[t])
      /\ InMemory(t) \subseteq InMemory(t)' \cup store' \cup refused'
      /\ store' \subseteq store \cup Held(tab[t]) /\ refused' \subseteq refused \cup Held(tab[t])
  BY <1>2, <1>4 DEF Held, InMemory, SameQueue, SameFlush
<1>6. 1 .. tracked \subseteq Event /\ tracked \in 0 .. NumEvents /\ refused \subseteq Event
  BY ShapeAssumption DEF LossInv, TypeOK, Event
<1>7. /\ tracked' \in 0 .. NumEvents /\ tracked <= tracked'
      /\ lock' \in Tab \cup {NoTab} /\ refused' \subseteq Event
  BY <1>2, <1>5, <1>6, HeldFacts DEF LossInv, TypeOK
<1>8. faults' \in 0 .. MaxFaults
  BY ShapeAssumption DEF LossInv, TypeOK, WriteNext, WriteRefused, Fault
<1>9. Held(tab'[t]) \cup store' \cup owed' \cup delivered' \subseteq 1 .. tracked'
  BY <1>2, <1>4, <1>5, HeldFacts
<1>10. owed' \cap (tab'[t].unremoved \cup RemovesOf(tab'[t].writes)) = {}
  BY <1>2, <1>4, HeldFacts DEF SameQueue
<1>11. store \cap owed' \subseteq store'
  <2>1. Head(ws).removes \subseteq RemovesOf(ws) /\ owed \cap RemovesOf(ws) = {}
    BY <1>3, HeldFacts
  <2> QED
    BY <1>2, <1>4, <2>1
<1>12. /\ tab'[t].items \cap owed' \subseteq
              tab'[t].unsaved \cup PutsOf(tab'[t].writes) \cup store' \cup refused'
       /\ tab'[t].seen \cap owed' \subseteq store'
  BY <1>2, <1>4, <1>11, HeldFacts DEF SameQueue, SameFlush
<1>13. /\ \A e \in owed' : e \in owed \/ e \notin 1 .. tracked
       /\ tab'[t].alive \/ tab'[t] = Dead
  BY <1>2
<1>14. \A e \in owed' : \/ e \notin InMemory(t) /\ e \in owed
                        \/ e \in InMemory(t)' \/ e \in store' \/ e \in refused'
                        \/ \E u \in Tab \ {t} : e \in InMemory(u)
  BY <1>2, <1>5
<1>15. refused \subseteq refused'
  BY <1>4
<1> QED
  BY <1>2, <1>7, <1>8, <1>9, <1>10, <1>11, <1>12, <1>13, <1>14, <1>15, LossStep

\* A page that dies loses what only it held; one that opens held nothing.
LEMMA PageLoss ==
    ASSUME LossInv, NEW t \in Tab, Die(t) \/ Open(t)
    PROVE  LossInv'
<1>1. Put(Dead, t) \/ Put(Fresh, t)
  BY DEF Die, Open
<1>2. /\ OnlyTab(t) /\ (tab'[t].alive \/ tab'[t] = Dead)
      /\ tab'[t].items = {} /\ tab'[t].unsaved = {} /\ tab'[t].unremoved = {} /\ tab'[t].seen = {}
      /\ tab'[t].batch = {} /\ tab'[t].keepalive = {}
      /\ PutsOf(tab'[t].writes) = {} /\ RemovesOf(tab'[t].writes) = {}
  BY <1>1, EmptyFacts, HeldFacts
<1>3. /\ UNCHANGED <<store, tracked, refused>> /\ owed' \subseteq owed /\ delivered' \subseteq delivered
      /\ lock' = NoTab \/ lock' = lock
  BY DEF Die, Open
<1>4. faults' \in 0 .. MaxFaults
  BY ShapeAssumption DEF LossInv, TypeOK, Die, Open, Fault
<1>5. /\ tracked' \in 0 .. NumEvents /\ tracked <= tracked'
      /\ lock' \in Tab \cup {NoTab} /\ refused' \subseteq Event
  BY <1>3, HeldFacts DEF LossInv, TypeOK
<1>6. Held(tab'[t]) \cup store' \cup owed' \cup delivered' \subseteq 1 .. tracked'
  BY <1>2, <1>3, HeldFacts DEF Held
<1>7. \A e \in owed' : \/ e \notin InMemory(t) /\ e \in owed
                       \/ e \in InMemory(t)' \/ e \in store' \/ e \in refused'
                       \/ \E u \in Tab \ {t} : e \in InMemory(u)
  <2>1. CASE Die(t)
    BY <1>3, <2>1 DEF Die
  <2>2. CASE Open(t)
    <3>1. tab[t].items = {} /\ tab[t].writes = <<>>
      BY <2>2, HeldFacts DEF Open, Dead, Fresh
    <3> QED
      BY <1>3, <3>1, EmptyChain DEF InMemory
  <2> QED
    BY <2>1, <2>2
<1>8. /\ owed' \cap (tab'[t].unremoved \cup RemovesOf(tab'[t].writes)) = {}
      /\ tab'[t].items \cap owed' \subseteq
             tab'[t].unsaved \cup PutsOf(tab'[t].writes) \cup store' \cup refused'
      /\ tab'[t].seen \cap owed' \subseteq store'
  BY <1>2
<1>9. /\ \A e \in owed' : e \in owed \/ e \notin 1 .. tracked
      /\ store \cap owed' \subseteq store' /\ refused \subseteq refused'
  BY <1>3
<1> QED
  BY <1>2, <1>4, <1>5, <1>6, <1>7, <1>8, <1>9, LossStep

\* A step that counts a fault stays within their bound.
LEMMA FaultFacts ==
    ASSUME TypeOK, Fault \/ faults' = faults
    PROVE  faults' \in 0 .. MaxFaults
BY ShapeAssumption DEF TypeOK, Fault

\* Nothing is lost as a batch is answered, refused, or found too large.
LEMMA AnswerLoss ==
    ASSUME LossInv, NEW t \in Tab, Answered(t) \/ TooLarge(t)
    PROVE  LossInv'
<1>1. /\ tab[t].pc = "sent" /\ UNCHANGED <<store, lock, tracked, refused>> /\ (Fault \/ faults' = faults)
  BY DEF Answered, TooLarge
<1>2. faults' \in 0 .. MaxFaults /\ lock' \in Tab \cup {NoTab}
  BY <1>1, FaultFacts DEF LossInv, TypeOK
<1>3. tab[t].alive
  BY <1>1, HeldFacts DEF Dead, Fresh
<1>4. CASE /\ Put(Settled(tab[t]), t) /\ owed' = owed \ tab[t].batch
           /\ delivered' = delivered \/ delivered' = delivered \cup tab[t].batch
  <2> DEFINE es == tab[t].batch
  <2>1. /\ OnlyTab(t) /\ tab'[t].items = tab[t].items \ es /\ tab'[t].unsaved = tab[t].unsaved \ es
        /\ tab'[t].unremoved = tab[t].unremoved \cup es /\ tab'[t].writes = tab[t].writes
        /\ tab'[t].alive = tab[t].alive /\ tab'[t].seen = tab[t].seen
        /\ tab'[t].batch \subseteq tab[t].batch /\ tab'[t].keepalive \subseteq tab[t].keepalive
    BY <1>4, HeldFacts, SettledFacts
  <2>2. es = tab[t].batch /\ owed' = owed \ es /\ delivered' \subseteq delivered \cup es
    BY <1>4
  <2> HIDE DEF es
  <2> QED
    BY <1>1, <1>2, <1>3, <2>1, <2>2, ForgetLoss
<1>5. CASE /\ \E k \in Nat : Put([tab[t] EXCEPT !.pc = "loop", !.batch = {}, !.maxBatch = k], t)
           /\ UNCHANGED <<owed, delivered>>
  <2>1. /\ OnlyTab(t) /\ SameQueue(tab[t], tab'[t]) /\ tab'[t].writes = tab[t].writes
        /\ tab'[t].alive = tab[t].alive /\ tab'[t].seen = tab[t].seen
        /\ tab'[t].batch \subseteq tab[t].batch \cup tab[t].items
        /\ tab'[t].keepalive \subseteq tab[t].keepalive \cup tab[t].items
    BY <1>5, HeldFacts, HalvedFacts
  <2>2. UNCHANGED <<store, tracked, owed, refused, delivered>>
    BY <1>1, <1>5
  <2>3. /\ tab'[t].items = tab[t].items /\ tab'[t].unremoved = tab[t].unremoved
        /\ tab'[t].unsaved = tab[t].unsaved
    BY <2>1 DEF SameQueue
  <2> QED
    BY <1>2, <1>3, <2>1, <2>2, <2>3, QuietLoss
<1> QED
  <2>1. (Cardinality(tab[t].batch) + 1) \div 2 \in Nat
    BY HalfFacts, HeldFacts DEF Memory
  <2> QED
    BY <1>4, <1>5, <2>1 DEF Answered, TooLarge

\* Nothing is lost by the steps of a flush that leave the queue as it is, by a
\* read that fails, or as what a hidden page sent fails.
LEMMA IdleLoss ==
    ASSUME LossInv, NEW t \in Tab,
           \/ Flush(t) \/ FlushRead(t) \/ FlushReadFails(t) \/ LoadFails(t) \/ SendNext(t)
           \/ Release(t) \/ KeepaliveFails(t)
    PROVE  LossInv'
<1>2. /\ OnlyTab(t) /\ tab'[t].items = tab[t].items /\ tab'[t].unremoved = tab[t].unremoved
      /\ tab[t].unsaved \subseteq tab'[t].unsaved
      /\ tab'[t].unsaved \subseteq tab[t].unsaved \cup tab[t].items
      /\ tab'[t].writes = tab[t].writes
      /\ tab'[t].alive = tab[t].alive
      /\ tab'[t].seen = tab[t].seen \/ tab'[t].seen = store
      /\ tab'[t].batch \subseteq tab[t].batch \cup tab[t].items
      /\ tab'[t].keepalive \subseteq tab[t].keepalive \cup tab[t].items
  BY FlushFacts, FlushReadFacts, FlushReadFailsFacts, LoadFailsFacts, SendNextFacts, ReleaseFacts,
     KeepaliveFailsFacts, HeldFacts DEF SameFlush, SameQueue
<1>3. /\ UNCHANGED <<store, tracked, owed, refused>> /\ (Fault \/ faults' = faults)
      /\ delivered' \subseteq delivered
      /\ lock' \in {lock, t, NoTab} /\ (tab[t].alive \/ tab[t].pc # "none")
  BY DEF Flush, FlushRead, FlushReadFails, LoadFails, SendNext, Release, KeepaliveFails
<1>4. faults' \in 0 .. MaxFaults /\ lock' \in Tab \cup {NoTab} /\ tab[t].alive
  BY <1>3, FaultFacts, HeldFacts DEF LossInv, TypeOK, Dead, Fresh
<1> QED
  BY <1>2, <1>3, <1>4, QuietLoss

\* What a page hidden adds to its chain.
LEMMA HiddenFacts ==
    ASSUME LossInv, NEW t \in Tab, Hide(t)
    PROVE  \E fixed \in SUBSET tab[t].items :
              /\ tab'[t].items = tab[t].items /\ tab'[t].unsaved = {} /\ tab'[t].unremoved = {}
              /\ PutsOf(tab'[t].writes) = PutsOf(tab[t].writes) \cup tab[t].unsaved \cup fixed
              /\ RemovesOf(tab'[t].writes) = RemovesOf(tab[t].writes) \cup tab[t].unremoved
<1>1. PICK p, h \in Memory :
         /\ Persisted(tab[t], p) /\ Persisted(h, tab'[t])
         /\ h.items = p.items /\ h.unsaved \subseteq p.items /\ h.unremoved = {}
         /\ h.writes = p.writes
  BY HideFacts, HeldFacts
<1>2. tab[t] \in Memory /\ tab'[t] \in Memory
  BY HideFacts, HeldFacts DEF OnlyTab
<1>3. /\ PutsOf(p.writes) = PutsOf(tab[t].writes) \cup tab[t].unsaved
      /\ RemovesOf(p.writes) = RemovesOf(tab[t].writes) \cup tab[t].unremoved
  BY <1>1, <1>2, PersistedFacts
<1>4. /\ PutsOf(tab'[t].writes) = PutsOf(h.writes) \cup h.unsaved
      /\ RemovesOf(tab'[t].writes) = RemovesOf(h.writes) \cup h.unremoved
  BY <1>1, <1>2, PersistedFacts
<1>5. /\ p.items = tab[t].items /\ tab'[t].items = h.items
      /\ tab'[t].unsaved = {} /\ tab'[t].unremoved = {}
  BY <1>1 DEF Persisted
<1>6. h.unsaved \in SUBSET tab[t].items
  BY <1>1, <1>5
<1> QED
  BY <1>1, <1>3, <1>4, <1>5, <1>6

\* Nothing is lost by the steps that write what is pending.
LEMMA PersistLoss ==
    ASSUME LossInv, NEW t \in Tab,
           Persist(t) \/ FlushPersist(t) \/ Stop(t) \/ Unanswered(t) \/ Hide(t)
    PROVE  LossInv'
<1>1. /\ OnlyTab(t) /\ tab'[t].alive = tab[t].alive
      /\ tab'[t].seen = tab[t].seen /\ tab'[t].batch \subseteq tab[t].batch
      /\ tab'[t].keepalive \subseteq tab[t].keepalive \cup tab[t].items
      /\ Persisted(tab[t], tab'[t]) \/ Hide(t)
  BY PersistFacts, FlushPersistFacts, StopFacts, UnansweredFacts, HideFacts, HeldFacts DEF SameFlush
<1>2. /\ UNCHANGED <<store, tracked, owed, refused, delivered>> /\ (Fault \/ faults' = faults)
      /\ lock' = lock /\ (tab[t].alive \/ tab[t].pc # "none")
  BY DEF Persist, FlushPersist, Stop, Unanswered, Hide
<1>3. faults' \in 0 .. MaxFaults /\ lock' \in Tab \cup {NoTab} /\ tab[t].alive
  BY <1>2, FaultFacts, HeldFacts DEF LossInv, TypeOK, Dead, Fresh
<1>4. PICK fixed \in SUBSET tab[t].items :
         /\ tab'[t].items = tab[t].items /\ tab'[t].unsaved = {} /\ tab'[t].unremoved = {}
         /\ PutsOf(tab'[t].writes) = PutsOf(tab[t].writes) \cup tab[t].unsaved \cup fixed
         /\ RemovesOf(tab'[t].writes) = RemovesOf(tab[t].writes) \cup tab[t].unremoved
  <2>1. CASE Hide(t)
    BY <2>1, HiddenFacts
  <2>2. CASE Persisted(tab[t], tab'[t])
    <3>1. tab[t] \in Memory /\ tab'[t] \in Memory
      BY <1>1, HeldFacts DEF OnlyTab
    <3>2. /\ PutsOf(tab'[t].writes) = PutsOf(tab[t].writes) \cup tab[t].unsaved
          /\ RemovesOf(tab'[t].writes) = RemovesOf(tab[t].writes) \cup tab[t].unremoved
      BY <2>2, <3>1, PersistedFacts
    <3>3. tab'[t].items = tab[t].items /\ tab'[t].unsaved = {} /\ tab'[t].unremoved = {}
      BY <2>2 DEF Persisted
    <3>4. {} \in SUBSET tab[t].items
      OBVIOUS
    <3> QED
      BY <3>2, <3>3, <3>4
  <2> QED
    BY <1>1, <2>1, <2>2
<1> QED
  BY <1>1, <1>2, <1>3, <1>4, PersistedLoss

\* Nothing is lost as a request of a hidden page is answered, or found too large.
LEMMA KeepaliveLoss ==
    ASSUME LossInv, NEW t \in Tab, KeepaliveAnswered(t) \/ KeepaliveTooLarge(t)
    PROVE  LossInv'
<1>1. /\ tab[t].alive /\ (Fault \/ faults' = faults)
      /\ UNCHANGED <<store, lock, tracked, refused, delivered>>
  BY DEF KeepaliveAnswered, KeepaliveTooLarge
<1>2. faults' \in 0 .. MaxFaults /\ lock' \in Tab \cup {NoTab}
  BY <1>1, FaultFacts DEF LossInv, TypeOK
<1>3. PICK es \in SUBSET tab[t].keepalive :
         \/ Put(KeptSettled(tab[t], es), t) /\ owed' = owed \ es
         \/ /\ Put([tab[t] EXCEPT !.keepalive = @ \ es, !.maxBatch = (Cardinality(es) + 1) \div 2], t)
            /\ UNCHANGED owed
  BY DEF KeepaliveAnswered, KeepaliveTooLarge, Requests
<1>4. CASE Put(KeptSettled(tab[t], es), t) /\ owed' = owed \ es
  <2>1. /\ OnlyTab(t) /\ tab'[t].items = tab[t].items \ es /\ tab'[t].unsaved = tab[t].unsaved \ es
        /\ tab'[t].unremoved = tab[t].unremoved \cup es /\ tab'[t].writes = tab[t].writes
        /\ tab'[t].alive = tab[t].alive /\ tab'[t].seen = tab[t].seen
        /\ tab'[t].batch \subseteq tab[t].batch /\ tab'[t].keepalive \subseteq tab[t].keepalive
    <3>1. /\ OnlyTab(t) /\ tab'[t].items = tab[t].items \ es /\ tab'[t].unsaved = tab[t].unsaved \ es
          /\ tab'[t].unremoved = tab[t].unremoved \cup es /\ tab'[t].writes = tab[t].writes
          /\ tab'[t].alive = tab[t].alive /\ SameFlush(tab[t], tab'[t])
          /\ tab'[t].keepalive = tab[t].keepalive \ es
      BY <1>4, HeldFacts, KeptSettledFacts
    <3> QED
      BY <3>1 DEF SameFlush
  <2>2. UNCHANGED <<store, tracked, refused>> /\ delivered' \subseteq delivered \cup es
    BY <1>1
  <2> QED
    BY <1>1, <1>2, <1>4, <2>1, <2>2, ForgetLoss
<1>5. CASE /\ Put([tab[t] EXCEPT !.keepalive = @ \ es, !.maxBatch = (Cardinality(es) + 1) \div 2], t)
           /\ UNCHANGED owed
  <2>1. (Cardinality(es) + 1) \div 2 \in Nat
    BY HalfFacts, HeldFacts DEF Memory
  <2>2. /\ OnlyTab(t) /\ SameQueue(tab[t], tab'[t]) /\ tab'[t].writes = tab[t].writes
        /\ tab'[t].alive = tab[t].alive /\ SameFlush(tab[t], tab'[t])
        /\ tab'[t].keepalive \subseteq tab[t].keepalive
    BY <1>5, <2>1, HeldFacts, KeptFacts
  <2>3. /\ tab'[t].items = tab[t].items /\ tab'[t].unremoved = tab[t].unremoved
        /\ tab'[t].unsaved = tab[t].unsaved /\ tab'[t].seen = tab[t].seen
        /\ tab'[t].batch = tab[t].batch
    BY <2>2 DEF SameQueue, SameFlush
  <2>4. UNCHANGED <<store, tracked, owed, refused>> /\ delivered' \subseteq delivered
    BY <1>1, <1>5
  <2> QED
    BY <1>1, <1>2, <2>2, <2>3, <2>4, QuietLoss
<1> QED
  BY <1>3, <1>4, <1>5

\* No step loses an event.
LEMMA LossInductive == LossInv /\ [Next]_vars => LossInv'
<1> SUFFICES ASSUME LossInv, [Next]_vars PROVE LossInv'
  OBVIOUS
<1>1. CASE UNCHANGED vars
  BY <1>1 DEF LossInv, vars, TypeOK, Numbered, Closed, RemovesUnowed, KeptElsewhere, NothingLost,
              Somewhere, InMemory, Held
<1>2. ASSUME NEW t \in Tab, Track(t) PROVE LossInv'
  BY <1>2, TrackLoss
<1>3. ASSUME NEW t \in Tab, Storing(t) PROVE LossInv'
  BY <1>3, LoadLoss, PersistLoss, ChainLoss DEF Storing
<1>4. ASSUME NEW t \in Tab, Flush(t) \/ SendNext(t) \/ Stop(t) \/ Hide(t) PROVE LossInv'
  BY <1>4, IdleLoss, PersistLoss
<1>5. ASSUME NEW t \in Tab, Flushing(t) PROVE LossInv'
  BY <1>5, PersistLoss, IdleLoss, MergeLoss, AnswerLoss DEF Flushing
<1>6. ASSUME NEW t \in Tab, Failing(t) PROVE LossInv'
  BY <1>6, ChainLoss, AnswerLoss, KeepaliveLoss, PersistLoss, IdleLoss, PageLoss DEF Failing
<1>7. ASSUME NEW t \in Tab, KeepaliveAnswered(t) \/ Open(t) PROVE LossInv'
  BY <1>7, KeepaliveLoss, PageLoss
<1> QED
  BY <1>1, <1>2, <1>3, <1>4, <1>5, <1>6, <1>7 DEF Next

\* LossInv is inductive.
THEOREM LossInvariance == Spec => []LossInv
<1>1. Init => LossInv
  BY InitLoss
<1>2. LossInv /\ [Next]_vars => LossInv'
  BY LossInductive
<1> QED
  BY <1>1, <1>2, PTL DEF Spec

\* No event is lost: one neither answered, nor reported dropped, nor lost with
\* the one page that held it, is in the store or in a page, or its write was
\* refused by the store.
THEOREM QueueLosesNothing == Spec => []NothingLost
<1>1. LossInv => NothingLost
  BY DEF LossInv
<1> QED
  BY <1>1, LossInvariance, PTL

\* The state of the queues keeps its type.
THEOREM TypeCorrect == Spec => []TypeOK
<1>1. LossInv => TypeOK
  BY DEF LossInv
<1> QED
  BY <1>1, LossInvariance, PTL

-----------------------------------------------------------------------------
(* No flush resends what another delivered.                                  *)

\* A removal pending in the first k writes of a chain.
LEMMA PendingAppended ==
    ASSUME NEW ws \in Seq(Write), NEW w \in Write, NEW e, e \notin w.puts,
           NEW k \in Nat, k <= Len(ws), NEW j \in Nat, k <= j, j <= Len(ws) + 1,
           RemovalPending(e, ws, k)
    PROVE  RemovalPending(e, Append(ws, w), j)
<1> PICK n \in 1 .. k : e \in ws[n].removes /\ \A i \in n .. Len(ws) : e \notin ws[i].puts
  BY DEF RemovalPending
<1> DEFINE a == Append(ws, w)
<1>1. /\ Len(a) = Len(ws) + 1 /\ a[Len(ws) + 1] = w
      /\ \A i \in 1 .. Len(ws) : a[i] = ws[i]
  BY AppendChain
<1> HIDE DEF a
<1>2. Len(ws) \in Nat
  OBVIOUS
<1>3. n \in 1 .. j /\ n \in 1 .. Len(ws)
  BY <1>2
<1>4. e \in a[n].removes
  BY <1>1, <1>3
<1>5. ASSUME NEW i \in n .. Len(a) PROVE e \notin a[i].puts
  <2>1. CASE i = Len(ws) + 1
    BY <1>1, <2>1
  <2>2. CASE i # Len(ws) + 1
    <3>1. i \in 1 .. Len(ws) /\ i \in n .. Len(ws)
      BY <1>1, <1>2, <2>2
    <3> QED
      BY <1>1, <3>1
  <2> QED
    BY <2>1, <2>2
<1>6. RemovalPending(e, a, j)
  BY <1>3, <1>4, <1>5 DEF RemovalPending
<1> QED
  BY <1>6 DEF a

\* A removal joins the chain.
LEMMA RemovalAppended ==
    ASSUME NEW ws \in Seq(Write), NEW w \in Write, NEW e \in w.removes, e \notin w.puts
    PROVE  RemovalPending(e, Append(ws, w), Len(ws) + 1)
<1> DEFINE a == Append(ws, w)
<1>1. Len(a) = Len(ws) + 1 /\ a[Len(ws) + 1] = w /\ Len(ws) \in Nat
  BY AppendChain
<1> HIDE DEF a
<1>2. Len(ws) + 1 \in 1 .. Len(ws) + 1 /\ \A i \in Len(ws) + 1 .. Len(a) : i = Len(ws) + 1
  BY <1>1
<1>3. RemovalPending(e, a, Len(ws) + 1)
  BY <1>1, <1>2 DEF RemovalPending
<1> QED
  BY <1>3 DEF a

\* The first write of a chain is over.
LEMMA PendingTail ==
    ASSUME NEW ws \in Seq(Write), ws # <<>>, NEW e, NEW k \in Nat, k <= Len(ws),
           RemovalPending(e, ws, k), e \notin Head(ws).removes
    PROVE  RemovalPending(e, Tail(ws), OneLess(k))
<1> PICK n \in 1 .. k : e \in ws[n].removes /\ \A i \in n .. Len(ws) : e \notin ws[i].puts
  BY DEF RemovalPending
<1> DEFINE r == Tail(ws)
<1>1. /\ Head(ws) = ws[1] /\ Len(r) = Len(ws) - 1 /\ Len(ws) \in Nat
      /\ DOMAIN ws = 1 .. Len(ws) /\ DOMAIN r = 1 .. Len(r)
      /\ \A i \in DOMAIN r : i + 1 \in DOMAIN ws /\ r[i] = ws[i + 1]
      /\ r \in Seq(Write)
  BY TailChain
<1> HIDE DEF r
<1>2. n # 1 /\ n \in 1 .. Len(ws) /\ OneLess(k) = k - 1
  BY <1>1 DEF OneLess
<1>3. n - 1 \in 1 .. OneLess(k) /\ n - 1 \in DOMAIN r
  BY <1>1, <1>2
<1>4. r[n - 1] = ws[n]
  BY <1>1, <1>3
<1>5. ASSUME NEW i \in n - 1 .. Len(r) PROVE e \notin r[i].puts
  <2>1. i \in DOMAIN r /\ i + 1 \in n .. Len(ws)
    BY <1>1, <1>2
  <2> QED
    BY <1>1, <2>1
<1>6. RemovalPending(e, r, OneLess(k))
  BY <1>3, <1>4, <1>5 DEF RemovalPending
<1> QED
  BY <1>6 DEF r

\* The removals of the first write are done.
LEMMA PendingCleared ==
    ASSUME NEW ws \in Seq(Write), ws # <<>>, NEW e, NEW k \in Nat, k <= Len(ws),
           RemovalPending(e, ws, k), e \notin Head(ws).removes
    PROVE  RemovalPending(e, [ws EXCEPT ![1].removes = {}], k)
<1> PICK n \in 1 .. k : e \in ws[n].removes /\ \A i \in n .. Len(ws) : e \notin ws[i].puts
  BY DEF RemovalPending
<1> DEFINE c == [ws EXCEPT ![1].removes = {}]
<1>1. /\ Head(ws) = ws[1] /\ Len(c) = Len(ws) /\ Len(ws) \in Nat /\ DOMAIN ws = 1 .. Len(ws)
      /\ \A i \in DOMAIN ws : c[i].puts = ws[i].puts
      /\ \A i \in DOMAIN ws \ {1} : c[i].removes = ws[i].removes
  BY TailChain, ClearedChain
<1> HIDE DEF c
<1>2. n # 1 /\ n \in DOMAIN ws \ {1} /\ \A i \in n .. Len(c) : i \in DOMAIN ws /\ i \in n .. Len(ws)
  BY <1>1
<1>3. RemovalPending(e, c, k)
  BY <1>1, <1>2 DEF RemovalPending
<1> QED
  BY <1>3 DEF c

\* An event leaves as before while the chain stays and the flush goes on.
LEMMA LeavingStays ==
    ASSUME NEW m, NEW n, NEW e, Leaving(e, m),
           n.writes = m.writes, n.awaits = m.awaits, m.unremoved \subseteq n.unremoved,
           n.pc = m.pc \/ {m.pc, n.pc} \subseteq {"loop", "sent"}
    PROVE  Leaving(e, n)
BY DEF Leaving

\* An event leaves as before when what is pending joins the chain, if it is not
\* put back with it.
LEMMA LeavingPersisted ==
    ASSUME NEW m \in Memory, NEW n \in Memory, Persisted(m, n), NEW e, e \notin m.unsaved,
           m.awaits <= Len(m.writes), Leaving(e, m),
           \/ n.pc = m.pc /\ n.awaits = m.awaits
           \/ m.pc \in {"loop", "sent"} /\ n.pc = "finally" /\ n.awaits = Len(n.writes)
    PROVE  Leaving(e, n)
<1>1. m.writes \in Seq(Write) /\ n.writes \in Seq(Write) /\ m.awaits \in Nat
  BY DEF Memory
<1>2. Len(m.writes) \in Nat /\ Len(n.writes) \in Nat
  BY <1>1
<1>3. CASE n.writes = m.writes /\ m.unremoved = {}
  BY <1>1, <1>3 DEF Leaving, Persisted
<1>4. CASE \E w \in Write : /\ w.removes = m.unremoved /\ w.puts = m.unsaved
                            /\ n.writes = Append(m.writes, w)
  <2> PICK w \in Write : /\ w.removes = m.unremoved /\ w.puts = m.unsaved
                         /\ n.writes = Append(m.writes, w)
    BY <1>4
  <2>1. Len(n.writes) = Len(m.writes) + 1
    BY <1>1, AppendChain
  <2>2. RemovalPending(e, m.writes, m.awaits) => RemovalPending(e, n.writes, m.awaits)
    <3>1. m.awaits <= Len(m.writes) + 1 /\ m.awaits <= m.awaits
      BY <1>1, <1>2
    <3> QED
      BY <1>1, <3>1, PendingAppended
  <2>3. RemovalPending(e, m.writes, Len(m.writes)) => RemovalPending(e, n.writes, Len(n.writes))
    <3>1. /\ Len(m.writes) <= Len(m.writes) /\ Len(m.writes) <= Len(m.writes) + 1
          /\ Len(m.writes) + 1 \in Nat /\ Len(m.writes) + 1 <= Len(m.writes) + 1
      BY <1>2
    <3> QED
      BY <1>1, <1>2, <2>1, <3>1, PendingAppended
  <2>4. e \in m.unremoved => RemovalPending(e, n.writes, Len(n.writes))
    BY <1>1, <2>1, RemovalAppended
  <2> QED
    BY <2>2, <2>3, <2>4 DEF Leaving
<1> QED
  BY <1>3, <1>4 DEF Persisted

\* What ResendInv says of one tab.
LEMMA ResendFacts ==
    ASSUME ResendInv, NEW t \in Tab
    PROVE  /\ LossInv /\ TypeOK /\ tab[t] \in Memory /\ Held(tab[t]) \subseteq 1 .. tracked
           /\ store \cup delivered \subseteq 1 .. tracked
           /\ (tab[t].pc # "none") <=> (lock = t)
           /\ tab[t].pc \notin {"none", "load"} => tab[t].loaded
           /\ tab[t].awaits <= Len(tab[t].writes) /\ tab[t].awaits \in Nat
           /\ tab[t].writes \in Seq(Write)
           /\ tab[t].unsaved \subseteq tab[t].items /\ tab[t].items \cap tab[t].unremoved = {}
           /\ tab[t].unsaved \cap delivered = {}
           /\ tab[t].pc \in {"loop", "sent", "finally"} => tab[t].items \cap delivered = {}
           /\ tab[t].pc = "sent" => tab[t].batch \cap delivered = {}
           /\ tab[t].pc = "merge" => tab[t].seen \cap delivered = {}
<1>1. LossInv
  BY DEF ResendInv
<1>2. TypeOK /\ tab[t] \in Memory /\ Held(tab[t]) \subseteq 1 .. tracked /\ store \cup delivered \subseteq 1 .. tracked
  BY <1>1, HeldFacts
<1>3. tab[t].awaits \in Nat /\ tab[t].writes \in Seq(Write)
  BY <1>2 DEF Memory
<1> QED
  BY <1>1, <1>2, <1>3 DEF ResendInv, OneFlushes, Queued, FlushesUndelivered

\* What a step of one tab has to respect, for no flush to resend what another
\* delivered.
LEMMA ResendStep ==
    ASSUME ResendInv, LossInv', NEW t \in Tab, OnlyTab(t), NEW new, new \cap 1 .. tracked = {},
           (tab'[t].pc # "none") <=> (lock' = t),
           \A u \in Tab \ {t} : (lock' = u) <=> (lock = u),
           tab'[t].pc \notin {"none", "load"} => tab'[t].loaded,
           tab'[t].awaits <= Len(tab'[t].writes),
           tab'[t].unsaved \subseteq tab'[t].items, tab'[t].items \cap tab'[t].unremoved = {},
           store' \subseteq store \cup PutsOf(tab[t].writes),
           tab'[t].items \cup tab'[t].seen \cup tab'[t].batch \cup PutsOf(tab'[t].writes) \subseteq
               tab[t].items \cup tab[t].seen \cup tab[t].batch \cup PutsOf(tab[t].writes) \cup store \cup new,
           tab'[t].pc \notin {"loop", "sent"} =>
               /\ \/ tab'[t].unsaved = {}
                  \/ tab[t].pc \notin {"loop", "sent"} /\ tab'[t].unsaved \subseteq tab[t].unsaved \cup new
               /\ tab'[t].unsaved \cap (store' \cup PutsOf(tab'[t].writes)) = {},
           delivered' \subseteq delivered \/ (lock = t /\ delivered' \subseteq delivered \cup tab[t].batch),
           DeliveredLeave',
           tab'[t].unsaved \cap delivered' = {},
           tab'[t].pc = "merge" => tab'[t].seen \cap delivered' = {},
           tab'[t].pc \in {"loop", "sent", "finally"} => tab'[t].items \cap delivered' = {},
           tab'[t].pc = "sent" => tab'[t].batch \cap delivered' = {}
    PROVE  ResendInv'
<1>1. \A u \in Tab \ {t} : tab'[u] = tab[u]
  BY DEF OnlyTab
<1>2. OneFlushes'
  <2> SUFFICES ASSUME NEW u \in Tab, u # t
               PROVE  /\ (tab'[u].pc # "none") <=> (lock' = u)
                      /\ tab'[u].pc \notin {"none", "load"} => tab'[u].loaded
                      /\ tab'[u].awaits <= Len(tab'[u].writes)
    BY DEF OneFlushes
  <2> QED
    BY <1>1, ResendFacts
<1>3. Queued'
  <2> SUFFICES ASSUME NEW u \in Tab, u # t
               PROVE  /\ tab'[u].unsaved \subseteq tab'[u].items
                      /\ tab'[u].items \cap tab'[u].unremoved = {}
    BY DEF Queued
  <2> QED
    BY <1>1, ResendFacts
<1>4. UnsavedHere'
  <2> DEFINE Here(u) == tab[u].items \cup tab[u].seen \cup tab[u].batch \cup PutsOf(tab[u].writes)
  <2>1. \A u \in Tab \ {t} : Here(u)' = Here(u)
    BY <1>1
  <2>2. Here(t)' \subseteq Here(t) \cup store \cup new
    OBVIOUS
  <2>3. \A u \in Tab : tab[u].unsaved \cup Here(u) \subseteq 1 .. tracked /\ PutsOf(tab[u].writes) \subseteq Here(u)
    BY ResendFacts DEF Held
  <2>4. \A u \in Tab : tab[u].pc \notin {"loop", "sent"} =>
            /\ tab[u].unsaved \cap store = {}
            /\ \A v \in Tab \ {u} : tab[u].unsaved \cap Here(v) = {}
            /\ tab[u].unsaved \cap PutsOf(tab[u].writes) = {}
    BY DEF ResendInv, UnsavedHere, HeldElsewhere
  <2>5. ASSUME NEW u \in Tab, tab'[u].pc \notin {"loop", "sent"}
        PROVE  /\ tab'[u].unsaved \cap store' = {}
               /\ \A v \in Tab \ {u} : tab'[u].unsaved \cap Here(v)' = {}
               /\ tab'[u].unsaved \cap PutsOf(tab'[u].writes) = {}
    <3> HIDE DEF Here
    <3>1. CASE u = t
      <4>1. tab'[t].unsaved \cap (store' \cup PutsOf(tab'[t].writes)) = {}
        BY <2>5, <3>1
      <4>2. CASE tab'[t].unsaved = {}
        BY <3>1, <4>1, <4>2
      <4>3. CASE tab[t].pc \notin {"loop", "sent"} /\ tab'[t].unsaved \subseteq tab[t].unsaved \cup new
        <5>1. \A v \in Tab \ {t} : tab[t].unsaved \cap Here(v) = {} /\ new \cap Here(v) = {}
          BY <2>3, <2>4, <4>3
        <5> QED
          BY <2>1, <3>1, <4>1, <4>3, <5>1
      <4> QED
        BY <2>5, <3>1, <4>2, <4>3
    <3>2. CASE u # t
      <4>1. /\ tab'[u] = tab[u] /\ tab[u].unsaved \cap store = {} /\ tab[u].unsaved \cap Here(t) = {}
            /\ tab[u].unsaved \cap PutsOf(tab[u].writes) = {} /\ tab[u].unsaved \cap new = {}
            /\ \A v \in Tab \ {u} : tab[u].unsaved \cap Here(v) = {}
        BY <1>1, <2>3, <2>4, <2>5, <3>2
      <4>2. tab[u].unsaved \cap store' = {}
        BY <2>3, <4>1
      <4>3. \A v \in Tab \ {u} : tab'[u].unsaved \cap Here(v)' = {}
        BY <2>1, <2>2, <4>1
      <4> QED
        BY <4>1, <4>2, <4>3
    <3> QED
      BY <3>1, <3>2
  <2> QED
    BY <2>5 DEF UnsavedHere, HeldElsewhere
<1>5. FlushesUndelivered'
  <2> SUFFICES ASSUME NEW u \in Tab, u # t
               PROVE  /\ tab'[u].unsaved \cap delivered' = {}
                      /\ tab'[u].pc = "merge" => tab'[u].seen \cap delivered' = {}
                      /\ tab'[u].pc \in {"loop", "sent", "finally"} => tab'[u].items \cap delivered' = {}
                      /\ tab'[u].pc = "sent" => tab'[u].batch \cap delivered' = {}
    BY DEF FlushesUndelivered
  <2>1. CASE delivered' \subseteq delivered
    BY <1>1, <2>1, ResendFacts
  <2>2. CASE lock = t /\ delivered' \subseteq delivered \cup tab[t].batch
    <3>1. tab'[u] = tab[u] /\ tab[u].pc = "none"
      BY <1>1, <2>2, ResendFacts
    <3>2. tab[u].unsaved \cap tab[t].batch = {}
      BY <3>1 DEF ResendInv, UnsavedHere, HeldElsewhere
    <3>3. tab[u].unsaved \cap delivered = {}
      BY ResendFacts
    <3> QED
      BY <2>2, <3>1, <3>2, <3>3
  <2> QED
    BY <2>1, <2>2
<1> QED
  BY <1>2, <1>3, <1>4, <1>5 DEF ResendInv

\* What was delivered still leaves, while nothing is put back.
LEMMA StillLeaves ==
    ASSUME ResendInv, NEW t \in Tab, OnlyTab(t), store' \subseteq store,
           \A e \in delivered' : /\ e \in delivered
                                 /\ Leaving(e, tab[t]) => Leaving(e, tab'[t]) \/ e \notin store'
    PROVE  DeliveredLeave'
<1> SUFFICES ASSUME NEW e \in delivered', e \in store'
             PROVE  \E u \in Tab : Leaving(e, tab'[u])
  BY DEF DeliveredLeave
<1>1. PICK u \in Tab : Leaving(e, tab[u])
  BY DEF ResendInv, DeliveredLeave
<1>2. CASE u = t
  BY <1>1, <1>2
<1>3. CASE u # t
  BY <1>1, <1>3 DEF OnlyTab
<1> QED
  BY <1>2, <1>3

\* Who flushes is unchanged for the other tabs.
LEMMA LockFacts ==
    ASSUME ResendInv, NEW t \in Tab,
           \/ lock' = lock
           \/ lock = NoTab /\ lock' = t
           \/ lock = t /\ lock' = NoTab
    PROVE  \A u \in Tab \ {t} : (lock' = u) <=> (lock = u)
BY ShapeAssumption

\* Steps that change neither the queue nor the chain, but for events queued
\* that are to be written again.
LEMMA QuietResend ==
    ASSUME ResendInv, LossInv', NEW t \in Tab, OnlyTab(t),
           tab'[t].items = tab[t].items, tab'[t].unremoved = tab[t].unremoved,
           tab'[t].writes = tab[t].writes, tab'[t].awaits = tab[t].awaits,
           tab'[t].unsaved \subseteq tab[t].items,
           \/ tab'[t].unsaved = tab[t].unsaved /\ (tab[t].pc \in {"loop", "sent"} => tab'[t].pc \in {"loop", "sent"})
           \/ tab[t].pc \in {"loop", "sent"} /\ tab'[t].pc \in {"loop", "sent"},
           store' = store, delivered' \subseteq delivered,
           tab'[t].seen \subseteq tab[t].seen \cup store, tab'[t].batch \subseteq tab[t].batch \cup tab[t].items,
           (tab'[t].pc # "none") <=> (lock' = t),
           \A u \in Tab \ {t} : (lock' = u) <=> (lock = u),
           tab'[t].pc \notin {"none", "load"} => tab'[t].loaded,
           \/ tab'[t].pc = tab[t].pc
           \/ {tab[t].pc, tab'[t].pc} \subseteq {"loop", "sent"}
           \/ tab[t].pc \notin {"loop", "sent", "finally"}
           \/ tab[t].pc = "finally" /\ tab[t].awaits = 0,
           tab'[t].pc = "merge" => tab'[t].seen \cap delivered' = {},
           tab'[t].pc \in {"loop", "sent", "finally"} => tab'[t].items \cap delivered' = {},
           tab'[t].pc = "sent" => tab'[t].batch \cap delivered' = {}
    PROVE  ResendInv'
<1>1. DeliveredLeave'
  <2>1. \A e \in delivered' : Leaving(e, tab[t]) => Leaving(e, tab'[t]) \/ e \notin store'
    <3> SUFFICES ASSUME NEW e, Leaving(e, tab[t]) PROVE Leaving(e, tab'[t])
      OBVIOUS
    <3>1. tab[t].pc = "finally" => tab[t].awaits # 0
      BY DEF Leaving, RemovalPending
    <3>2. tab[t].pc \in {"loop", "sent", "finally"}
      BY DEF Leaving
    <3>3. tab'[t].pc = tab[t].pc \/ {tab[t].pc, tab'[t].pc} \subseteq {"loop", "sent"}
      BY <3>1, <3>2
    <3>4. tab[t].unremoved \subseteq tab'[t].unremoved
      OBVIOUS
    <3> QED
      BY <3>3, <3>4, LeavingStays
  <2> QED
    BY <2>1, StillLeaves
<1>2. tab'[t].unsaved \cap delivered' = {}
  BY ResendFacts
<1>3. /\ tab'[t].awaits <= Len(tab'[t].writes) /\ tab'[t].unsaved \subseteq tab'[t].items
      /\ tab'[t].items \cap tab'[t].unremoved = {}
  BY ResendFacts
<1>4. tab'[t].pc \notin {"loop", "sent"} =>
          /\ tab[t].pc \notin {"loop", "sent"} /\ tab'[t].unsaved \subseteq tab[t].unsaved
          /\ tab'[t].unsaved \cap (store' \cup PutsOf(tab'[t].writes)) = {}
  BY DEF ResendInv, UnsavedHere, HeldElsewhere
<1>5. /\ store' \subseteq store \cup PutsOf(tab[t].writes)
      /\ tab'[t].items \cup tab'[t].seen \cup tab'[t].batch \cup PutsOf(tab'[t].writes) \subseteq
             tab[t].items \cup tab[t].seen \cup tab[t].batch \cup PutsOf(tab[t].writes) \cup store \cup {}
      /\ {} \cap 1 .. tracked = {}
  OBVIOUS
<1>6. tab'[t].pc \notin {"loop", "sent"} =>
          /\ \/ tab'[t].unsaved = {}
             \/ tab[t].pc \notin {"loop", "sent"} /\ tab'[t].unsaved \subseteq tab[t].unsaved \cup {}
          /\ tab'[t].unsaved \cap (store' \cup PutsOf(tab'[t].writes)) = {}
  BY <1>4
<1> QED
  BY <1>1, <1>2, <1>3, <1>5, <1>6, ResendStep

\* The lock and the queue's loading, for a step of the tab that leaves its phase.
LEMMA SamePhase ==
    ASSUME ResendInv, NEW t \in Tab, lock' = lock, tab'[t].pc = tab[t].pc,
           tab[t].loaded => tab'[t].loaded
    PROVE  /\ (tab'[t].pc # "none") <=> (lock' = t)
           /\ \A u \in Tab \ {t} : (lock' = u) <=> (lock = u)
           /\ tab'[t].pc \notin {"none", "load"} => tab'[t].loaded
BY ResendFacts

\* No delivered event comes into a flush by the steps that leave the queue as it is.
LEMMA IdleResend ==
    ASSUME ResendInv, LossInv', NEW t \in Tab,
           \/ Flush(t) \/ FlushRead(t) \/ FlushReadFails(t) \/ LoadFails(t) \/ SendNext(t)
           \/ Release(t) \/ KeepaliveFails(t)
    PROVE  ResendInv'
<1>1. TypeOK /\ tab[t] \in Memory
  BY ResendFacts
<1>2. ASSUME Flush(t) PROVE ResendInv'
  <2>1. /\ tab[t].pc = "none" /\ lock = NoTab /\ lock' = t
        /\ UNCHANGED <<store, tracked, owed, faults, refused, delivered>>
    BY <1>2 DEF Flush
  <2>2. /\ OnlyTab(t) /\ tab'[t].items = tab[t].items /\ tab'[t].unremoved = tab[t].unremoved
        /\ tab'[t].unsaved = tab[t].unsaved
        /\ tab'[t].writes = tab[t].writes /\ tab'[t].awaits = tab[t].awaits
        /\ tab'[t].seen = tab[t].seen /\ tab'[t].batch = tab[t].batch /\ tab'[t].pc = "load"
    BY <1>1, <1>2, FlushFacts DEF SameQueue
  <2>3. \A u \in Tab \ {t} : (lock' = u) <=> (lock = u)
    BY <2>1, LockFacts
  <2> QED
    BY <2>1, <2>2, <2>3, QuietResend, ResendFacts
<1>3. ASSUME FlushRead(t) PROVE ResendInv'
  <2>1. /\ tab[t].pc = "persist" /\ UNCHANGED <<store, lock, tracked, owed, faults, refused, delivered>>
    BY <1>3 DEF FlushRead
  <2>2. /\ OnlyTab(t) /\ tab'[t].items = tab[t].items /\ tab'[t].unremoved = tab[t].unremoved
        /\ tab'[t].unsaved = tab[t].unsaved /\ tab'[t].loaded = tab[t].loaded
        /\ tab'[t].writes = tab[t].writes /\ tab'[t].awaits = tab[t].awaits
        /\ tab'[t].seen = store /\ tab'[t].batch = tab[t].batch /\ tab'[t].pc = "merge"
    BY <1>1, <1>3, FlushReadFacts DEF SameQueue
  <2>3. store \cap delivered = {}
    <3>1. \A u \in Tab : u # t => tab[u].pc = "none"
      BY <2>1, ResendFacts
    <3>2. \A u \in Tab, e \in delivered : ~Leaving(e, tab[u])
      BY <2>1, <3>1 DEF Leaving
    <3> QED
      BY <3>2 DEF ResendInv, DeliveredLeave
  <2>4. /\ (tab'[t].pc # "none") <=> (lock' = t) /\ tab'[t].loaded
        /\ \A u \in Tab \ {t} : (lock' = u) <=> (lock = u)
    BY <2>1, <2>2, ResendFacts
  <2> QED
    BY <2>1, <2>2, <2>3, <2>4, QuietResend, ResendFacts
<1>4. ASSUME FlushReadFails(t) PROVE ResendInv'
  <2>1. /\ tab[t].pc = "persist" /\ UNCHANGED <<store, lock, tracked, owed, refused>>
        /\ delivered' = delivered \ tab[t].items
    BY <1>4 DEF FlushReadFails
  <2>2. /\ OnlyTab(t) /\ tab'[t].items = tab[t].items /\ tab'[t].unremoved = tab[t].unremoved
        /\ tab'[t].unsaved = tab[t].unsaved /\ tab'[t].loaded = tab[t].loaded
        /\ tab'[t].writes = tab[t].writes /\ tab'[t].awaits = tab[t].awaits
        /\ tab'[t].seen = tab[t].seen /\ tab'[t].batch = tab[t].batch /\ tab'[t].pc = "loop"
    BY <1>1, <1>4, FlushReadFailsFacts DEF SameQueue
  <2>4. /\ (tab'[t].pc # "none") <=> (lock' = t) /\ tab'[t].loaded
        /\ \A u \in Tab \ {t} : (lock' = u) <=> (lock = u)
    BY <2>1, <2>2, ResendFacts
  <2>5. delivered' \subseteq delivered /\ tab'[t].items \cap delivered' = {}
    BY <2>1, <2>2
  <2> QED
    BY <2>1, <2>2, <2>4, <2>5, QuietResend, ResendFacts
<1>5. ASSUME SendNext(t) PROVE ResendInv'
  <2>1. /\ tab[t].pc = "loop" /\ UNCHANGED <<store, lock, tracked, owed, faults, refused, delivered>>
    BY <1>5 DEF SendNext
  <2>2. /\ OnlyTab(t) /\ tab'[t].items = tab[t].items /\ tab'[t].unremoved = tab[t].unremoved
        /\ tab'[t].unsaved \subseteq tab[t].unsaved \cup tab[t].items /\ tab'[t].loaded = tab[t].loaded
        /\ tab'[t].writes = tab[t].writes /\ tab'[t].awaits = tab[t].awaits
        /\ tab'[t].seen = tab[t].seen /\ tab'[t].batch \subseteq tab[t].items /\ tab'[t].pc = "sent"
    BY <1>1, <1>5, SendNextFacts
  <2>3. /\ (tab'[t].pc # "none") <=> (lock' = t) /\ tab'[t].loaded
        /\ \A u \in Tab \ {t} : (lock' = u) <=> (lock = u)
    BY <2>1, <2>2, ResendFacts
  <2>4. tab'[t].unsaved \subseteq tab[t].items /\ tab[t].items \cap delivered = {}
    BY <2>1, <2>2, ResendFacts
  <2>5. tab'[t].batch \cap delivered' = {} /\ tab'[t].items \cap delivered' = {}
    BY <2>1, <2>2, <2>4
  <2> QED
    BY <2>1, <2>2, <2>3, <2>4, <2>5, QuietResend
<1>6. ASSUME Release(t) PROVE ResendInv'
  <2>1. /\ tab[t].pc = "finally" /\ tab[t].awaits = 0 /\ lock' = NoTab
        /\ UNCHANGED <<store, tracked, owed, faults, refused, delivered>>
    BY <1>6 DEF Release
  <2>2. /\ OnlyTab(t) /\ tab'[t].items = tab[t].items /\ tab'[t].unremoved = tab[t].unremoved
        /\ tab'[t].unsaved = tab[t].unsaved
        /\ tab'[t].writes = tab[t].writes /\ tab'[t].awaits = tab[t].awaits
        /\ tab'[t].seen = tab[t].seen /\ tab'[t].batch = tab[t].batch /\ tab'[t].pc = "none"
    BY <1>1, <1>6, ReleaseFacts DEF SameQueue
  <2>3. lock = t /\ NoTab # t
    BY <2>1, ResendFacts, ShapeAssumption
  <2>4. \A u \in Tab \ {t} : (lock' = u) <=> (lock = u)
    BY <2>1, <2>3, LockFacts
  <2> QED
    BY <2>1, <2>2, <2>3, <2>4, QuietResend, ResendFacts
<1>7. ASSUME LoadFails(t) \/ KeepaliveFails(t) PROVE ResendInv'
  <2>1. UNCHANGED <<store, lock, tracked, owed, refused, delivered>>
    BY <1>7 DEF LoadFails, KeepaliveFails
  <2>2. /\ OnlyTab(t) /\ SameQueue(tab[t], tab'[t]) /\ SameFlush(tab[t], tab'[t])
        /\ tab'[t].writes = tab[t].writes /\ tab'[t].awaits = tab[t].awaits
        /\ tab[t].loaded => tab'[t].loaded
    BY <1>1, <1>7, LoadFailsFacts, KeepaliveFailsFacts
  <2>3. /\ tab'[t].items = tab[t].items /\ tab'[t].unremoved = tab[t].unremoved
        /\ tab'[t].unsaved = tab[t].unsaved /\ tab'[t].pc = tab[t].pc
        /\ tab'[t].seen = tab[t].seen /\ tab'[t].batch = tab[t].batch
    BY <2>2 DEF SameQueue, SameFlush
  <2>4. /\ (tab'[t].pc # "none") <=> (lock' = t)
        /\ \A u \in Tab \ {t} : (lock' = u) <=> (lock = u)
        /\ tab'[t].pc \notin {"none", "load"} => tab'[t].loaded
    BY <2>1, <2>2, <2>3, SamePhase
  <2> QED
    BY <2>1, <2>2, <2>3, <2>4, QuietResend, ResendFacts
<1> QED
  BY <1>2, <1>3, <1>4, <1>5, <1>6, <1>7

\* A batch too large is halved, of a flush or of a page hidden.
LEMMA HalvedResend ==
    ASSUME ResendInv, LossInv', NEW t \in Tab, UNCHANGED <<store, lock, tracked, delivered>>,
           \/ /\ tab[t].pc = "sent"
              /\ \E k \in Nat : Put([tab[t] EXCEPT !.pc = "loop", !.batch = {}, !.maxBatch = k], t)
           \/ \E es, k : k \in Nat /\ Put([tab[t] EXCEPT !.keepalive = @ \ es, !.maxBatch = k], t)
    PROVE  ResendInv'
<1>1. TypeOK /\ tab[t] \in Memory
  BY ResendFacts
<1>2. /\ OnlyTab(t) /\ SameQueue(tab[t], tab'[t])
      /\ tab'[t].writes = tab[t].writes /\ tab'[t].awaits = tab[t].awaits
      /\ tab'[t].loaded = tab[t].loaded /\ tab'[t].seen = tab[t].seen
      /\ \/ tab[t].pc = "sent" /\ tab'[t].pc = "loop" /\ tab'[t].batch = {}
         \/ tab'[t].pc = tab[t].pc /\ tab'[t].batch = tab[t].batch
  BY <1>1, HalvedFacts, KeptFacts DEF SameFlush
<1>3. /\ tab'[t].items = tab[t].items /\ tab'[t].unremoved = tab[t].unremoved
      /\ tab'[t].unsaved = tab[t].unsaved
  BY <1>2 DEF SameQueue
<1>4. /\ (tab'[t].pc # "none") <=> (lock' = t)
      /\ \A u \in Tab \ {t} : (lock' = u) <=> (lock = u)
      /\ tab'[t].pc \notin {"none", "load"} => tab'[t].loaded
  BY <1>2, ResendFacts
<1>5. tab'[t].pc = "sent" => tab[t].pc = "sent" /\ tab'[t].batch = tab[t].batch
  BY <1>2
<1>6. /\ tab'[t].pc \in {"loop", "sent", "finally"} => tab[t].pc \in {"loop", "sent", "finally"}
      /\ tab'[t].pc = "merge" => tab[t].pc = "merge"
      /\ tab[t].pc \in {"loop", "sent"} => tab'[t].pc \in {"loop", "sent"}
      /\ tab'[t].batch \subseteq tab[t].batch
  BY <1>2
<1> QED
  BY <1>2, <1>3, <1>4, <1>5, <1>6, QuietResend, ResendFacts

\* Steps that make q the queue: what it drops is to be removed.
LEMMA RequeueResend ==
    ASSUME ResendInv, LossInv', NEW t \in Tab, OnlyTab(t), NEW q, NEW d, d \subseteq q,
           NEW new, new \cap 1 .. tracked = {},
           tab'[t].items = q \ d, tab'[t].unsaved = (tab[t].unsaved \cup new) \ d,
           tab'[t].unremoved = tab[t].unremoved \cup d,
           tab'[t].writes = tab[t].writes, tab'[t].awaits = tab[t].awaits,
           tab'[t].seen \subseteq tab[t].seen, tab'[t].batch = tab[t].batch,
           q \cap tab[t].unremoved = {}, tab[t].unsaved \cup new \subseteq q,
           q \subseteq tab[t].items \cup new \cup store \cup tab[t].seen,
           UNCHANGED <<store, lock, delivered>>,
           \/ tab'[t].pc = tab[t].pc
           \/ tab[t].pc = "merge" /\ tab'[t].pc = "loop",
           tab[t].loaded => tab'[t].loaded,
           tab'[t].pc \in {"loop", "sent", "finally"} => q \cap delivered = {}
    PROVE  ResendInv'
<1>1. DeliveredLeave'
  <2>1. \A e \in delivered' : Leaving(e, tab[t]) => Leaving(e, tab'[t])
    <3> SUFFICES ASSUME NEW e, Leaving(e, tab[t]) PROVE Leaving(e, tab'[t])
      OBVIOUS
    <3>1. tab[t].pc # "merge"
      BY DEF Leaving
    <3> QED
      BY <3>1, LeavingStays
  <2> QED
    BY <2>1, StillLeaves
<1>2. new \cap delivered = {} /\ new \cap store = {} /\ new \cap PutsOf(tab[t].writes) = {}
  BY ResendFacts DEF Held
<1>3. tab'[t].unsaved \cap delivered' = {}
  BY <1>2, ResendFacts
<1>4. /\ tab'[t].awaits <= Len(tab'[t].writes) /\ tab'[t].unsaved \subseteq tab'[t].items
      /\ tab'[t].items \cap tab'[t].unremoved = {}
  BY ResendFacts
<1>5. tab'[t].pc \notin {"loop", "sent"} =>
          /\ \/ tab'[t].unsaved = {}
             \/ tab[t].pc \notin {"loop", "sent"} /\ tab'[t].unsaved \subseteq tab[t].unsaved \cup new
          /\ tab'[t].unsaved \cap (store' \cup PutsOf(tab'[t].writes)) = {}
  BY <1>2 DEF ResendInv, UnsavedHere, HeldElsewhere
<1>6. /\ store' \subseteq store \cup PutsOf(tab[t].writes)
      /\ tab'[t].items \cup tab'[t].seen \cup tab'[t].batch \cup PutsOf(tab'[t].writes) \subseteq
             tab[t].items \cup tab[t].seen \cup tab[t].batch \cup PutsOf(tab[t].writes) \cup store \cup new
  OBVIOUS
<1>7. /\ (tab'[t].pc # "none") <=> (lock' = t)
      /\ \A u \in Tab \ {t} : (lock' = u) <=> (lock = u)
      /\ tab'[t].pc \notin {"none", "load"} => tab'[t].loaded
  BY ResendFacts
<1>8. /\ tab'[t].pc = "merge" => tab'[t].seen \cap delivered' = {}
      /\ tab'[t].pc \in {"loop", "sent", "finally"} => tab'[t].items \cap delivered' = {}
      /\ tab'[t].pc = "sent" => tab'[t].batch \cap delivered' = {}
  BY ResendFacts
<1>9. delivered' \subseteq delivered
  OBVIOUS
<1> QED
  BY <1>1, <1>3, <1>4, <1>5, <1>6, <1>7, <1>8, <1>9, ResendStep

\* No delivered event comes into a flush as one is tracked.
LEMMA TrackResend ==
    ASSUME ResendInv, LossInv', NEW t \in Tab, Track(t)
    PROVE  ResendInv'
<1> DEFINE new == {tracked + 1}
<1> DEFINE q == tab[t].items \cup new
<1> DEFINE d == q \ Bounded[q]
<1>1. tracked \in Nat /\ new \cap 1 .. tracked = {} /\ UNCHANGED <<store, lock, delivered>>
  BY ResendFacts, HeldFacts DEF Track
<1>2. /\ OnlyTab(t) /\ tab'[t].items = q \ d /\ tab'[t].unsaved = (tab[t].unsaved \cup new) \ d
      /\ tab'[t].unremoved = tab[t].unremoved \cup d
      /\ tab'[t].writes = tab[t].writes /\ tab'[t].awaits = tab[t].awaits
      /\ tab'[t].loaded = tab[t].loaded
      /\ tab'[t].seen = tab[t].seen /\ tab'[t].batch = tab[t].batch /\ tab'[t].pc = tab[t].pc
  BY TrackFacts, ResendFacts DEF SameFlush
<1>3. new \cap tab[t].unremoved = {} /\ new \cap delivered = {}
  BY <1>1, ResendFacts DEF Held
<1>4. /\ d \subseteq q /\ q \cap tab[t].unremoved = {} /\ tab[t].unsaved \cup new \subseteq q
      /\ q \subseteq tab[t].items \cup new \cup store \cup tab[t].seen
      /\ tab'[t].pc \in {"loop", "sent", "finally"} => q \cap delivered = {}
  BY <1>2, <1>3, ResendFacts
<1> HIDE DEF q, d, new
<1> QED
  BY <1>1, <1>2, <1>4, RequeueResend

\* No delivered event comes into a flush as the store is first read.
LEMMA LoadResend ==
    ASSUME ResendInv, LossInv', NEW t \in Tab, Load(t)
    PROVE  ResendInv'
<1> DEFINE new == {}
<1> DEFINE q == tab[t].items \cup (store \ tab[t].unremoved)
<1> DEFINE d == q \ Bounded[q]
<1>1. new \cap 1 .. tracked = {} /\ UNCHANGED <<store, lock, delivered>> /\ ~tab[t].loaded
  BY DEF Load
<1>2. /\ OnlyTab(t) /\ tab'[t].items = q \ d /\ tab'[t].unsaved = (tab[t].unsaved \cup new) \ d
      /\ tab'[t].unremoved = tab[t].unremoved \cup d
      /\ tab'[t].writes = tab[t].writes /\ tab'[t].awaits = tab[t].awaits
      /\ tab'[t].seen = tab[t].seen /\ tab'[t].batch = tab[t].batch /\ tab'[t].pc = tab[t].pc
  BY LoadFacts, ResendFacts DEF SameFlush
<1>4. /\ d \subseteq q /\ q \cap tab[t].unremoved = {} /\ tab[t].unsaved \cup new \subseteq q
      /\ q \subseteq tab[t].items \cup new \cup store \cup tab[t].seen
  BY ResendFacts
<1>5. ~(tab'[t].pc \in {"loop", "sent", "finally"})
  BY <1>1, <1>2, ResendFacts
<1> HIDE DEF q, d, new
<1> QED
  BY <1>1, <1>2, <1>4, <1>5, RequeueResend

\* No delivered event comes into a flush as the store read again becomes the queue.
LEMMA MergeResend ==
    ASSUME ResendInv, LossInv', NEW t \in Tab, Merge(t)
    PROVE  ResendInv'
<1> DEFINE new == {}
<1> DEFINE q == (tab[t].seen \ tab[t].unremoved) \cup (tab[t].items \cap tab[t].unsaved)
<1> DEFINE d == q \ Bounded[q]
<1>1. new \cap 1 .. tracked = {} /\ UNCHANGED <<store, lock, delivered>> /\ tab[t].pc = "merge"
  BY DEF Merge
<1>2. /\ OnlyTab(t) /\ tab'[t].items = q \ d /\ tab'[t].unsaved = (tab[t].unsaved \cup new) \ d
      /\ tab'[t].unremoved = tab[t].unremoved \cup d
      /\ tab'[t].writes = tab[t].writes /\ tab'[t].awaits = tab[t].awaits
      /\ tab'[t].loaded = tab[t].loaded
      /\ tab'[t].seen \subseteq tab[t].seen /\ tab'[t].batch = tab[t].batch /\ tab'[t].pc = "loop"
  BY MergeFacts, ResendFacts
<1>4. /\ d \subseteq q /\ q \cap tab[t].unremoved = {} /\ tab[t].unsaved \cup new \subseteq q
      /\ q \subseteq tab[t].items \cup new \cup store \cup tab[t].seen
  BY ResendFacts
<1>5. q \cap delivered = {}
  BY <1>1, ResendFacts
<1> HIDE DEF q, d, new
<1> QED
  BY <1>1, <1>2, <1>4, <1>5, RequeueResend

\* Steps that take events from the queue and from what is to be written.
LEMMA ForgetResend ==
    ASSUME ResendInv, LossInv', NEW t \in Tab, OnlyTab(t), NEW es,
           tab'[t].items = tab[t].items \ es, tab'[t].unsaved = tab[t].unsaved \ es,
           tab'[t].unremoved = tab[t].unremoved \cup es,
           tab'[t].writes = tab[t].writes, tab'[t].awaits = tab[t].awaits,
           tab'[t].loaded = tab[t].loaded, tab'[t].seen = tab[t].seen,
           tab'[t].batch \subseteq tab[t].batch, UNCHANGED <<store, lock>>,
           \/ tab'[t].pc = tab[t].pc /\ delivered' = delivered
           \/ /\ tab[t].pc = "sent" /\ tab'[t].pc = "loop" /\ es = tab[t].batch
              /\ delivered' = delivered \/ delivered' = delivered \cup es
    PROVE  ResendInv'
<1>1. \A e : Leaving(e, tab[t]) => Leaving(e, tab'[t])
  <2> SUFFICES ASSUME NEW e, Leaving(e, tab[t]) PROVE Leaving(e, tab'[t])
    OBVIOUS
  <2>1. tab[t].unremoved \subseteq tab'[t].unremoved
    OBVIOUS
  <2> QED
    BY <2>1, LeavingStays
<1>2. DeliveredLeave'
  <2> SUFFICES ASSUME NEW e \in delivered', e \in store' PROVE \E u \in Tab : Leaving(e, tab'[u])
    BY DEF DeliveredLeave
  <2>1. CASE e \in delivered
    <3>1. PICK u \in Tab : Leaving(e, tab[u])
      BY <2>1 DEF ResendInv, DeliveredLeave
    <3> QED
      BY <1>1, <3>1 DEF OnlyTab
  <2>2. CASE e \notin delivered
    <3>1. tab'[t].pc = "loop" /\ e \in tab'[t].unremoved
      BY <2>2
    <3> QED
      BY <3>1 DEF Leaving
  <2> QED
    BY <2>1, <2>2
<1>3. /\ tab'[t].unsaved \cap delivered' = {}
      /\ tab'[t].awaits <= Len(tab'[t].writes) /\ tab'[t].unsaved \subseteq tab'[t].items
      /\ tab'[t].items \cap tab'[t].unremoved = {}
  BY ResendFacts
<1>4. tab'[t].pc \notin {"loop", "sent"} =>
          /\ \/ tab'[t].unsaved = {}
             \/ tab[t].pc \notin {"loop", "sent"} /\ tab'[t].unsaved \subseteq tab[t].unsaved \cup {}
          /\ tab'[t].unsaved \cap (store' \cup PutsOf(tab'[t].writes)) = {}
  BY DEF ResendInv, UnsavedHere, HeldElsewhere
<1>5. /\ (tab'[t].pc # "none") <=> (lock' = t)
      /\ \A u \in Tab \ {t} : (lock' = u) <=> (lock = u)
      /\ tab'[t].pc \notin {"none", "load"} => tab'[t].loaded
  BY ResendFacts
<1>6. /\ tab'[t].pc = "merge" => tab'[t].seen \cap delivered' = {}
      /\ tab'[t].pc \in {"loop", "sent", "finally"} => tab'[t].items \cap delivered' = {}
      /\ tab'[t].pc = "sent" => tab'[t].batch \cap delivered' = {}
  BY ResendFacts
<1>7. delivered' \subseteq delivered \/ (lock = t /\ delivered' \subseteq delivered \cup tab[t].batch)
  BY ResendFacts
<1>8. /\ store' \subseteq store \cup PutsOf(tab[t].writes) /\ {} \cap 1 .. tracked = {}
      /\ tab'[t].items \cup tab'[t].seen \cup tab'[t].batch \cup PutsOf(tab'[t].writes) \subseteq
             tab[t].items \cup tab[t].seen \cup tab[t].batch \cup PutsOf(tab[t].writes) \cup store \cup {}
  OBVIOUS
<1> QED
  BY <1>2, <1>3, <1>4, <1>5, <1>6, <1>7, <1>8, ResendStep

\* What is delivered leaves the store, as a batch is answered or too large.
LEMMA AnswerResend ==
    ASSUME ResendInv, LossInv', NEW t \in Tab, Answered(t) \/ TooLarge(t)
    PROVE  ResendInv'
<1>1. tab[t].pc = "sent" /\ UNCHANGED <<store, lock, tracked>> /\ TypeOK /\ tab[t] \in Memory
  BY ResendFacts DEF Answered, TooLarge
<1>2. CASE Put(Settled(tab[t]), t) /\ (delivered' = delivered \/ delivered' = delivered \cup tab[t].batch)
  <2> DEFINE es == tab[t].batch
  <2>1. /\ OnlyTab(t) /\ tab'[t].items = tab[t].items \ es /\ tab'[t].unsaved = tab[t].unsaved \ es
        /\ tab'[t].unremoved = tab[t].unremoved \cup es
        /\ tab'[t].writes = tab[t].writes /\ tab'[t].awaits = tab[t].awaits
        /\ tab'[t].loaded = tab[t].loaded /\ tab'[t].seen = tab[t].seen
        /\ tab'[t].batch \subseteq tab[t].batch /\ tab'[t].pc = "loop"
    BY <1>1, <1>2, SettledFacts
  <2>2. es = tab[t].batch /\ (delivered' = delivered \/ delivered' = delivered \cup es)
    BY <1>2
  <2> HIDE DEF es
  <2> QED
    BY <1>1, <2>1, <2>2, ForgetResend
<1>3. CASE /\ \E k \in Nat : Put([tab[t] EXCEPT !.pc = "loop", !.batch = {}, !.maxBatch = k], t)
           /\ delivered' = delivered
  BY <1>1, <1>3, HalvedResend
<1> QED
  <2>1. (Cardinality(tab[t].batch) + 1) \div 2 \in Nat
    BY <1>1, HalfFacts DEF Memory
  <2> QED
    BY <1>2, <1>3, <2>1 DEF Answered, TooLarge

\* A request of a hidden page is answered, or too large.
LEMMA KeepaliveResend ==
    ASSUME ResendInv, LossInv', NEW t \in Tab, KeepaliveAnswered(t) \/ KeepaliveTooLarge(t)
    PROVE  ResendInv'
<1>1. UNCHANGED <<store, lock, tracked, delivered>> /\ TypeOK /\ tab[t] \in Memory
  BY ResendFacts DEF KeepaliveAnswered, KeepaliveTooLarge
<1>2. PICK es \in SUBSET tab[t].keepalive :
         \/ Put(KeptSettled(tab[t], es), t)
         \/ Put([tab[t] EXCEPT !.keepalive = @ \ es, !.maxBatch = (Cardinality(es) + 1) \div 2], t)
  BY DEF KeepaliveAnswered, KeepaliveTooLarge, Requests
<1>3. CASE Put(KeptSettled(tab[t], es), t)
  <2>1. /\ OnlyTab(t) /\ tab'[t].items = tab[t].items \ es /\ tab'[t].unsaved = tab[t].unsaved \ es
        /\ tab'[t].unremoved = tab[t].unremoved \cup es
        /\ tab'[t].writes = tab[t].writes /\ tab'[t].awaits = tab[t].awaits
        /\ tab'[t].loaded = tab[t].loaded /\ SameFlush(tab[t], tab'[t])
    BY <1>1, <1>3, KeptSettledFacts
  <2>2. tab'[t].seen = tab[t].seen /\ tab'[t].batch \subseteq tab[t].batch /\ tab'[t].pc = tab[t].pc
    BY <2>1 DEF SameFlush
  <2> QED
    BY <1>1, <2>1, <2>2, ForgetResend
<1>4. CASE Put([tab[t] EXCEPT !.keepalive = @ \ es, !.maxBatch = (Cardinality(es) + 1) \div 2], t)
  <2>1. (Cardinality(es) + 1) \div 2 \in Nat
    <3>1. es \in SUBSET Event
      BY <1>1 DEF Memory
    <3> QED
      BY <3>1, HalfFacts
  <2> QED
    BY <1>1, <1>4, <2>1, HalvedResend
<1> QED
  BY <1>2, <1>3, <1>4

\* Steps that write what is pending.
LEMMA PersistedResend ==
    ASSUME ResendInv, LossInv', NEW t \in Tab, OnlyTab(t), NEW fixed, fixed \subseteq tab[t].items,
           tab'[t].items = tab[t].items, tab'[t].unsaved = {}, tab'[t].unremoved = {},
           PutsOf(tab'[t].writes) = PutsOf(tab[t].writes) \cup tab[t].unsaved \cup fixed,
           tab'[t].awaits <= Len(tab'[t].writes), tab'[t].loaded = tab[t].loaded,
           tab'[t].seen = tab[t].seen, tab'[t].batch \subseteq tab[t].batch,
           UNCHANGED <<store, lock, delivered>>,
           \/ tab'[t].pc = tab[t].pc
           \/ tab[t].pc = "load" /\ tab[t].loaded /\ tab'[t].pc = "persist"
           \/ tab[t].pc \in {"loop", "sent"} /\ tab'[t].pc = "finally",
           \A e \in delivered : Leaving(e, tab[t]) => Leaving(e, tab'[t])
    PROVE  ResendInv'
<1>1. DeliveredLeave'
  BY StillLeaves
<1>2. tab'[t].unsaved \cap delivered' = {} /\ tab'[t].unsaved \subseteq tab'[t].items
      /\ tab'[t].items \cap tab'[t].unremoved = {}
      /\ tab'[t].unsaved \cap (store' \cup PutsOf(tab'[t].writes)) = {}
  OBVIOUS
<1>3. /\ (tab'[t].pc # "none") <=> (lock' = t)
      /\ \A u \in Tab \ {t} : (lock' = u) <=> (lock = u)
      /\ tab'[t].pc \notin {"none", "load"} => tab'[t].loaded
  BY ResendFacts
<1>4. /\ tab'[t].pc = "merge" => tab'[t].seen \cap delivered' = {}
      /\ tab'[t].pc \in {"loop", "sent", "finally"} => tab'[t].items \cap delivered' = {}
      /\ tab'[t].pc = "sent" => tab'[t].batch \cap delivered' = {}
  BY ResendFacts
<1>5. PutsOf(tab'[t].writes) \subseteq tab[t].items \cup PutsOf(tab[t].writes)
  BY ResendFacts
<1>6. /\ store' \subseteq store \cup PutsOf(tab[t].writes) /\ {} \cap 1 .. tracked = {}
      /\ delivered' \subseteq delivered
      /\ tab'[t].items \cup tab'[t].seen \cup tab'[t].batch \cup PutsOf(tab'[t].writes) \subseteq
             tab[t].items \cup tab[t].seen \cup tab[t].batch \cup PutsOf(tab[t].writes) \cup store \cup {}
  BY <1>5
<1> QED
  BY <1>1, <1>2, <1>3, <1>4, <1>6, ResendStep

\* What leaves still does as what is pending is written: nothing delivered is pending.
LEMMA PersistResend ==
    ASSUME ResendInv, LossInv', NEW t \in Tab,
           Persist(t) \/ FlushPersist(t) \/ Stop(t) \/ Unanswered(t)
    PROVE  ResendInv'
<1>1. TypeOK /\ tab[t] \in Memory /\ UNCHANGED <<store, lock, delivered>>
  BY ResendFacts DEF Persist, FlushPersist, Stop, Unanswered
<1>2. /\ OnlyTab(t) /\ Persisted(tab[t], tab'[t]) /\ tab'[t].loaded = tab[t].loaded
      /\ tab'[t].seen = tab[t].seen /\ tab'[t].batch \subseteq tab[t].batch
      /\ \/ tab'[t].pc = tab[t].pc /\ tab'[t].awaits = tab[t].awaits
         \/ /\ tab'[t].awaits = Len(tab'[t].writes)
            /\ \/ tab[t].pc = "load" /\ tab[t].loaded /\ tab'[t].pc = "persist"
               \/ tab[t].pc \in {"loop", "sent"} /\ tab'[t].pc = "finally"
  <2>1. CASE Persist(t)
    BY <1>1, <2>1, PersistFacts DEF SameFlush
  <2>2. CASE FlushPersist(t)
    BY <1>1, <2>2, FlushPersistFacts DEF FlushPersist
  <2>3. CASE Stop(t)
    BY <1>1, <2>3, StopFacts DEF Stop
  <2>4. CASE Unanswered(t)
    BY <1>1, <2>4, UnansweredFacts DEF Unanswered
  <2> QED
    BY <2>1, <2>2, <2>3, <2>4
<1>3. tab'[t] \in Memory /\ tab[t].writes \in Seq(Write) /\ tab'[t].writes \in Seq(Write)
  BY <1>1, <1>2 DEF OnlyTab, Memory
<1>4. PutsOf(tab'[t].writes) = PutsOf(tab[t].writes) \cup tab[t].unsaved \cup {}
  BY <1>1, <1>2, <1>3, PersistedFacts
<1>5. tab'[t].awaits <= Len(tab'[t].writes)
  <2>1. /\ Len(tab[t].writes) \in Nat /\ tab[t].awaits <= Len(tab[t].writes) /\ tab[t].awaits \in Nat
        /\ Len(tab'[t].writes) \in Nat
        /\ Len(tab'[t].writes) \in {Len(tab[t].writes), Len(tab[t].writes) + 1}
    BY <1>2, <1>3, ResendFacts, AppendChain DEF Persisted
  <2> QED
    BY <1>2, <2>1
<1>6. \A e \in delivered : Leaving(e, tab[t]) => Leaving(e, tab'[t])
  <2> SUFFICES ASSUME NEW e \in delivered, Leaving(e, tab[t]) PROVE Leaving(e, tab'[t])
    OBVIOUS
  <2>1. e \notin tab[t].unsaved /\ tab[t].awaits <= Len(tab[t].writes)
    BY ResendFacts
  <2>2. tab[t].pc # "load"
    BY DEF Leaving
  <2> QED
    BY <1>1, <1>2, <1>3, <2>1, <2>2, LeavingPersisted
<1>7. tab'[t].items = tab[t].items /\ tab'[t].unsaved = {} /\ tab'[t].unremoved = {}
  BY <1>2 DEF Persisted
<1> QED
  BY <1>1, <1>2, <1>4, <1>5, <1>6, <1>7, PersistedResend

\* A page hidden writes again no event that leaves the store under its lock.
LEMMA HideResend ==
    ASSUME ResendInv, LossInv', NEW t \in Tab, Hide(t)
    PROVE  ResendInv'
<1>1. TypeOK /\ tab[t] \in Memory /\ UNCHANGED <<store, lock, delivered>>
  BY ResendFacts DEF Hide
<1>2. /\ OnlyTab(t) /\ SameFlush(tab[t], tab'[t]) /\ tab'[t].awaits = tab[t].awaits
      /\ tab'[t].loaded = tab[t].loaded
  BY <1>1, HideFacts
<1> PICK p \in Memory, h \in Memory :
         /\ Persisted(tab[t], p) /\ Persisted(h, tab'[t])
         /\ h.items = p.items /\ h.unsaved \subseteq p.items /\ h.unremoved = {}
         /\ h.writes = p.writes /\ p.awaits = tab[t].awaits /\ h.awaits = p.awaits
         /\ SameFlush(tab[t], p) /\ SameFlush(p, h)
  BY <1>1, HideFacts
<1>3. /\ tab'[t] \in Memory /\ p.unremoved = {} /\ p.items = tab[t].items
      /\ tab'[t].items = tab[t].items /\ tab'[t].unsaved = {} /\ tab'[t].unremoved = {}
  BY <1>1, <1>2 DEF OnlyTab, Persisted
<1>4. /\ tab'[t].pc = tab[t].pc /\ tab'[t].seen = tab[t].seen /\ tab'[t].batch = tab[t].batch
      /\ p.pc = tab[t].pc /\ h.pc = p.pc
  BY <1>2 DEF SameFlush
<1>5. PutsOf(tab'[t].writes) = PutsOf(tab[t].writes) \cup tab[t].unsaved \cup h.unsaved
  <2>1. PutsOf(p.writes) = PutsOf(tab[t].writes) \cup tab[t].unsaved
    BY <1>1, PersistedFacts
  <2>2. PutsOf(tab'[t].writes) = PutsOf(h.writes) \cup h.unsaved
    BY <1>3, PersistedFacts
  <2> QED
    BY <2>1, <2>2
<1>6. p.awaits <= Len(p.writes) /\ tab'[t].awaits <= Len(tab'[t].writes)
  <2>1. /\ tab[t].writes \in Seq(Write) /\ p.writes \in Seq(Write) /\ tab'[t].writes \in Seq(Write)
        /\ tab[t].awaits <= Len(tab[t].writes) /\ tab[t].awaits \in Nat
    BY <1>1, <1>3, ResendFacts DEF Memory
  <2>2. Len(p.writes) \in {Len(tab[t].writes), Len(tab[t].writes) + 1}
    BY <2>1, AppendChain DEF Persisted
  <2>3. Len(tab'[t].writes) \in {Len(p.writes), Len(p.writes) + 1}
    BY <2>1, AppendChain DEF Persisted
  <2> QED
    BY <1>2, <2>1, <2>2, <2>3
<1>7. \A e \in delivered : Leaving(e, tab[t]) => Leaving(e, tab'[t])
  <2> SUFFICES ASSUME NEW e \in delivered, Leaving(e, tab[t]) PROVE Leaving(e, tab'[t])
    OBVIOUS
  <2>1. e \notin tab[t].unsaved /\ tab[t].awaits <= Len(tab[t].writes)
    BY ResendFacts
  <2>2. e \notin h.unsaved
    <3>1. tab[t].pc \in {"loop", "sent", "finally"}
      BY DEF Leaving
    <3> QED
      BY <1>3, <3>1, ResendFacts
  <2>3. Leaving(e, p)
    BY <1>1, <1>4, <2>1, LeavingPersisted
  <2>4. Leaving(e, h)
    BY <1>3, <1>4, <2>3, LeavingStays
  <2> QED
    BY <1>2, <1>3, <1>4, <1>6, <2>2, <2>4, LeavingPersisted
<1>8. h.unsaved \subseteq tab[t].items
  BY <1>3
<1> QED
  BY <1>1, <1>2, <1>3, <1>4, <1>5, <1>6, <1>7, <1>8, PersistedResend

\* What is delivered leaves as a chain of writes goes on, but what it puts back
\* or fails to remove.
LEMMA ChainResend ==
    ASSUME ResendInv, LossInv', NEW t \in Tab, WriteNext(t) \/ WriteRefused(t)
    PROVE  ResendInv'
<1>1. TypeOK /\ tab[t] \in Memory /\ lock' = lock
  BY ResendFacts DEF WriteNext, WriteRefused
<1> PICK ws \in Seq(Write) : ws = tab[t].writes
  BY ResendFacts
<1>2. /\ OnlyTab(t) /\ SameQueue(tab[t], tab'[t]) /\ SameFlush(tab[t], tab'[t])
      /\ tab'[t].loaded = tab[t].loaded /\ ws # <<>> /\ Head(ws) \in Write
  BY <1>1, WriteNextFacts, WriteRefusedFacts
<1>3. /\ \/ tab'[t].writes = Tail(ws) /\ tab'[t].awaits = OneLess(tab[t].awaits)
         \/ tab'[t].writes = [ws EXCEPT ![1].removes = {}] /\ tab'[t].awaits = tab[t].awaits
      /\ \/ store' = store \ Head(ws).removes /\ delivered' = delivered
         \/ /\ Head(ws).removes = {} /\ store' = store \cup Head(ws).puts
            /\ delivered' = {e \in delivered : e \in Head(ws).puts => \E u \in Tab : Leaving(e, tab'[u])}
         \/ store' = store /\ delivered' = delivered \ Head(ws).removes
  <2>1. CASE WriteNext(t)
    BY <1>1, <2>1, WriteNextFacts
  <2>2. CASE WriteRefused(t)
    BY <1>1, <2>2, WriteRefusedFacts DEF WriteRefused
  <2> QED
    BY <2>1, <2>2
<1>4. /\ PutsOf(tab'[t].writes) \subseteq PutsOf(ws) /\ Head(ws).puts \subseteq PutsOf(ws)
      /\ tab'[t].awaits <= Len(tab'[t].writes)
  <2>1. PutsOf(ws) = Head(ws).puts \cup PutsOf(Tail(ws)) /\ Len(Tail(ws)) = Len(ws) - 1
    BY <1>2, TailChain
  <2>2. /\ PutsOf([ws EXCEPT ![1].removes = {}]) = PutsOf(ws)
        /\ Len([ws EXCEPT ![1].removes = {}]) = Len(ws)
    BY <1>2, ClearedChain
  <2>3. Len(ws) \in Nat /\ Len(ws) # 0
    BY <1>2, EmptySeq
  <2>4. tab[t].awaits \in Nat /\ tab[t].awaits <= Len(ws)
    BY ResendFacts
  <2>5. OneLess(tab[t].awaits) <= Len(ws) - 1
    BY <2>3, <2>4 DEF OneLess
  <2>6. CASE tab'[t].writes = Tail(ws) /\ tab'[t].awaits = OneLess(tab[t].awaits)
    BY <2>1, <2>5, <2>6
  <2>7. CASE tab'[t].writes = [ws EXCEPT ![1].removes = {}] /\ tab'[t].awaits = tab[t].awaits
    BY <2>1, <2>2, <2>4, <2>7
  <2> QED
    BY <1>3, <2>6, <2>7
<1>5. /\ tab'[t].items = tab[t].items /\ tab'[t].unsaved = tab[t].unsaved
      /\ tab'[t].unremoved = tab[t].unremoved /\ tab'[t].pc = tab[t].pc
      /\ tab'[t].seen = tab[t].seen /\ tab'[t].batch = tab[t].batch
  BY <1>2 DEF SameQueue, SameFlush
<1>6. \A e : Leaving(e, tab[t]) => Leaving(e, tab'[t]) \/ e \in Head(ws).removes
  <2> SUFFICES ASSUME NEW e, Leaving(e, tab[t]), e \notin Head(ws).removes
               PROVE  Leaving(e, tab'[t])
    OBVIOUS
  <2>1. /\ Len(ws) \in Nat /\ Len(ws) <= Len(ws) /\ tab[t].awaits \in Nat /\ tab[t].awaits <= Len(ws)
    BY ResendFacts
  <2>2. CASE tab'[t].writes = Tail(ws) /\ tab'[t].awaits = OneLess(tab[t].awaits)
    <3>1. RemovalPending(e, ws, tab[t].awaits) => RemovalPending(e, Tail(ws), OneLess(tab[t].awaits))
      BY <1>2, <2>1, PendingTail
    <3>2. RemovalPending(e, ws, Len(ws)) => RemovalPending(e, Tail(ws), Len(Tail(ws)))
      <4>1. Len(Tail(ws)) = OneLess(Len(ws))
        BY <1>2, TailChain DEF OneLess
      <4> QED
        BY <1>2, <2>1, <4>1, PendingTail
    <3> QED
      BY <1>5, <2>2, <3>1, <3>2 DEF Leaving
  <2>3. CASE tab'[t].writes = [ws EXCEPT ![1].removes = {}] /\ tab'[t].awaits = tab[t].awaits
    <3>1. /\ RemovalPending(e, ws, tab[t].awaits) => RemovalPending(e, tab'[t].writes, tab[t].awaits)
          /\ RemovalPending(e, ws, Len(ws)) => RemovalPending(e, tab'[t].writes, Len(ws))
      BY <1>2, <2>1, <2>3, PendingCleared
    <3>2. Len(tab'[t].writes) = Len(ws)
      BY <1>2, <2>3, ClearedChain
    <3> QED
      BY <1>5, <2>3, <3>1, <3>2 DEF Leaving
  <2> QED
    BY <1>3, <2>2, <2>3
<1>7. DeliveredLeave'
  <2> SUFFICES ASSUME NEW e \in delivered', e \in store' PROVE \E u \in Tab : Leaving(e, tab'[u])
    BY DEF DeliveredLeave
  <2>1. CASE e \in Head(ws).puts /\ store' = store \cup Head(ws).puts
             /\ delivered' = {f \in delivered : f \in Head(ws).puts => \E u \in Tab : Leaving(f, tab'[u])}
    BY <2>1
  <2>2. CASE e \in store /\ e \in delivered /\ e \notin Head(ws).removes
    <3>1. PICK u \in Tab : Leaving(e, tab[u])
      BY <2>2 DEF ResendInv, DeliveredLeave
    <3> QED
      BY <1>2, <1>6, <2>2, <3>1 DEF OnlyTab
  <2> QED
    BY <1>3, <2>1, <2>2
<1>8. delivered' \subseteq delivered /\ store' \subseteq store \cup PutsOf(tab[t].writes)
  BY <1>3, <1>4
<1>9. /\ tab'[t].unsaved \cap delivered' = {} /\ tab'[t].unsaved \subseteq tab'[t].items
      /\ tab'[t].items \cap tab'[t].unremoved = {}
      /\ tab'[t].pc = "merge" => tab'[t].seen \cap delivered' = {}
      /\ tab'[t].pc \in {"loop", "sent", "finally"} => tab'[t].items \cap delivered' = {}
      /\ tab'[t].pc = "sent" => tab'[t].batch \cap delivered' = {}
  BY <1>5, <1>8, ResendFacts
<1>10. tab'[t].pc \notin {"loop", "sent"} =>
          /\ \/ tab'[t].unsaved = {}
             \/ tab[t].pc \notin {"loop", "sent"} /\ tab'[t].unsaved \subseteq tab[t].unsaved \cup {}
          /\ tab'[t].unsaved \cap (store' \cup PutsOf(tab'[t].writes)) = {}
  BY <1>4, <1>5, <1>8 DEF ResendInv, UnsavedHere, HeldElsewhere
<1>11. /\ (tab'[t].pc # "none") <=> (lock' = t)
       /\ \A u \in Tab \ {t} : (lock' = u) <=> (lock = u)
       /\ tab'[t].pc \notin {"none", "load"} => tab'[t].loaded
  BY <1>1, <1>2, <1>5, SamePhase
<1>12. /\ {} \cap 1 .. tracked = {}
       /\ tab'[t].items \cup tab'[t].seen \cup tab'[t].batch \cup PutsOf(tab'[t].writes) \subseteq
              tab[t].items \cup tab[t].seen \cup tab[t].batch \cup PutsOf(tab[t].writes) \cup store \cup {}
  BY <1>4, <1>5
<1> QED
  BY <1>2, <1>4, <1>7, <1>8, <1>9, <1>10, <1>11, <1>12, ResendStep

\* A page that dies in a flush leaves what it was to remove; one that opens has
\* delivered nothing.
LEMMA PageResend ==
    ASSUME ResendInv, LossInv', NEW t \in Tab, Die(t) \/ Open(t)
    PROVE  ResendInv'
<1>1. TypeOK /\ tab[t] \in Memory /\ (Put(Dead, t) \/ Put(Fresh, t))
  BY ResendFacts DEF Die, Open
<1>2. /\ OnlyTab(t)
      /\ tab'[t].items = {} /\ tab'[t].unsaved = {} /\ tab'[t].unremoved = {} /\ tab'[t].writes = <<>>
      /\ tab'[t].pc = "none" /\ tab'[t].seen = {} /\ tab'[t].batch = {} /\ tab'[t].awaits = 0
      /\ PutsOf(tab'[t].writes) = {}
  BY <1>1, EmptyFacts
<1>3. tab[t].pc = "none" \/ lock = t
  BY ResendFacts
<1>4. /\ store' = store /\ delivered' \subseteq delivered
      /\ \/ lock = t /\ lock' = NoTab /\ delivered' = delivered \ store
         \/ lock # t /\ lock' = lock /\ delivered' = delivered
  <2>1. CASE Die(t)
    BY <2>1 DEF Die
  <2>2. CASE Open(t)
    <3>1. tab[t].pc = "none"
      BY <2>2, ResendFacts, HeldFacts DEF Open, Dead, Fresh
    <3> QED
      BY <2>2, <3>1, ResendFacts DEF Open
  <2> QED
    BY <2>1, <2>2
<1>5. DeliveredLeave'
  <2>1. CASE lock = t
    BY <1>4, <2>1 DEF DeliveredLeave
  <2>2. CASE lock # t
    <3>1. \A e : ~Leaving(e, tab[t])
      BY <1>3, <2>2 DEF Leaving
    <3> QED
      BY <1>2, <1>4, <3>1, StillLeaves
  <2> QED
    BY <2>1, <2>2
<1>6. /\ (tab'[t].pc # "none") <=> (lock' = t)
      /\ \A u \in Tab \ {t} : (lock' = u) <=> (lock = u)
  BY <1>2, <1>4, ShapeAssumption
<1>7. tab'[t].awaits <= Len(tab'[t].writes)
  <2>1. Len(<<>>) = 0
    BY EmptySeq
  <2> QED
    BY <1>2, <2>1
<1>8. /\ {} \cap 1 .. tracked = {} /\ store' \subseteq store \cup PutsOf(tab[t].writes)
      /\ tab'[t].items \cup tab'[t].seen \cup tab'[t].batch \cup PutsOf(tab'[t].writes) \subseteq
              tab[t].items \cup tab[t].seen \cup tab[t].batch \cup PutsOf(tab[t].writes) \cup store \cup {}
      /\ tab'[t].unsaved \subseteq tab'[t].items /\ tab'[t].items \cap tab'[t].unremoved = {}
      /\ tab'[t].unsaved \cap delivered' = {}
      /\ tab'[t].pc \notin {"loop", "sent"} =>
               /\ \/ tab'[t].unsaved = {}
                  \/ tab[t].pc \notin {"loop", "sent"} /\ tab'[t].unsaved \subseteq tab[t].unsaved \cup {}
               /\ tab'[t].unsaved \cap (store' \cup PutsOf(tab'[t].writes)) = {}
      /\ tab'[t].pc \notin {"none", "load"} => tab'[t].loaded
      /\ tab'[t].pc = "merge" => tab'[t].seen \cap delivered' = {}
      /\ tab'[t].pc \in {"loop", "sent", "finally"} => tab'[t].items \cap delivered' = {}
      /\ tab'[t].pc = "sent" => tab'[t].batch \cap delivered' = {}
  BY <1>2, <1>4
<1> QED
  BY <1>2, <1>4, <1>5, <1>6, <1>7, <1>8, ResendStep

\* At first nothing was delivered.
LEMMA InitResend == Init => ResendInv
<1> SUFFICES ASSUME Init PROVE ResendInv
  OBVIOUS
<1>1. /\ Fresh.items = {} /\ Fresh.unsaved = {} /\ Fresh.unremoved = {} /\ Fresh.pc = "none"
      /\ Fresh.awaits = 0 /\ Fresh.writes = <<>>
  BY DEF Fresh
<1>2. \A t \in Tab : tab[t] = Fresh
  BY DEF Init
<1>3. LossInv
  BY InitLoss
<1>4. Len(<<>>) = 0
  BY EmptySeq
<1>5. OneFlushes
  BY <1>1, <1>2, <1>4, ShapeAssumption DEF Init, OneFlushes
<1>6. Queued /\ UnsavedHere
  BY <1>1, <1>2 DEF Queued, UnsavedHere
<1>7. DeliveredLeave /\ FlushesUndelivered
  BY DEF Init, DeliveredLeave, FlushesUndelivered
<1> QED
  BY <1>3, <1>5, <1>6, <1>7 DEF ResendInv

\* No step brings a delivered event into a flush.
LEMMA ResendInductive == ResendInv /\ [Next]_vars => ResendInv'
<1> SUFFICES ASSUME ResendInv, [Next]_vars PROVE ResendInv'
  OBVIOUS
<1>1. LossInv'
  BY LossInductive DEF ResendInv
<1>2. CASE UNCHANGED vars
  BY <1>1, <1>2 DEF ResendInv, vars, OneFlushes, Queued, UnsavedHere, HeldElsewhere, DeliveredLeave,
                    FlushesUndelivered
<1>3. ASSUME NEW t \in Tab, Track(t) PROVE ResendInv'
  BY <1>1, <1>3, TrackResend
<1>4. ASSUME NEW t \in Tab, Storing(t) PROVE ResendInv'
  BY <1>1, <1>4, LoadResend, PersistResend, ChainResend DEF Storing
<1>5. ASSUME NEW t \in Tab, Flush(t) \/ SendNext(t) \/ Stop(t) \/ Hide(t) PROVE ResendInv'
  BY <1>1, <1>5, IdleResend, PersistResend, HideResend
<1>6. ASSUME NEW t \in Tab, Flushing(t) PROVE ResendInv'
  BY <1>1, <1>6, PersistResend, IdleResend, MergeResend, AnswerResend DEF Flushing
<1>7. ASSUME NEW t \in Tab, Failing(t) PROVE ResendInv'
  BY <1>1, <1>7, ChainResend, AnswerResend, KeepaliveResend, PersistResend, IdleResend, PageResend DEF Failing
<1>8. ASSUME NEW t \in Tab, KeepaliveAnswered(t) \/ Open(t) PROVE ResendInv'
  BY <1>1, <1>8, KeepaliveResend, PageResend
<1> QED
  BY <1>2, <1>3, <1>4, <1>5, <1>6, <1>7, <1>8 DEF Next

\* ResendInv is inductive: one tab flushes; what is delivered is gone from the
\* store, or leaves it before the lock is released.
THEOREM ResendInvariance == Spec => []ResendInv
<1>1. Init => ResendInv
  BY InitResend
<1>2. ResendInv /\ [Next]_vars => ResendInv'
  BY ResendInductive
<1> QED
  BY <1>1, <1>2, PTL DEF Spec

\* A flush never resends an event another flush delivered and whose removal was
\* neither refused nor lost with its page, unless a tab that held it wrote it to
\* the store again, or the flush could not read the store again.
THEOREM DeliveredNotResent == Spec => []NoResend
<1>1. ResendInv => NoResend
  BY DEF ResendInv, FlushesUndelivered, NoResend
<1> QED
  BY <1>1, ResendInvariance, PTL

=============================================================================
