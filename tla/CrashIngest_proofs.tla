------------------------ MODULE CrashIngest_proofs ------------------------
(***************************************************************************)
(* Theorems about CrashIngest, for any events, groups, users, requests,    *)
(* caps and bounds: the affected users of a group are counted right, a     *)
(* regression is announced once, the latest reports stay and the cap       *)
(* holds.                                                                  *)
(***************************************************************************)
EXTENDS CrashIngest, FiniteSetTheorems, SequenceTheorems, WellFoundedInduction, TLAPS

-----------------------------------------------------------------------------
(* What the tables and the requests are made of.                           *)

\* The fields of a request.
LEMMA JobFields ==
    ASSUME TypeOK, NEW c \in Request
    PROVE  /\ job[c] \in Job
           /\ job[c].step \in {"idle", "lock", "write", "user", "count", "choose", "evict", "commit"}
           /\ job[c].event \in Event \cup {None} /\ job[c].at \in 0 .. MaxArrivals
           /\ job[c].read \in Row \cup {None} /\ job[c].added \in BOOLEAN
           /\ job[c].over \in Nat /\ job[c].victims \in SUBSET Event
           /\ job[c].chosen \in SUBSET Event
BY DEF TypeOK, Job

\* The fields of a group's row.
LEMMA RowFields ==
    ASSUME NEW row \in Row
    PROVE  /\ row.state \in State /\ row.regressed \in BOOLEAN
           /\ row.resolvedIn \in Release \cup {None}
           /\ row.latest \in Event \cup {None} /\ row.affected \in Nat
           /\ row # None
BY NoneAssumption DEF Row

\* An idle request, a resting pass and a waiting erasure are what they should be.
LEMMA Rests == Idle \in Job /\ Resting \in Pass /\ Waiting \in Erasure /\ DOMAIN Waiting.points = {}
<1>1. Idle \in Job
  BY BoundAssumption DEF Idle, Job
<1>2. Resting \in Pass
  BY DEF Resting, Pass
<1> DEFINE none == [g \in {} |-> None]
<1>3. none \in [{} -> Event \cup {None}] /\ DOMAIN none = {}
  OBVIOUS
<1>4. none \in Points
  BY <1>3 DEF Points
<1> HIDE DEF none
<1>5. Waiting = [step |-> "idle", doomed |-> {}, points |-> none, drops |-> {}]
  BY DEF Waiting, none
<1>6. Waiting \in Erasure
  BY <1>4, <1>5 DEF Erasure
<1> QED
  BY <1>1, <1>2, <1>3, <1>5, <1>6

\* One request's step leaves the others.
LEMMA Becomes ==
    ASSUME TypeOK, NEW c \in Request, NEW now \in Job, Become(c, now)
    PROVE  /\ job' \in [Request -> Job] /\ job'[c] = now
           /\ \A d \in Request : d # c => job'[d] = job[d]
BY DEF TypeOK, Become

\* What is past the maximum age is among the reports, and old.
LEMMA AgedFacts == Aged \subseteq reports /\ \A e \in Aged : at[e] < cutoff
BY DEF Aged, Oldest

\* The releases are those of events.
LEMMA ReleasesFacts ==
    ASSUME TypeOK
    PROVE  Range(releases) \subseteq Release
BY DEF TypeOK, Range

\* An eviction takes reports of one group, and never its latest.
LEMMA EvictsFacts ==
    ASSUME NEW S \in SUBSET Event, NEW latest, NEW n, NEW E \in Evicts(S, latest, n)
    PROVE  E = {} \/ \E g \in Group : latest[g] # None /\ E \subseteq In(g, S) \ {latest[g]}
BY DEF Evicts, Oldest

-----------------------------------------------------------------------------
(* The affected users.                                                     *)

\* A step of one request that writes no table keeps CountInv when the request
\* knows what it should.
LEMMA StepKeepsCount ==
    ASSUME CountInv, NEW c \in Request, NEW now \in Job, Become(c, now),
           UNCHANGED <<tables, cutoff, pass, erasure, changes, resolved, regressed>>,
           crossed' \in BOOLEAN, clock' \in 0 .. MaxArrivals, clock' >= clock,
           now.step \notin {"idle", "lock"} => \A d \in Request : d # c => ~Active(d),
           Knows(c)'
    PROVE  CountInv'
<1>1. /\ job' \in [Request -> Job] /\ job'[c] = now
      /\ \A d \in Request : d # c => job'[d] = job[d]
  BY Becomes DEF CountInv
<1>2. TypeOK'
  <2>1. cutoff' \in 0 .. clock'
    BY BoundAssumption DEF CountInv, TypeOK
  <2> QED
    BY <1>1, <2>1 DEF CountInv, TypeOK, tables
<1>3. OneActive'
  BY <1>1 DEF CountInv, OneActive, Active
<1>4. ASSUME NEW d \in Request
      PROVE  Knows(d)'
  <2>1. CASE d = c
    BY <2>1
  <2>2. CASE d # c
    BY <1>1, <2>2 DEF CountInv, JobsKnow, Knows, Active, GroupHeld, Own, tables
  <2> QED
    BY <2>1, <2>2
<1>5. RowsKnow' /\ AffectedUsersTrue'
  BY DEF CountInv, RowsKnow, AffectedUsersTrue, tables, In
<1> QED
  BY <1>2, <1>3, <1>4, <1>5 DEF CountInv, JobsKnow

LEMMA ArriveKeepsCount ==
    ASSUME CountInv, NEW c \in Request, NEW e \in Event, Arrive(c, e)
    PROVE  CountInv'
<1> DEFINE now == [Idle EXCEPT !.step = "lock", !.event = e, !.at = clock']
<1>1. clock' \in 0 .. MaxArrivals /\ clock' >= clock
  BY BoundAssumption DEF CountInv, TypeOK, Arrive
<1>2. now \in Job /\ now.step = "lock" /\ now.event = e /\ ~now.added
  BY <1>1, Rests DEF Job, Idle
<1>3. Become(c, now)
  BY DEF Arrive
<1> HIDE DEF now
<1>4. job'[c] = now
  BY <1>2, <1>3, Becomes DEF CountInv
<1>5. Knows(c)'
  BY <1>2, <1>4 DEF Knows, Active, GroupHeld
<1>6. UNCHANGED <<tables, cutoff, pass, erasure, changes, resolved, regressed, crossed>>
  BY DEF Arrive, history
<1>7. crossed' \in BOOLEAN
  BY <1>6 DEF CountInv, TypeOK
<1> QED
  BY <1>1, <1>2, <1>3, <1>5, <1>6, <1>7, StepKeepsCount

\* A request that is given up, or done with, keeps it.
LEMMA IdleKeepsCount ==
    ASSUME CountInv, NEW c \in Request, Become(c, Idle),
           UNCHANGED <<tables, clock, cutoff, pass, erasure, changes, history>>
    PROVE  CountInv'
<1>1. Idle \in Job /\ Idle.step = "idle" /\ ~Idle.added
  BY Rests DEF Idle
<1>2. job'[c] = Idle
  BY <1>1, Becomes DEF CountInv
<1>3. Knows(c)'
  BY <1>1, <1>2 DEF Knows, Active, GroupHeld
<1>4. clock' \in 0 .. MaxArrivals /\ clock' >= clock /\ crossed' \in BOOLEAN
  BY BoundAssumption DEF CountInv, TypeOK, history
<1>5. UNCHANGED <<tables, cutoff, pass, erasure, changes, resolved, regressed>>
  BY DEF history
<1> QED
  BY <1>1, <1>3, <1>4, <1>5, StepKeepsCount

\* The same for a step further of a transaction, or into one.
LEMMA FurtherKeepsCount ==
    ASSUME CountInv, NEW c \in Request, NEW now \in Job, Become(c, now),
           UNCHANGED <<tables, clock, cutoff, pass, erasure, changes, resolved, regressed>>,
           crossed' \in BOOLEAN,
           Active(c) \/ \A d \in Request : ~Active(d),
           Knows(c)'
    PROVE  CountInv'
<1>1. \A d \in Request : d # c => ~Active(d)
  BY DEF CountInv, OneActive
<1>2. clock' \in 0 .. MaxArrivals /\ clock' >= clock
  BY BoundAssumption DEF CountInv, TypeOK
<1>3. UNCHANGED <<tables, cutoff, pass, erasure, changes, resolved, regressed>>
  OBVIOUS
<1> QED
  BY <1>1, <1>2, <1>3, StepKeepsCount

LEMMA ReadKeepsCount ==
    ASSUME CountInv, NEW c \in Request, Read(c)
    PROVE  CountInv'
<1>1. CASE job[c].event \in reports
  BY <1>1, IdleKeepsCount DEF Read
<1>2. CASE job[c].event \notin reports
  <2> DEFINE j == job[c]
             now == [j EXCEPT !.step = "write", !.read = group[GroupOf[j.event]]]
  <2>1. j \in Job /\ j.event \in Event /\ j.step = "lock"
    BY JobFields DEF CountInv, JobsKnow, Knows, Read
  <2>2. group[GroupOf[j.event]] \in Row \cup {None}
    BY <2>1, EventAssumption DEF CountInv, TypeOK
  <2> DEFINE r == group[GroupOf[j.event]]
  <2>3. [j EXCEPT !.step = "write", !.read = r] \in Job
    <3> HIDE DEF r, j
    <3> QED
      BY <2>1, <2>2 DEF Job, r
  <2>4. now.step = "write" /\ now.event = j.event /\ now.read = r
    <3> HIDE DEF r, j
    <3> QED
      BY <2>1 DEF Job, r
  <2>5. Become(c, now)
    BY <1>2 DEF Read
  <2>6. ~j.added /\ now.added = j.added
    <3> HIDE DEF r
    <3>1. ~j.added
      BY JobFields DEF CountInv, JobsKnow, Knows, Read
    <3> HIDE DEF j
    <3> QED
      BY <2>1, <3>1 DEF Job
  <2>7. now \in Job
    BY <2>3
  <2>8. j.event \notin reports
    BY <1>2
  <2> HIDE DEF now
  <2>9. job'[c] = now
    BY <2>5, <2>7, Becomes DEF CountInv
  <2>10. UNCHANGED <<tables, clock, cutoff, pass, erasure, changes, resolved, regressed, crossed>>
    BY DEF Read, history
  <2>11. Knows(c)'
    BY <2>1, <2>4, <2>6, <2>8, <2>9, <2>10, NoneAssumption DEF Knows, Active, GroupHeld, Own, tables
  <2>12. \A d \in Request : ~Active(d)
    BY DEF Read, Active
  <2> QED
    BY <2>5, <2>7, <2>10, <2>11, <2>12, FurtherKeepsCount DEF CountInv, TypeOK
<1> QED
  BY <1>1, <1>2 DEF Read

LEMMA WriteKeepsCount ==
    ASSUME CountInv, NEW c \in Request, WriteGroup(c)
    PROVE  CountInv'
<1> DEFINE e == job[c].event
           g == GroupOf[e]
           s == IF UserOf[e] = NoUser THEN "count" ELSE "user"
           now == [job[c] EXCEPT !.step = s]
<1>1. CASE job[c].read # None /\ group[g] = None
  BY <1>1, IdleKeepsCount DEF WriteGroup
<1>2. CASE ~(job[c].read # None /\ group[g] = None)
  <2>1. job[c] \in Job /\ s \in {"count", "user", "choose", "commit"}
    BY JobFields DEF CountInv
  <2>2. /\ now \in Job /\ now.step = s /\ now.event = e /\ now.read = job[c].read
        /\ now.added = job[c].added
    <3> HIDE DEF s, e
    <3> QED
      BY <2>1 DEF e, Job
  <2>3. Become(c, now)
    BY <1>2 DEF WriteGroup
  <2>4. UNCHANGED <<tables, clock, cutoff, pass, erasure, changes, resolved, regressed, crossed>>
    BY DEF WriteGroup, history
  <2>5. /\ Active(c) /\ e \in Event /\ e \notin reports /\ ~job[c].added
        /\ job[c].read = None => group[g] = None
    BY DEF WriteGroup, CountInv, JobsKnow, Knows, Active, Own
  <2> HIDE DEF now
  <2>6. job'[c] = now
    BY <2>2, <2>3, Becomes DEF CountInv
  <2>7. UserOf[e] = NoUser => (UserOf[e] \in users[g] \cup {NoUser})
    OBVIOUS
  <2>8. Knows(c)'
    BY <1>2, <2>2, <2>4, <2>5, <2>6, <2>7, JobFields DEF Knows, Active, GroupHeld, Own, tables, CountInv
  <2> QED
    BY <2>2, <2>3, <2>4, <2>5, <2>8, FurtherKeepsCount DEF CountInv, TypeOK
<1> QED
  BY <1>1, <1>2

LEMMA AddKeepsCount ==
    ASSUME CountInv, NEW c \in Request, AddUser(c)
    PROVE  CountInv'
<1> DEFINE e == job[c].event
           g == GroupOf[e]
           b == Adds(g, UserOf[e])
           now == [job[c] EXCEPT !.step = "count", !.added = b]
<1>1. job[c] \in Job /\ b \in BOOLEAN
  BY JobFields DEF CountInv, Adds
<1>2. /\ now \in Job /\ now.step = "count" /\ now.event = e /\ now.read = job[c].read
      /\ now.added = b
  <2> HIDE DEF b, e
  <2> QED
    BY <1>1 DEF e, Job
<1>3. Become(c, now)
  BY DEF AddUser
<1>4. UNCHANGED <<tables, clock, cutoff, pass, erasure, changes, resolved, regressed, crossed>>
  BY DEF AddUser, history
<1>5. /\ Active(c) /\ GroupHeld(c) /\ e \in Event /\ e \notin reports /\ UserOf[e] # NoUser
      /\ job[c].read = None => group[g] = None
      /\ job[c].read # None => group[g] # None
  BY DEF AddUser, CountInv, JobsKnow, Knows, Active, Own, GroupHeld
<1> HIDE DEF now
<1>6. job'[c] = now
  BY <1>2, <1>3, Becomes DEF CountInv
<1>7. b = (UserOf[e] \notin users[g] \cup {NoUser})
  BY <1>5 DEF Adds
<1>8. Knows(c)'
  <2> HIDE DEF b
  <2> QED
    BY <1>2, <1>4, <1>5, <1>6, <1>7 DEF Knows, Active, GroupHeld, Own, tables
<1> QED
  BY <1>2, <1>3, <1>4, <1>5, <1>8, FurtherKeepsCount DEF CountInv, TypeOK

LEMMA CountReportsKeepsCount ==
    ASSUME CountInv, NEW c \in Request, CountReports(c)
    PROVE  CountInv'
<1> DEFINE e == job[c].event
           g == GroupOf[e]
           total == CountsWith(reports \ Aged, e)
           s == IF total > cap THEN "choose" ELSE "commit"
           n == IF total > cap THEN total - cap ELSE 0
           now == [job[c] EXCEPT !.victims = Aged, !.step = s, !.over = n]
<1>1. job[c] \in Job /\ Aged \in SUBSET Event
  BY JobFields, AgedFacts DEF CountInv, TypeOK
<1>2. total \in Nat /\ cap \in Nat
  <2>1. IsFiniteSet((reports \ Aged) \cup {e})
    BY FS_Subset, FS_AddElement DEF CountInv, TypeOK
  <2> QED
    BY <2>1, FS_CardinalityType, CapAssumption DEF CountsWith, CountInv, TypeOK
<1>3. s \in {"count", "user", "choose", "commit"} /\ n \in Nat
  <2> HIDE DEF total
  <2> QED
    BY <1>2
<1>4. /\ now \in Job /\ now.step = s /\ now.event = e /\ now.read = job[c].read
      /\ now.added = job[c].added
  <2> DEFINE V == Aged
  <2>1. V \in SUBSET Event
    BY <1>1
  <2> HIDE DEF s, e, n, V
  <2>2. /\ [job[c] EXCEPT !.victims = V, !.step = s, !.over = n] \in Job
        /\ now.step = s /\ now.event = job[c].event /\ now.read = job[c].read
        /\ now.added = job[c].added
    BY <1>1, <1>3, <2>1 DEF Job
  <2> QED
    BY <2>2 DEF e, V
<1>5. Become(c, now)
  BY DEF CountReports
<1>6. UNCHANGED <<tables, clock, cutoff, pass, erasure, changes, resolved, regressed, crossed>>
  BY DEF CountReports, history
<1>7. Active(c) /\ GroupHeld(c) /\ Knows(c) /\ job[c].step = "count" /\ s \in {"choose", "commit"}
  BY DEF CountReports, CountInv, JobsKnow, Active, GroupHeld
<1> HIDE DEF now
<1>8. job'[c] = now
  BY <1>4, <1>5, Becomes DEF CountInv
<1>9. Knows(c)'
  <2> HIDE DEF s
  <2> QED
    BY <1>4, <1>6, <1>7, <1>8 DEF Knows, Active, GroupHeld, Own, tables
<1> QED
  BY <1>4, <1>5, <1>6, <1>7, <1>9, FurtherKeepsCount DEF CountInv, TypeOK

\* What is chosen, when it is.
LEMMA ChooseFacts ==
    ASSUME TypeOK, NEW c \in Request, ChooseEvicted(c)
    PROVE  \E S \in Evicts((reports \ job[c].victims) \cup {job[c].event},
                           [Latest EXCEPT ![Own(c)] = job[c].event],
                           Min({job[c].over, EvictionBatch})) :
             /\ S \in SUBSET ((reports \ job[c].victims) \cup {job[c].event})
             /\ Become(c, [job[c] EXCEPT !.step = "evict", !.chosen = S])
BY DEF ChooseEvicted, Own, Evicts, Oldest, In

LEMMA ChooseKeepsCount ==
    ASSUME CountInv, NEW c \in Request, ChooseEvicted(c)
    PROVE  CountInv'
<1> DEFINE e == job[c].event
<1>1. /\ Active(c) /\ GroupHeld(c) /\ Knows(c) /\ job[c].step = "choose" /\ e \in Event
      /\ job[c] \in Job
  BY JobFields DEF ChooseEvicted, CountInv, JobsKnow, Knows, Active, GroupHeld
<1>2. PICK S \in SUBSET ((reports \ job[c].victims) \cup {e}) :
         Become(c, [job[c] EXCEPT !.step = "evict", !.chosen = S])
  BY ChooseFacts DEF CountInv
<1> DEFINE now == [job[c] EXCEPT !.step = "evict", !.chosen = S]
<1>3. S \in SUBSET Event
  BY <1>1 DEF CountInv, TypeOK
<1>4. /\ now \in Job /\ now.step = "evict" /\ now.event = e /\ now.read = job[c].read
      /\ now.added = job[c].added
  BY <1>1, <1>3 DEF Job
<1>5. Become(c, now)
  BY <1>2
<1>6. UNCHANGED <<tables, clock, cutoff, pass, erasure, changes, resolved, regressed>>
  BY DEF ChooseEvicted
<1> HIDE DEF now
<1>7. job'[c] = now
  BY <1>4, <1>5, Becomes DEF CountInv
<1>8. Knows(c)'
  BY <1>1, <1>4, <1>6, <1>7 DEF Knows, Active, GroupHeld, Own, tables
<1>9. crossed' \in BOOLEAN
  BY DEF ChooseEvicted, CountInv, TypeOK, Erasing
<1> QED
  BY <1>1, <1>4, <1>5, <1>6, <1>8, <1>9, FurtherKeepsCount

LEMMA DeleteChosenKeepsCount ==
    ASSUME CountInv, NEW c \in Request, DeleteChosen(c)
    PROVE  CountInv'
<1> DEFINE V == job[c].victims \cup (job[c].chosen \cap reports)
           now == [job[c] EXCEPT !.step = "commit", !.chosen = {}, !.victims = V]
<1>1. /\ Active(c) /\ GroupHeld(c) /\ Knows(c) /\ job[c].step = "evict"
      /\ job[c] \in Job /\ V \in SUBSET Event
  BY JobFields DEF DeleteChosen, CountInv, JobsKnow, Active, GroupHeld
<1>2. Become(c, now)
  BY DEF DeleteChosen
<1> HIDE DEF V
<1>3. /\ now \in Job /\ now.step = "commit" /\ now.event = job[c].event
      /\ now.read = job[c].read /\ now.added = job[c].added
  BY <1>1 DEF Job
<1>4. UNCHANGED <<tables, clock, cutoff, pass, erasure, changes, resolved, regressed, crossed>>
  BY DEF DeleteChosen, history
<1> HIDE DEF now
<1>5. job'[c] = now
  BY <1>2, <1>3, Becomes DEF CountInv
<1>6. Knows(c)'
  BY <1>1, <1>3, <1>4, <1>5 DEF Knows, Active, GroupHeld, Own, tables
<1> QED
  BY <1>1, <1>2, <1>3, <1>4, <1>6, FurtherKeepsCount DEF CountInv, TypeOK

\* The row a commit leaves.
NewRow(c) ==
    LET e     == job[c].event
        added == IF job[c].added THEN 1 ELSE 0
    IN  IF job[c].read = None THEN Opened(e, added)
        ELSE Counted(group[Own(c)], e, job[c].read, added)

LEMMA NewRowFacts ==
    ASSUME CountInv, NEW c \in Request, job[c].step = "commit"
    PROVE  LET old   == IF job[c].read = None THEN 0 ELSE group[Own(c)].affected
               added == IF job[c].added THEN 1 ELSE 0
           IN  /\ NewRow(c) \in Row /\ NewRow(c).latest = job[c].event
               /\ NewRow(c).affected = old + added
               /\ job[c].read # None => group[Own(c)] \in Row
               /\ job[c].read = None => group[Own(c)] = None
               /\ job[c].event \in Event /\ Own(c) \in Group /\ job[c].event \notin reports
<1> DEFINE e == job[c].event
           g == Own(c)
           read == job[c].read
           added == IF job[c].added THEN 1 ELSE 0
           row == group[g]
<1>1. Knows(c) /\ GroupHeld(c) /\ Active(c)
  BY DEF CountInv, JobsKnow, GroupHeld, Active
<1>2. e \in Event /\ g \in Group /\ e \notin reports
  BY <1>1, EventAssumption DEF Knows, Own
<1>3. read = None => row = None
  BY <1>1 DEF Knows
<1>4. read # None => row \in Row /\ read \in Row
  BY <1>1, <1>2, JobFields DEF Knows, CountInv, TypeOK
<1>5. added \in Nat
  OBVIOUS
<1>6. CASE read = None
  <2>1. NewRow(c) = Opened(e, added)
    BY <1>6 DEF NewRow
  <2> HIDE DEF added
  <2>2. Opened(e, added) \in Row /\ Opened(e, added).latest = e /\ Opened(e, added).affected = added
    BY <1>2, <1>5 DEF Opened, Row, State
  <2> QED
    BY <1>2, <1>3, <1>5, <1>6, <2>1, <2>2 DEF added
<1>7. CASE read # None
  <2> DEFINE back == Regresses(read, ReleaseOf[e])
             st == IF back THEN "open" ELSE read.state
             reg == back \/ read.regressed
             n == row.affected + added
             new == [row EXCEPT !.latest = e, !.affected = n, !.state = st, !.regressed = reg]
  <2>1. NewRow(c) = new
    BY <1>7 DEF NewRow, Counted
  <2>2. back \in BOOLEAN
    BY DEF Regresses
  <2>3. st \in State /\ reg \in BOOLEAN
    <3>1. read.state \in State /\ read.regressed \in BOOLEAN
      BY <1>4, <1>7, RowFields
    <3> HIDE DEF back
    <3> QED
      BY <2>2, <3>1 DEF State
  <2>4. row \in Row /\ n \in Nat
    BY <1>4, <1>5, <1>7, RowFields
  <2>5. new \in Row /\ new.latest = e /\ new.affected = n
    <3> HIDE DEF st, reg, n, row, e
    <3> QED
      BY <1>2, <2>3, <2>4 DEF Row
  <2> HIDE DEF new
  <2> QED
    BY <1>2, <1>3, <1>4, <1>7, <2>1, <2>5
<1> QED
  BY <1>6, <1>7

\* What a commit does to the tables.
LEMMA CommitFacts ==
    ASSUME CountInv, NEW c \in Request, Commit(c)
    PROVE  /\ group' = [group EXCEPT ![Own(c)] = NewRow(c)]
           /\ users' = IF job[c].added THEN [users EXCEPT ![Own(c)] = @ \cup {UserOf[job[c].event]}]
                       ELSE users
           /\ reports' = (reports \cup {job[c].event}) \ job[c].victims
           /\ at' = [at EXCEPT ![job[c].event] = job[c].at]
           /\ job'[c] = Idle /\ job' \in [Request -> Job]
           /\ \A d \in Request : d # c => job'[d] = job[d] /\ ~Active(d)
           /\ pass' = PassWithout(job[c].victims)
           /\ job[c].step = "commit"
           /\ UNCHANGED <<cap, clock, cutoff, erasure, changes, resolved, crossed>>
<1>1. Become(c, Idle) /\ Active(c)
  BY DEF Commit, Active
<1>2. job'[c] = Idle /\ job' \in [Request -> Job] /\ \A d \in Request : d # c => job'[d] = job[d]
  BY <1>1, Rests, Becomes DEF CountInv
<1>3. \A d \in Request : d # c => ~Active(d)
  BY <1>1 DEF CountInv, OneActive
<1> QED
  BY <1>2, <1>3 DEF Commit, NewRow, Own

\* What the pass may still delete is less, and the pass is where it was.
LEMMA PassFacts ==
    ASSUME pass \in Pass, NEW S
    PROVE  /\ PassWithout(S) \in Pass /\ PassWithout(S).step = pass.step
           /\ PassWithout(S).over = pass.over /\ PassWithout(S).victims = pass.victims \ S
BY DEF PassWithout, Pass

LEMMA CommitKeepsCount ==
    ASSUME CountInv, NEW c \in Request, Commit(c)
    PROVE  CountInv'
<1> DEFINE e == job[c].event
           g == Own(c)
           u == UserOf[e]
<1>1. /\ group' = [group EXCEPT ![g] = NewRow(c)]
      /\ users' = IF job[c].added THEN [users EXCEPT ![g] = @ \cup {u}] ELSE users
      /\ reports' = (reports \cup {e}) \ job[c].victims
      /\ at' = [at EXCEPT ![e] = job[c].at]
      /\ job'[c] = Idle /\ job' \in [Request -> Job]
      /\ \A d \in Request : d # c => job'[d] = job[d] /\ ~Active(d)
      /\ pass' = PassWithout(job[c].victims)
      /\ job[c].step = "commit"
      /\ UNCHANGED <<cap, clock, cutoff, erasure, changes, resolved, crossed>>
  BY CommitFacts
<1>2. /\ NewRow(c) \in Row /\ NewRow(c).latest = e
      /\ job[c].read = None => group[g] = None
      /\ job[c].read # None => group[g] \in Row
      /\ e \in Event /\ g \in Group /\ e \notin reports /\ GroupOf[e] = g
  BY <1>1, NewRowFacts DEF Own
<1>3. /\ NewRow(c).affected = (IF job[c].read = None THEN 0 ELSE group[g].affected)
                              + (IF job[c].added THEN 1 ELSE 0)
  BY <1>1, NewRowFacts
<1>4. job[c].added = (u \notin users[g] \cup {NoUser})
  BY <1>1 DEF CountInv, JobsKnow, Knows
<1>5. Idle.step = "idle" /\ ~Idle.added
  BY DEF Idle
<1>6. group[g] = None => users[g] = {} /\ In(g, reports) = {}
  BY <1>2 DEF CountInv, RowsKnow
<1> HIDE DEF e, g, u
<1>7. TypeOK'
  <2>1. group' \in [Group -> Row \cup {None}]
    BY <1>1, <1>2 DEF CountInv, TypeOK
  <2>2. users' \in [Group -> SUBSET (Range(UserOf) \ {NoUser})]
    <3>1. u \in Range(UserOf)
      BY <1>2, EventAssumption DEF u, Range
    <3>2. job[c].added => u # NoUser
      BY <1>4
    <3> QED
      BY <1>1, <3>1, <3>2 DEF CountInv, TypeOK
  <2>3. reports' \in SUBSET Event /\ IsFiniteSet(reports')
    <3> DEFINE more == reports \cup {e}
    <3>1. IsFiniteSet(more) /\ more \in SUBSET Event
      BY <1>2, FS_AddElement DEF CountInv, TypeOK
    <3>2. reports' = more \ job[c].victims
      BY <1>1
    <3> HIDE DEF more
    <3> QED
      BY <3>1, <3>2, FS_Subset
  <2>4. at' \in [Event -> 0 .. MaxArrivals]
    BY <1>1, JobFields DEF CountInv, TypeOK
  <2>5. releases' \in Seq(Release)
    <3>1. ReleaseOf[e] \in Release
      BY <1>2 DEF Release
    <3>2. releases' = releases \/ releases' = Append(releases, ReleaseOf[e])
      BY DEF Commit, e
    <3>3. releases \in Seq(Release)
      BY DEF CountInv, TypeOK
    <3>4. Append(releases, ReleaseOf[e]) \in Seq(Release)
      BY <3>1, <3>3, AppendProperties
    <3> QED
      BY <3>2, <3>3, <3>4
  <2>6. pass' \in Pass
    BY <1>1, PassFacts DEF CountInv, TypeOK
  <2>7. regressed' \in [Group -> Nat]
    BY <1>2 DEF Commit, CountInv, TypeOK, Own, g, e
  <2> QED
    BY <1>1, <2>1, <2>2, <2>3, <2>4, <2>5, <2>6, <2>7 DEF CountInv, TypeOK
<1>8. OneActive'
  BY <1>1, <1>5 DEF CountInv, OneActive, Active
<1>9. ASSUME NEW d \in Request
      PROVE  Knows(d)'
  <2>1. CASE d = c
    BY <1>1, <1>5, <2>1 DEF Knows, Active, GroupHeld
  <2>2. CASE d # c
    <3>1. job'[d] = job[d] /\ job[d].step \in {"idle", "lock"}
      BY <1>1, <2>2 DEF Active
    <3> QED
      BY <3>1 DEF CountInv, JobsKnow, Knows, Active, GroupHeld
  <2> QED
    BY <2>1, <2>2
<1>10. ASSUME NEW h \in Group
       PROVE  /\ IsFiniteSet(users'[h])
              /\ group'[h] = None => users'[h] = {} /\ In(h, reports') = {}
              /\ h \in erasure'.drops => Subject \in users'[h]
              /\ group'[h] # None =>
                    /\ group'[h].affected = Cardinality(users'[h])
                    /\ \A f \in In(h, reports') : UserOf[f] \in users'[h] \cup {NoUser, Subject}
  <2>1. /\ IsFiniteSet(users[h])
        /\ group[h] = None => users[h] = {} /\ In(h, reports) = {}
        /\ h \in erasure.drops => Subject \in users[h]
        /\ group[h] # None =>
              /\ group[h].affected = Cardinality(users[h])
              /\ \A f \in In(h, reports) : UserOf[f] \in users[h] \cup {NoUser, Subject}
    BY DEF CountInv, RowsKnow, AffectedUsersTrue
  <2>2. CASE h # g
    <3>1. group'[h] = group[h] /\ users'[h] = users[h]
      BY <1>1, <2>2 DEF CountInv, TypeOK
    <3>2. In(h, reports') \subseteq In(h, reports)
      BY <1>1, <1>2, <2>2 DEF In
    <3> QED
      BY <1>1, <2>1, <3>1, <3>2
  <2>3. CASE h = g
    <3>1. group'[h] = NewRow(c) /\ group'[h] # None
      BY <1>1, <1>2, <2>3, NoneAssumption DEF CountInv, TypeOK
    <3>2. users'[h] = IF job[c].added THEN users[h] \cup {u} ELSE users[h]
      BY <1>1, <2>3 DEF CountInv, TypeOK
    <3>3. IsFiniteSet(users'[h]) /\ Cardinality(users[h]) \in Nat
      BY <2>1, <3>2, FS_AddElement, FS_CardinalityType
    <3>4. Cardinality(users'[h]) = Cardinality(users[h]) + (IF job[c].added THEN 1 ELSE 0)
      <4>1. CASE job[c].added
        <5>1. u \notin users[h] /\ users'[h] = users[h] \cup {u}
          BY <1>4, <2>3, <3>2, <4>1
        <5> DEFINE q == users[h]
        <5>2. IsFiniteSet(q) /\ u \notin q
          BY <2>1, <5>1
        <5> HIDE DEF q
        <5>3. Cardinality(q \cup {u}) = Cardinality(q) + 1
          BY <5>2, FS_AddElement
        <5> QED
          BY <4>1, <5>1, <5>3 DEF q
      <4>2. CASE ~job[c].added
        BY <3>2, <3>3, <4>2
      <4> QED
        BY <4>1, <4>2
    <3>5. Cardinality(users[h]) = IF job[c].read = None THEN 0 ELSE group[g].affected
      <4>1. CASE job[c].read = None
        BY <1>2, <1>6, <2>3, <4>1, FS_EmptySet
      <4>2. CASE job[c].read # None
        BY <1>2, <2>1, <2>3, <4>2, NoneAssumption
      <4> QED
        BY <4>1, <4>2
    <3>6. group'[h].affected = Cardinality(users'[h])
      BY <1>3, <3>1, <3>4, <3>5
    <3>7. ASSUME NEW f \in In(h, reports')
          PROVE  UserOf[f] \in users'[h] \cup {NoUser, Subject}
      <4>1. f = e \/ f \in In(h, reports)
        BY <1>1 DEF In
      <4>2. CASE f = e
        BY <1>4, <2>3, <3>2, <4>2 DEF u
      <4>3. CASE f \in In(h, reports)
        BY <2>1, <3>2, <4>3
      <4> QED
        BY <4>1, <4>2, <4>3
    <3>8. h \in erasure'.drops => Subject \in users'[h]
      BY <1>1, <2>1, <3>2
    <3> QED
      BY <3>1, <3>3, <3>6, <3>7, <3>8
  <2> QED
    BY <2>2, <2>3
<1>11. RowsKnow' /\ AffectedUsersTrue'
  BY <1>10 DEF RowsKnow, AffectedUsersTrue
<1> QED
  BY <1>7, <1>8, <1>9, <1>11 DEF CountInv, JobsKnow

\* Some number is the least, and of bounded ones some is the greatest.
LEMMA LeastExists ==
    ASSUME NEW T \in SUBSET Nat, T # {}
    PROVE  \E m \in T : \A n \in T : m <= n
<1>1. PICK m \in T : \A n \in T : ~(<<n, m>> \in OpToRel(<, Nat))
  BY NatLessThanWellFounded, WFMin
<1>2. \A n \in T : ~(n < m)
  BY <1>1 DEF OpToRel
<1> QED
  BY <1>2

LEMMA GreatestExists ==
    ASSUME NEW top \in Nat, NEW T \in SUBSET (0 .. top), T # {}
    PROVE  \E m \in T : \A n \in T : n <= m
<1> DEFINE below == {top - n : n \in T}
<1>1. below \in SUBSET Nat /\ below # {}
  <2>1. \A n \in T : top - n \in Nat
    OBVIOUS
  <2> QED
    BY <2>1
<1>2. PICK b \in below : \A n \in below : b <= n
  BY <1>1, LeastExists
<1>3. PICK m \in T : b = top - m
  BY <1>2
<1>4. ASSUME NEW n \in T
      PROVE  n <= m
  <2>1. b <= top - n
    BY <1>2
  <2>2. n \in 0 .. top /\ m \in 0 .. top
    BY <1>3
  <2> QED
    BY <1>3, <2>1, <2>2
<1> QED
  BY <1>3, <1>4

\* The newest of some reports is one of them.
LEMMA NewestFacts ==
    ASSUME TypeOK, NEW S \in SUBSET Event
    PROVE  /\ S = {} => Newest(S) = None
           /\ S # {} => Newest(S) \in S
<1>1. ASSUME S # {}
      PROVE  \E e \in S : \A d \in S : at[d] <= at[e]
  <2> DEFINE times == {at[d] : d \in S}
  <2>1. times \in SUBSET (0 .. MaxArrivals) /\ times # {}
    BY <1>1 DEF TypeOK
  <2>2. PICK m \in times : \A n \in times : n <= m
    BY <2>1, GreatestExists, BoundAssumption
  <2> QED
    BY <2>2
<1> QED
  BY <1>1 DEF Newest

\* Whoever takes reports away, and writes no row, keeps CountInv.
LEMMA TakingKeepsCount ==
    ASSUME CountInv, UNCHANGED <<group, users, at, releases, clock, job, resolved, regressed>>,
           reports' \in SUBSET reports, pass' \in Pass, cap' \in Caps, cutoff' \in 0 .. clock,
           changes' \in 0 .. MaxChanges, crossed' \in BOOLEAN, erasure' \in Erasure,
           \A g \in erasure'.drops : Subject \in users[g]
    PROVE  CountInv'
<1>1. IsFiniteSet(reports')
  BY FS_Subset DEF CountInv, TypeOK
<1>2. TypeOK'
  BY <1>1 DEF CountInv, TypeOK
<1>3. OneActive'
  BY DEF CountInv, OneActive, Active
<1>4. JobsKnow'
  BY DEF CountInv, JobsKnow, Knows, Active, GroupHeld, Own
<1>5. RowsKnow' /\ AffectedUsersTrue'
  BY DEF CountInv, RowsKnow, AffectedUsersTrue, In
<1> QED
  BY <1>2, <1>3, <1>4, <1>5 DEF CountInv

LEMMA PassKeepsCount ==
    ASSUME CountInv, PassCount \/ PassChoose \/ PassDelete \/ PassDies \/ GrowOld
    PROVE  CountInv'
<1>1. /\ UNCHANGED <<group, users, at, releases, clock, job, resolved, regressed, cap, changes, erasure>>
      /\ cap \in Caps /\ changes \in 0 .. MaxChanges /\ erasure \in Erasure
      /\ \A g \in erasure.drops : Subject \in users[g]
  <2>1. erasure.drops \subseteq Group
    BY DEF CountInv, TypeOK, Erasure
  <2> QED
    BY <2>1 DEF PassCount, PassChoose, PassDelete, PassDies, GrowOld, tables, history,
                CountInv, TypeOK, RowsKnow
<1>2. reports' \in SUBSET reports
  BY DEF PassCount, PassChoose, PassDelete, PassDies, GrowOld, tables
<1>3. cutoff' \in 0 .. clock
  <2>1. cutoff \in 0 .. clock /\ clock \in Nat
    BY BoundAssumption DEF CountInv, TypeOK
  <2>2. CASE GrowOld
    BY <2>1, <2>2 DEF GrowOld
  <2>3. CASE ~GrowOld
    <3>1. cutoff' = cutoff
      BY <2>3 DEF PassCount, PassChoose, PassDelete, PassDies, tables, history
    <3> QED
      BY <2>1, <3>1
  <2> QED
    BY <2>2, <2>3
<1>4. crossed' \in BOOLEAN
  BY DEF PassCount, PassChoose, PassDelete, PassDies, GrowOld, CountInv, TypeOK, history, Erasing
<1>5. pass' \in Pass
  <2>1. pass \in Pass /\ Resting \in Pass
    BY Rests DEF CountInv, TypeOK
  <2>2. CASE PassCount
    <3> DEFINE kept == reports \ Aged
               n == Cardinality(kept) - cap
               some == [Resting EXCEPT !.step = "choose", !.over = n]
    <3>1. CASE Cardinality(kept) > cap
      <4>1. Cardinality(kept) \in Nat /\ cap \in Nat
        BY FS_Subset, FS_CardinalityType, CapAssumption DEF CountInv, TypeOK
      <4> HIDE DEF kept
      <4>2. n \in Nat
        BY <3>1, <4>1
      <4> HIDE DEF n
      <4>3. some \in Pass
        BY <2>1, <4>2 DEF Pass
      <4> QED
        BY <2>2, <3>1, <4>3 DEF PassCount, n, kept
    <3>2. CASE ~(Cardinality(kept) > cap)
      BY <2>1, <2>2, <3>2 DEF PassCount
    <3> QED
      BY <3>1, <3>2
  <2>3. CASE PassChoose
    <3>1. PICK S \in Evicts(reports, Latest, Min({pass.over, EvictionBatch})) :
             pass' = [pass EXCEPT !.step = "delete", !.victims = S]
      BY <2>3 DEF PassChoose
    <3>2. S \in SUBSET Event
      BY <3>1, EvictsFacts DEF In, CountInv, TypeOK
    <3> QED
      BY <2>1, <3>1, <3>2 DEF Pass
  <2> QED
    BY <2>1, <2>2, <2>3 DEF PassDelete, PassDies, GrowOld
<1> QED
  BY <1>1, <1>2, <1>3, <1>4, <1>5, TakingKeepsCount

\* What an erasure records of a step.
LEMMA ErasureFacts ==
    ASSUME TypeOK
    PROVE  /\ erasure \in Erasure /\ erasure.doomed \in SUBSET Event /\ erasure.drops \in SUBSET Group
           /\ Repointed \in SUBSET Group /\ erasure.points \in [Repointed -> Event \cup {None}]
           /\ erasure.step \in {"idle", "repoint", "users", "affected", "done"}
<1>1. erasure \in Erasure /\ erasure.points \in Points
  BY DEF TypeOK, Erasure
<1>2. PICK G \in SUBSET Group : erasure.points \in [G -> Event \cup {None}]
  BY <1>1 DEF Points
<1>3. Repointed = G
  BY <1>2 DEF Repointed
<1> QED
  BY <1>1, <1>2, <1>3 DEF Erasure

\* The steps of the erasure before its last.
LEMMA RepointFacts ==
    ASSUME TypeOK, Repoint
    PROVE  /\ erasure' \in Erasure /\ erasure'.step = "users" /\ erasure'.doomed = erasure.doomed
           /\ erasure'.drops = erasure.drops
           /\ erasure'.points = [g \in Outdated |-> Newest(In(g, reports \ erasure.doomed))]
           /\ DOMAIN erasure'.points = Outdated /\ Outdated \in SUBSET Group
<1> DEFINE p == [g \in Outdated |-> Newest(In(g, reports \ erasure.doomed))]
<1>1. Outdated \in SUBSET Group
  BY DEF Outdated
<1>2. ASSUME NEW g \in Outdated
      PROVE  Newest(In(g, reports \ erasure.doomed)) \in Event \cup {None}
  <2>1. In(g, reports \ erasure.doomed) \in SUBSET Event
    BY DEF In, TypeOK
  <2> QED
    BY <2>1, NewestFacts
<1>3. p \in [Outdated -> Event \cup {None}]
  BY <1>2
<1>4. p \in Points
  BY <1>1, <1>3 DEF Points
<1>5. DOMAIN p = Outdated
  OBVIOUS
<1> HIDE DEF p
<1>6. erasure' = [erasure EXCEPT !.step = "users", !.points = p] /\ erasure \in Erasure
  BY DEF Repoint, p, TypeOK
<1>7. /\ erasure' \in Erasure /\ erasure'.step = "users" /\ erasure'.doomed = erasure.doomed
      /\ erasure'.drops = erasure.drops /\ erasure'.points = p
  BY <1>4, <1>6 DEF Erasure
<1> QED
  BY <1>1, <1>5, <1>7 DEF p

LEMMA EraseReportsFacts ==
    ASSUME TypeOK, EraseReports
    PROVE  /\ erasure' \in Erasure /\ erasure'.step = "repoint"
           /\ erasure'.doomed = {e \in reports : UserOf[e] = Subject}
           /\ erasure'.drops = {} /\ DOMAIN erasure'.points = {}
<1> DEFINE doomed == {e \in reports : UserOf[e] = Subject}
<1>1. doomed \in SUBSET Event
  BY DEF TypeOK
<1> HIDE DEF doomed
<1>2. erasure' = [Waiting EXCEPT !.step = "repoint", !.doomed = doomed] /\ Waiting \in Erasure
  BY Rests DEF EraseReports, doomed
<1>3. Waiting.drops = {}
  BY DEF Waiting
<1>4. /\ erasure' \in Erasure /\ erasure'.step = "repoint" /\ erasure'.doomed = doomed
      /\ erasure'.drops = {} /\ erasure'.points = Waiting.points
  BY <1>1, <1>2, <1>3 DEF Erasure
<1> QED
  BY <1>4, Rests DEF doomed

LEMMA EraseUsersFacts ==
    ASSUME TypeOK, EraseUsers
    PROVE  /\ erasure' \in Erasure /\ erasure'.step = "affected" /\ erasure'.doomed = erasure.doomed
           /\ erasure'.drops = {g \in Group : Subject \in users[g]}
           /\ erasure'.points = erasure.points
<1> DEFINE drops == {g \in Group : Subject \in users[g]}
<1>1. drops \in SUBSET Group
  OBVIOUS
<1> HIDE DEF drops
<1>2. erasure' = [erasure EXCEPT !.step = "affected", !.drops = drops] /\ erasure \in Erasure
  BY DEF EraseUsers, drops, TypeOK
<1>3. /\ erasure' \in Erasure /\ erasure'.step = "affected" /\ erasure'.doomed = erasure.doomed
      /\ erasure'.drops = drops /\ erasure'.points = erasure.points
  BY <1>1, <1>2 DEF Erasure
<1> QED
  BY <1>3 DEF drops

LEMMA ErasureKeepsCount ==
    ASSUME CountInv,
           \/ EraseReports \/ Repoint \/ EraseUsers \/ AbortErasure
           \/ \E n \in Caps : ChangeRetention(n)
    PROVE  CountInv'
<1>1. /\ UNCHANGED <<group, users, at, releases, clock, job, resolved, regressed, cutoff, pass>>
      /\ reports' \in SUBSET reports /\ pass' \in Pass /\ cutoff' \in 0 .. clock
  BY DEF EraseReports, Repoint, EraseUsers, AbortErasure, ChangeRetention, tables, history,
         CountInv, TypeOK
<1>2. cap' \in Caps /\ changes' \in 0 .. MaxChanges
  BY BoundAssumption DEF EraseReports, Repoint, EraseUsers, AbortErasure, ChangeRetention, tables,
         CountInv, TypeOK
<1>3. crossed' \in BOOLEAN
  BY DEF EraseReports, Repoint, EraseUsers, AbortErasure, ChangeRetention, history, CountInv,
         TypeOK, Evicting
<1>4. erasure' \in Erasure /\ \A g \in erasure'.drops : Subject \in users[g]
  <2>1. /\ TypeOK /\ erasure \in Erasure /\ \A g \in erasure.drops : Subject \in users[g]
    BY ErasureFacts DEF CountInv, RowsKnow
  <2>2. Waiting \in Erasure /\ Waiting.drops = {}
    BY Rests DEF Waiting
  <2>3. CASE EraseReports
    BY <2>1, <2>3, EraseReportsFacts
  <2>4. CASE Repoint
    BY <2>1, <2>4, RepointFacts
  <2>5. CASE EraseUsers
    BY <2>1, <2>5, EraseUsersFacts
  <2>6. CASE AbortErasure
    BY <2>2, <2>6 DEF AbortErasure
  <2>7. CASE \E n \in Caps : ChangeRetention(n)
    BY <2>1, <2>7 DEF ChangeRetention
  <2> QED
    BY <2>3, <2>4, <2>5, <2>6, <2>7
<1> QED
  BY <1>1, <1>2, <1>3, <1>4, TakingKeepsCount

\* What the last step of an erasure leaves of a group.
LEMMA FinishFacts ==
    ASSUME CountInv, FinishErasure, NEW g \in Group
    PROVE  /\ group[g] = None => group'[g] = None
           /\ group[g] # None =>
                 /\ group'[g] \in [state : State, regressed : BOOLEAN, resolvedIn : Release \cup {None},
                                   latest : Event \cup {None}, affected : Nat]
                 /\ group'[g].state = group[g].state
                 /\ group'[g].latest = IF g \in Repointed THEN erasure.points[g] ELSE group[g].latest
                 /\ group'[g].affected = IF g \in erasure.drops /\ group[g].affected > 0
                                         THEN group[g].affected - 1 ELSE group[g].affected
<1>1. CASE group[g] = None
  BY <1>1 DEF FinishErasure
<1>2. CASE group[g] # None
  <2> DEFINE row == group[g]
             l == IF g \in Repointed THEN erasure.points[g] ELSE row.latest
             moved == IF g \in Repointed THEN [row EXCEPT !.latest = erasure.points[g]] ELSE row
             n == IF g \in erasure.drops /\ row.affected > 0 THEN row.affected - 1 ELSE row.affected
  <2>1. row \in Row
    BY <1>2 DEF CountInv, TypeOK
  <2>2. l \in Event \cup {None}
    BY <2>1, RowFields, ErasureFacts DEF CountInv
  <2>3. n \in Nat
    <3>1. row.affected \in Nat
      BY <2>1, RowFields
    <3> QED
      BY <3>1
  <2>4. group'[g] = FewerUsers(g, moved)
    BY <1>2 DEF FinishErasure
  <2> HIDE DEF row
  <2>5. moved \in Row /\ moved.latest = l /\ moved.state = row.state /\ moved.affected = row.affected
    <3>1. CASE g \in Repointed
      <4> DEFINE p == erasure.points[g]
      <4>1. p \in Event \cup {None}
        BY <2>2, <3>1
      <4> HIDE DEF p
      <4>2. /\ [row EXCEPT !.latest = p] \in Row /\ [row EXCEPT !.latest = p].latest = p
            /\ [row EXCEPT !.latest = p].state = row.state
            /\ [row EXCEPT !.latest = p].affected = row.affected
        BY <2>1, <4>1 DEF Row
      <4> QED
        BY <3>1, <4>2 DEF p
    <3>2. CASE g \notin Repointed
      BY <2>1, <3>2
    <3> QED
      BY <3>1, <3>2
  <2> HIDE DEF moved, l
  <2>6. /\ FewerUsers(g, moved) \in Row /\ FewerUsers(g, moved).latest = l
        /\ FewerUsers(g, moved).state = row.state /\ FewerUsers(g, moved).affected = n
    BY <2>3, <2>5 DEF Row, FewerUsers
  <2> QED
    BY <1>2, <2>4, <2>6 DEF row, l, Row
<1> QED
  BY <1>1, <1>2

LEMMA FinishKeepsCount ==
    ASSUME CountInv, FinishErasure
    PROVE  CountInv'
<1>1. /\ users' = [g \in Group |-> IF g \in erasure.drops THEN users[g] \ {Subject} ELSE users[g]]
      /\ reports' = reports \ erasure.doomed
      /\ erasure' = [Waiting EXCEPT !.step = "done"]
      /\ pass' = PassWithout(erasure.doomed)
      /\ erasure.drops \cap Held = {}
      /\ UNCHANGED <<at, releases, cap, clock, cutoff, job, changes, resolved, regressed, crossed>>
  BY DEF FinishErasure, history
<1>2. erasure' \in Erasure /\ erasure'.drops = {}
  <2>1. Waiting \in Erasure /\ Waiting.drops = {}
    BY Rests DEF Waiting
  <2> QED
    BY <1>1, <2>1 DEF Erasure
<1>3. TypeOK'
  <2>1. group' \in [Group -> Row \cup {None}]
    <3>1. \A g \in Group : group'[g] \in Row \cup {None}
      BY FinishFacts DEF Row
    <3> QED
      BY <3>1 DEF FinishErasure
  <2>2. reports' \in SUBSET Event /\ IsFiniteSet(reports')
    BY <1>1, FS_Subset DEF CountInv, TypeOK
  <2>3. pass' \in Pass
    BY <1>1, PassFacts DEF CountInv, TypeOK
  <2>4. users' \in [Group -> SUBSET (Range(UserOf) \ {NoUser})]
    BY <1>1 DEF CountInv, TypeOK
  <2> QED
    BY <1>1, <1>2, <2>1, <2>2, <2>3, <2>4 DEF CountInv, TypeOK
<1>4. OneActive'
  BY <1>1 DEF CountInv, OneActive, Active
<1>5. ASSUME NEW c \in Request
      PROVE  Knows(c)'
  <2>1. Knows(c) /\ job'[c] = job[c] /\ Active(c)' = Active(c) /\ GroupHeld(c)' = GroupHeld(c)
    BY <1>1 DEF CountInv, JobsKnow, Active, GroupHeld
  <2>2. job[c].step # "idle" => Own(c) \in Group /\ Own(c)' = Own(c)
    BY <1>1, <2>1, EventAssumption DEF Knows, Own
  <2>3. job[c].step # "idle" => (group'[Own(c)] = None <=> group[Own(c)] = None)
    <3>1. \A g \in Group : group'[g] \in Row => group'[g] # None
      BY NoneAssumption
    <3>2. \A g \in Group : group[g] # None => group'[g] \in Row
      BY FinishFacts DEF Row
    <3>3. \A g \in Group : group[g] = None => group'[g] = None
      BY FinishFacts
    <3> QED
      BY <2>2, <3>1, <3>2, <3>3
  <2>4. GroupHeld(c) => users'[Own(c)] = users[Own(c)]
    <3>1. GroupHeld(c) => Own(c) \in Held /\ Own(c) \in Group
      BY <2>2 DEF Held, Own, GroupHeld
    <3> QED
      BY <1>1, <3>1
  <2>5. job'[c].event = job[c].event /\ reports' \subseteq reports
    BY <1>1
  <2> QED
    BY <1>1, <2>1, <2>2, <2>3, <2>4, <2>5 DEF Knows, Active, GroupHeld
<1>6. ASSUME NEW h \in Group
      PROVE  /\ IsFiniteSet(users'[h])
             /\ group'[h] = None => users'[h] = {} /\ In(h, reports') = {}
             /\ h \in erasure'.drops => Subject \in users'[h]
             /\ group'[h] # None =>
                   /\ group'[h].affected = Cardinality(users'[h])
                   /\ \A f \in In(h, reports') : UserOf[f] \in users'[h] \cup {NoUser, Subject}
  <2>1. /\ IsFiniteSet(users[h])
        /\ group[h] = None => users[h] = {} /\ In(h, reports) = {}
        /\ h \in erasure.drops => Subject \in users[h]
        /\ group[h] # None =>
              /\ group[h].affected = Cardinality(users[h])
              /\ \A f \in In(h, reports) : UserOf[f] \in users[h] \cup {NoUser, Subject}
    BY DEF CountInv, RowsKnow, AffectedUsersTrue
  <2>2. /\ group[h] = None => group'[h] = None
        /\ group[h] # None => /\ group'[h] # None
                              /\ group'[h].affected =
                                    IF h \in erasure.drops /\ group[h].affected > 0
                                    THEN group[h].affected - 1 ELSE group[h].affected
    BY FinishFacts, NoneAssumption DEF Row
  <2>3. users'[h] = IF h \in erasure.drops THEN users[h] \ {Subject} ELSE users[h]
    BY <1>1
  <2>4. In(h, reports') \subseteq In(h, reports)
    BY <1>1 DEF In
  <2>5. IsFiniteSet(users'[h]) /\ Cardinality(users[h]) \in Nat
    BY <2>1, <2>3, FS_RemoveElement, FS_CardinalityType
  <2>6. group'[h] # None => group'[h].affected = Cardinality(users'[h])
    <3>1. CASE h \in erasure.drops
      <4> DEFINE q == users[h]
      <4>1. IsFiniteSet(q) /\ Subject \in q
        BY <2>1, <3>1
      <4> HIDE DEF q
      <4>2. Cardinality(q \ {Subject}) = Cardinality(q) - 1 /\ Cardinality(q) > 0
        BY <4>1, FS_RemoveElement, FS_EmptySet, FS_CardinalityType
      <4> QED
        BY <2>1, <2>2, <2>3, <3>1, <4>2 DEF q
    <3>2. CASE h \notin erasure.drops
      BY <2>1, <2>2, <2>3, <3>2
    <3> QED
      BY <3>1, <3>2
  <2> QED
    BY <1>2, <2>1, <2>2, <2>3, <2>4, <2>5, <2>6
<1>7. RowsKnow' /\ AffectedUsersTrue'
  BY <1>6 DEF RowsKnow, AffectedUsersTrue
<1> QED
  BY <1>3, <1>4, <1>5, <1>7 DEF CountInv, JobsKnow

\* A change of state leaves the rest of the row.
LEMMA ChangeFacts ==
    ASSUME TypeOK, NEW g \in Group, NEW s \in State, NEW r \in Range(releases) \cup {None},
           ChangeState(g, s, r)
    PROVE  /\ group[g] \in Row /\ group'[g] \in Row /\ group'[g].state = s
           /\ group'[g].latest = group[g].latest /\ group'[g].affected = group[g].affected
           /\ group' \in [Group -> Row \cup {None}]
           /\ \A h \in Group : h # g => group'[h] = group[h]
<1> DEFINE row == group[g]
           in == IF s = "resolved" THEN r ELSE None
           reg == s # "resolved" /\ row.regressed
           new == [row EXCEPT !.state = s, !.resolvedIn = in, !.regressed = reg]
<1>1. row \in Row
  BY DEF TypeOK, ChangeState
<1>2. in \in Release \cup {None}
  BY ReleasesFacts
<1>3. reg \in BOOLEAN
  OBVIOUS
<1>4. group' = [group EXCEPT ![g] = new]
  BY <1>1 DEF ChangeState, TypeOK, Row
<1>5. new \in Row /\ new.state = s /\ new.latest = row.latest /\ new.affected = row.affected
  <2> HIDE DEF row, in, reg
  <2> QED
    BY <1>1, <1>2, <1>3 DEF Row
<1> HIDE DEF new
<1> QED
  BY <1>1, <1>4, <1>5 DEF TypeOK

LEMMA ChangeKeepsCount ==
    ASSUME CountInv, NEW g \in Group, NEW s \in State, NEW r \in Range(releases) \cup {None},
           ChangeState(g, s, r)
    PROVE  CountInv'
<1>1. /\ group[g] \in Row /\ group'[g] \in Row /\ group'[g].affected = group[g].affected
      /\ group' \in [Group -> Row \cup {None}]
      /\ \A h \in Group : h # g => group'[h] = group[h]
      /\ group[g] # None /\ group'[g] # None
  BY ChangeFacts, NoneAssumption DEF CountInv
<1>2. UNCHANGED <<users, reports, at, releases, cap, clock, cutoff, job, pass, erasure, regressed, crossed>>
  BY DEF ChangeState
<1>3. resolved' \in [Group -> Nat] /\ changes' \in 0 .. MaxChanges
  BY BoundAssumption DEF ChangeState, CountInv, TypeOK
<1>4. TypeOK'
  BY <1>1, <1>2, <1>3 DEF CountInv, TypeOK
<1>5. OneActive'
  BY <1>2 DEF CountInv, OneActive, Active
<1>6. ASSUME NEW c \in Request
      PROVE  Knows(c)'
  <2>1. Knows(c) /\ (job[c].step # "idle" => Own(c) \in Group)
    BY EventAssumption DEF CountInv, JobsKnow, Knows, Own
  <2>2. job[c].step # "idle" => (group'[Own(c)] = None <=> group[Own(c)] = None)
    BY <1>1, <2>1
  <2> QED
    BY <1>2, <2>1, <2>2 DEF Knows, Active, GroupHeld, Own
<1>7. RowsKnow'
  BY <1>1, <1>2 DEF CountInv, RowsKnow, In
<1>8. AffectedUsersTrue'
  BY <1>1, <1>2 DEF CountInv, AffectedUsersTrue, In
<1> QED
  BY <1>4, <1>5, <1>6, <1>7, <1>8 DEF CountInv, JobsKnow

LEMMA DeleteKeepsCount ==
    ASSUME CountInv, NEW g \in Group, DeleteGroup(g)
    PROVE  CountInv'
<1>1. /\ group' = [group EXCEPT ![g] = None] /\ users' = [users EXCEPT ![g] = {}]
      /\ reports' = reports \ In(g, reports) /\ pass' = PassWithout(In(g, reports))
      /\ g \notin Held /\ g \notin erasure.drops
      /\ UNCHANGED <<at, releases, cap, clock, cutoff, job, erasure, crossed>>
  BY DEF DeleteGroup
<1>2. TypeOK'
  <2>1. reports' \in SUBSET Event /\ IsFiniteSet(reports')
    BY <1>1, FS_Subset DEF CountInv, TypeOK
  <2>2. pass' \in Pass
    BY <1>1, PassFacts DEF CountInv, TypeOK
  <2>3. resolved' \in [Group -> Nat] /\ regressed' \in [Group -> Nat] /\ changes' \in 0 .. MaxChanges
    BY BoundAssumption DEF DeleteGroup, CountInv, TypeOK
  <2>4. group' \in [Group -> Row \cup {None}] /\ users' \in [Group -> SUBSET (Range(UserOf) \ {NoUser})]
    BY <1>1 DEF CountInv, TypeOK
  <2> QED
    BY <1>1, <2>1, <2>2, <2>3, <2>4 DEF CountInv, TypeOK
<1>3. OneActive'
  BY <1>1 DEF CountInv, OneActive, Active
<1>4. ASSUME NEW c \in Request
      PROVE  Knows(c)'
  <2>1. Knows(c) /\ (job[c].step # "idle" => Own(c) \in Group)
    BY EventAssumption DEF CountInv, JobsKnow, Knows, Own
  <2>2. GroupHeld(c) => Own(c) \in Group /\ Own(c) # g
    BY <1>1, <2>1 DEF Held, GroupHeld, Own
  <2>3. GroupHeld(c) => group'[Own(c)] = group[Own(c)] /\ users'[Own(c)] = users[Own(c)]
    BY <1>1, <2>2 DEF CountInv, TypeOK
  <2>4. job[c].step # "idle" /\ group[Own(c)] = None => group'[Own(c)] = None
    BY <1>1, <2>1 DEF CountInv, TypeOK
  <2>5. job[c].step \in {"idle", "lock", "write"} \/ GroupHeld(c)
    BY JobFields DEF CountInv, GroupHeld
  <2> QED
    BY <1>1, <2>1, <2>3, <2>4, <2>5 DEF Knows, Active, GroupHeld, Own
<1>5. RowsKnow' /\ AffectedUsersTrue'
  <2>1. \A h \in Group : h # g => /\ group'[h] = group[h] /\ users'[h] = users[h]
                                  /\ In(h, reports') \subseteq In(h, reports)
    BY <1>1 DEF In, CountInv, TypeOK
  <2>2. group'[g] = None /\ users'[g] = {} /\ In(g, reports') = {}
    BY <1>1 DEF In, CountInv, TypeOK
  <2>3. RowsKnow'
    BY <1>1, <2>1, <2>2, FS_EmptySet DEF CountInv, RowsKnow
  <2>4. AffectedUsersTrue'
    BY <2>1, <2>2 DEF CountInv, AffectedUsersTrue
  <2> QED
    BY <2>3, <2>4
<1> QED
  BY <1>2, <1>3, <1>4, <1>5 DEF CountInv, JobsKnow

LEMMA InitCount == Init => CountInv
<1> SUFFICES ASSUME Init PROVE CountInv
  OBVIOUS
<1>1. /\ group = [g \in Group |-> None] /\ users = [g \in Group |-> {}] /\ reports = {}
      /\ job = [c \in Request |-> Idle] /\ erasure = Waiting
  BY DEF Init
<1>2. Idle.step = "idle" /\ ~Idle.added /\ Waiting.drops = {}
  BY DEF Idle, Waiting
<1>3. TypeOK
  <2>1. Max(Caps) \in Caps
    <3>1. \E n \in Caps : \A m \in Caps : n >= m
      BY CapAssumption
    <3> QED
      BY <3>1 DEF Max
  <2>2. IsFiniteSet(reports)
    BY <1>1, FS_EmptySet
  <2>3. releases \in Seq(Release)
    BY EmptySeq DEF Init
  <2>4. group \in [Group -> Row \cup {None}] /\ users \in [Group -> SUBSET (Range(UserOf) \ {NoUser})]
    BY <1>1
  <2>5. at \in [Event -> 0 .. MaxArrivals] /\ cutoff \in 0 .. clock /\ clock \in 0 .. MaxArrivals
    BY BoundAssumption DEF Init
  <2>6. job \in [Request -> Job] /\ pass \in Pass /\ erasure \in Erasure
    BY <1>1, Rests DEF Init
  <2>7. changes \in 0 .. MaxChanges /\ resolved \in [Group -> Nat] /\ regressed \in [Group -> Nat]
    BY BoundAssumption DEF Init
  <2>8. reports \in SUBSET Event /\ crossed \in BOOLEAN /\ cap \in Caps
    BY <1>1, <2>1 DEF Init
  <2> QED
    BY <2>2, <2>3, <2>4, <2>5, <2>6, <2>7, <2>8 DEF TypeOK
<1>4. OneActive /\ JobsKnow
  BY <1>1, <1>2 DEF OneActive, JobsKnow, Knows, Active, GroupHeld
<1>5. RowsKnow /\ AffectedUsersTrue
  BY <1>1, <1>2, FS_EmptySet DEF RowsKnow, AffectedUsersTrue, In
<1> QED
  BY <1>3, <1>4, <1>5 DEF CountInv

\* A request's step, by its kind.
LEMMA NextKeepsCount == CountInv /\ [Next]_vars => CountInv'
<1> SUFFICES ASSUME CountInv, [Next]_vars PROVE CountInv'
  OBVIOUS
<1>1. CASE UNCHANGED vars
  BY <1>1 DEF vars, tables, history, CountInv, TypeOK, OneActive, JobsKnow, RowsKnow, AffectedUsersTrue,
              Knows, Active, GroupHeld, Own, In
<1>2. ASSUME NEW c \in Request, Ingest(c)
      PROVE  CountInv'
  <2>1. CASE \E e \in Event : Arrive(c, e)
    BY <2>1, ArriveKeepsCount
  <2>2. CASE Read(c)
    BY <2>2, ReadKeepsCount
  <2>3. CASE WriteGroup(c)
    BY <2>3, WriteKeepsCount
  <2>4. CASE AddUser(c)
    BY <2>4, AddKeepsCount
  <2>5. CASE CountReports(c)
    BY <2>5, CountReportsKeepsCount
  <2>6. CASE ChooseEvicted(c)
    BY <2>6, ChooseKeepsCount
  <2>7. CASE Commit(c)
    BY <2>7, CommitKeepsCount
  <2>8. CASE Fail(c)
    BY <2>8, IdleKeepsCount DEF Fail
  <2>9. CASE DeleteChosen(c)
    BY <2>9, DeleteChosenKeepsCount
  <2> QED
    BY <1>2, <2>1, <2>2, <2>3, <2>4, <2>5, <2>6, <2>7, <2>8, <2>9 DEF Ingest
<1>3. CASE PassCount \/ PassChoose \/ PassDelete \/ PassDies \/ GrowOld
  BY <1>3, PassKeepsCount
<1>4. CASE \/ EraseReports \/ Repoint \/ EraseUsers \/ AbortErasure
           \/ \E n \in Caps : ChangeRetention(n)
  BY <1>4, ErasureKeepsCount
<1>5. CASE FinishErasure
  BY <1>5, FinishKeepsCount
<1>6. ASSUME NEW g \in Group, DeleteGroup(g)
      PROVE  CountInv'
  BY <1>6, DeleteKeepsCount
<1>7. ASSUME NEW g \in Group, NEW s \in State, NEW r \in Range(releases) \cup {None},
             ChangeState(g, s, r)
      PROVE  CountInv'
  BY <1>7, ChangeKeepsCount
<1> QED
  BY <1>1, <1>2, <1>3, <1>4, <1>5, <1>6, <1>7 DEF Next

\* What transactions know, which the counts rest on, holds always.
THEOREM CountInvariance == Spec => []CountInv
BY InitCount, NextKeepsCount, PTL DEF Spec

\* The tables and transactions have their types.
THEOREM TypeCorrect == Spec => []TypeOK
<1>1. CountInv => TypeOK
  BY DEF CountInv
<1> QED
  BY <1>1, CountInvariance, PTL

\* A group's affected users are those associated to it, whatever reports,
\* evictions, changes and an erasure come between the steps of an ingest.
THEOREM UsersCounted == Spec => []AffectedUsersTrue
<1>1. CountInv => AffectedUsersTrue
  BY DEF CountInv
<1> QED
  BY <1>1, CountInvariance, PTL

-----------------------------------------------------------------------------
(* The regressions.                                                        *)

\* A request's way: it has arrived, it has read the group, it goes on with
\* what it has read, or it is out of the transaction.
LEMMA ArriveFacts ==
    ASSUME CountInv, NEW c \in Request, NEW e \in Event, Arrive(c, e)
    PROVE  /\ job'[c].step = "lock" /\ job'[c].victims = {} /\ job'[c].chosen = {}
           /\ \A d \in Request : d # c => job'[d] = job[d]
<1> DEFINE now == [Idle EXCEPT !.step = "lock", !.event = e, !.at = clock']
<1>1. clock' \in 0 .. MaxArrivals
  BY BoundAssumption DEF CountInv, TypeOK, Arrive
<1>2. now \in Job /\ now.step = "lock" /\ now.victims = {} /\ now.chosen = {}
  BY <1>1, Rests DEF Job, Idle
<1>3. Become(c, now)
  BY DEF Arrive
<1> HIDE DEF now
<1> QED
  BY <1>2, <1>3, Becomes DEF CountInv

LEMMA OutFacts ==
    ASSUME CountInv, NEW c \in Request, Become(c, Idle)
    PROVE  /\ job'[c].step = "idle" /\ job'[c].victims = {} /\ job'[c].chosen = {}
           /\ \A d \in Request : d # c => job'[d] = job[d]
BY Rests, Becomes DEF CountInv, Idle

LEMMA ReadFacts ==
    ASSUME CountInv, NEW c \in Request, Read(c)
    PROVE  /\ \/ job'[c].step = "idle" /\ job'[c].victims = {} /\ job'[c].chosen = {}
              \/ /\ job'[c].step = "write" /\ job'[c].event = job[c].event
                 /\ job'[c].read = group[Own(c)] /\ job'[c].victims = job[c].victims /\ job'[c].chosen = job[c].chosen
           /\ job[c].step = "lock"
           /\ \A d \in Request : d # c => job'[d] = job[d]
<1>1. CASE job[c].event \in reports
  BY <1>1, OutFacts DEF Read
<1>2. CASE job[c].event \notin reports
  <2> DEFINE r == group[Own(c)]
             now == [job[c] EXCEPT !.step = "write", !.read = r]
  <2>1. job[c] \in Job /\ job[c].event \in Event
    BY JobFields DEF CountInv, JobsKnow, Knows, Read
  <2>2. r \in Row \cup {None}
    BY <2>1, EventAssumption DEF CountInv, TypeOK, Own
  <2>3. Become(c, now)
    BY <1>2 DEF Read, Own
  <2> HIDE DEF r
  <2>4. /\ now \in Job /\ now.step = "write" /\ now.event = job[c].event /\ now.read = r
        /\ now.victims = job[c].victims /\ now.chosen = job[c].chosen
    BY <2>1, <2>2 DEF Job
  <2> HIDE DEF now
  <2> QED
    BY <2>3, <2>4, Becomes DEF CountInv, r, Read
<1> QED
  BY <1>1, <1>2

LEMMA WriteFacts ==
    ASSUME CountInv, NEW c \in Request, WriteGroup(c)
    PROVE  /\ \/ job'[c].step = "idle" /\ job'[c].victims = {} /\ job'[c].chosen = {}
              \/ /\ job'[c].step \in {"count", "user"} /\ job'[c].event = job[c].event
                 /\ job'[c].read = job[c].read /\ job'[c].victims = job[c].victims /\ job'[c].chosen = job[c].chosen
           /\ job[c].step = "write" /\ Own(c) \notin Repointed
           /\ \A d \in Request : d # c => job'[d] = job[d]
<1> DEFINE s == IF UserOf[job[c].event] = NoUser THEN "count" ELSE "user"
           now == [job[c] EXCEPT !.step = s]
<1>1. CASE Become(c, Idle)
  BY <1>1, OutFacts DEF WriteGroup, Own
<1>2. CASE Become(c, now)
  <2>1. job[c] \in Job /\ s \in {"count", "user"}
    BY JobFields DEF CountInv
  <2> HIDE DEF s
  <2>2. /\ now \in Job /\ now.step = s /\ now.event = job[c].event /\ now.read = job[c].read
        /\ now.victims = job[c].victims /\ now.chosen = job[c].chosen
    BY <2>1 DEF Job
  <2> HIDE DEF now
  <2> QED
    BY <1>2, <2>1, <2>2, Becomes DEF CountInv, WriteGroup, Own
<1> QED
  BY <1>1, <1>2 DEF WriteGroup

LEMMA AddFacts ==
    ASSUME CountInv, NEW c \in Request, AddUser(c)
    PROVE  /\ job'[c].step = "count" /\ job'[c].event = job[c].event
           /\ job'[c].read = job[c].read /\ job'[c].victims = job[c].victims /\ job'[c].chosen = job[c].chosen
           /\ job[c].step = "user"
           /\ \A d \in Request : d # c => job'[d] = job[d]
<1> DEFINE b == Adds(GroupOf[job[c].event], UserOf[job[c].event])
           now == [job[c] EXCEPT !.step = "count", !.added = b]
<1>1. job[c] \in Job /\ b \in BOOLEAN
  BY JobFields DEF CountInv, Adds
<1>2. Become(c, now)
  BY DEF AddUser
<1> HIDE DEF b
<1>3. /\ now \in Job /\ now.step = "count" /\ now.event = job[c].event /\ now.read = job[c].read
      /\ now.victims = job[c].victims /\ now.chosen = job[c].chosen
  BY <1>1 DEF Job
<1> HIDE DEF now
<1> QED
  BY <1>2, <1>3, Becomes DEF CountInv, AddUser

LEMMA CountReportsFacts ==
    ASSUME CountInv, NEW c \in Request, CountReports(c)
    PROVE  LET total == Cardinality((reports \ Aged) \cup {job[c].event}) IN
           /\ total \in Nat /\ cap \in Nat
           /\ job'[c].event = job[c].event /\ job'[c].read = job[c].read
           /\ job'[c].victims = Aged /\ job'[c].chosen = job[c].chosen /\ job'[c].over \in Nat
           /\ \/ /\ total > cap /\ job'[c].step = "choose" /\ job'[c].over > 0
                 /\ total = cap + job'[c].over
              \/ total <= cap /\ job'[c].step = "commit" /\ job'[c].over = 0
           /\ job[c].step = "count"
           /\ \A d \in Request : d # c => job'[d] = job[d]
<1> DEFINE e == job[c].event
           total == Cardinality((reports \ Aged) \cup {e})
           s == IF total > cap THEN "choose" ELSE "commit"
           n == IF total > cap THEN total - cap ELSE 0
           V == Aged
           now == [job[c] EXCEPT !.victims = V, !.step = s, !.over = n]
<1>1. job[c] \in Job /\ V \in SUBSET Event
  BY JobFields, AgedFacts DEF CountInv, TypeOK
<1>2. total \in Nat /\ cap \in Nat
  <2>1. IsFiniteSet((reports \ Aged) \cup {e})
    BY FS_Subset, FS_AddElement DEF CountInv, TypeOK
  <2> QED
    BY <2>1, FS_CardinalityType, CapAssumption DEF CountInv, TypeOK
<1>3. Become(c, now)
  BY DEF CountReports, CountsWith
<1>4. /\ s \in {"choose", "commit"} /\ n \in Nat
      /\ \/ total > cap /\ s = "choose" /\ n > 0 /\ total = cap + n
         \/ total <= cap /\ s = "commit" /\ n = 0
  <2> HIDE DEF total
  <2> QED
    BY <1>2
<1> HIDE DEF s, n, V
<1>5. /\ now \in Job /\ now.step = s /\ now.event = job[c].event /\ now.read = job[c].read
      /\ now.victims = V /\ now.over = n /\ now.chosen = job[c].chosen
  BY <1>1, <1>4 DEF Job
<1> HIDE DEF now
<1>6. job'[c] = now /\ \A d \in Request : d # c => job'[d] = job[d]
  BY <1>3, <1>5, Becomes DEF CountInv
<1>7. job[c].step = "count"
  BY DEF CountReports
<1> QED
  BY <1>2, <1>4, <1>5, <1>6, <1>7 DEF V

LEMMA ChooseEvictedFacts ==
    ASSUME CountInv, NEW c \in Request, ChooseEvicted(c)
    PROVE  \E S \in Evicts((reports \ job[c].victims) \cup {job[c].event},
                           [Latest EXCEPT ![Own(c)] = job[c].event],
                           Min({job[c].over, EvictionBatch})) :
           /\ S \in SUBSET ((reports \ job[c].victims) \cup {job[c].event})
           /\ job'[c].event = job[c].event /\ job'[c].read = job[c].read
           /\ job'[c].victims = job[c].victims /\ job'[c].chosen = S
           /\ job'[c].step = "evict" /\ job'[c].over = job[c].over
           /\ job[c].step = "choose"
           /\ \A d \in Request : d # c => job'[d] = job[d]
<1>1. PICK S \in Evicts((reports \ job[c].victims) \cup {job[c].event},
                        [Latest EXCEPT ![Own(c)] = job[c].event],
                        Min({job[c].over, EvictionBatch})) :
         /\ S \in SUBSET ((reports \ job[c].victims) \cup {job[c].event})
         /\ Become(c, [job[c] EXCEPT !.step = "evict", !.chosen = S])
  BY ChooseFacts DEF CountInv
<1> DEFINE now == [job[c] EXCEPT !.step = "evict", !.chosen = S]
<1>2. job[c] \in Job /\ job[c].event \in Event /\ job[c].step = "choose"
  BY JobFields DEF CountInv, JobsKnow, Knows, ChooseEvicted
<1>3. S \in SUBSET Event
  BY <1>1, <1>2 DEF CountInv, TypeOK
<1>4. /\ now \in Job /\ now.step = "evict" /\ now.event = job[c].event /\ now.read = job[c].read
      /\ now.victims = job[c].victims /\ now.chosen = S /\ now.over = job[c].over
  BY <1>2, <1>3 DEF Job
<1>5. Become(c, now)
  BY <1>1
<1> HIDE DEF now
<1>6. job'[c] = now /\ \A d \in Request : d # c => job'[d] = job[d]
  BY <1>4, <1>5, Becomes DEF CountInv
<1> QED
  BY <1>1, <1>2, <1>4, <1>6

LEMMA DeleteChosenFacts ==
    ASSUME CountInv, NEW c \in Request, DeleteChosen(c)
    PROVE  /\ job'[c].event = job[c].event /\ job'[c].read = job[c].read
           /\ job'[c].victims = job[c].victims \cup (job[c].chosen \cap reports)
           /\ job'[c].chosen = {}
           /\ job'[c].step = "commit" /\ job'[c].over = job[c].over
           /\ job[c].step = "evict"
           /\ \A d \in Request : d # c => job'[d] = job[d]
<1> DEFINE V == job[c].victims \cup (job[c].chosen \cap reports)
           now == [job[c] EXCEPT !.step = "commit", !.chosen = {}, !.victims = V]
<1>1. job[c].step = "evict" /\ job[c] \in Job /\ V \in SUBSET Event
  BY JobFields DEF DeleteChosen, CountInv
<1>2. Become(c, now)
  BY DEF DeleteChosen
<1> HIDE DEF V
<1>3. /\ now \in Job /\ now.step = "commit" /\ now.event = job[c].event
      /\ now.read = job[c].read /\ now.victims = V /\ now.chosen = {} /\ now.over = job[c].over
  BY <1>1 DEF Job
<1> HIDE DEF now
<1>4. job'[c] = now /\ \A d \in Request : d # c => job'[d] = job[d]
  BY <1>2, <1>3, Becomes DEF CountInv
<1> QED
  BY <1>1, <1>3, <1>4 DEF V

\* The state a commit leaves.
LEMMA NewRowState ==
    ASSUME CountInv, NEW c \in Request, job[c].step = "commit"
    PROVE  LET back == Regresses(job[c].read, ReleaseOf[job[c].event]) IN
           /\ job[c].read = None => NewRow(c).state = "open"
           /\ job[c].read # None => NewRow(c).state = IF back THEN "open" ELSE job[c].read.state
<1>1. CASE job[c].read = None
  BY <1>1 DEF NewRow, Opened
<1>2. CASE job[c].read # None
  <2> DEFINE row == group[Own(c)]
             back == Regresses(job[c].read, ReleaseOf[job[c].event])
             st == IF back THEN "open" ELSE job[c].read.state
             reg == back \/ job[c].read.regressed
             n == row.affected + (IF job[c].added THEN 1 ELSE 0)
             e == job[c].event
             new == [row EXCEPT !.latest = e, !.affected = n, !.state = st, !.regressed = reg]
  <2>1. row \in Row
    BY <1>2, NewRowFacts
  <2>2. NewRow(c) = new
    BY <1>2 DEF NewRow, Counted
  <2>3. new.state = st
    <3> HIDE DEF row, st, reg, n, e
    <3> QED
      BY <2>1 DEF Row
  <2> HIDE DEF new
  <2> QED
    BY <1>2, <2>2, <2>3
<1> QED
  BY <1>1, <1>2

\* A step that writes no group, and in which a request at most reads its group.
LEMMA ReadingKeepsAnnounce ==
    ASSUME CountInv, ToAnnounce, RegressedOnce, CountInv', UNCHANGED <<group, resolved, regressed>>,
           \A c \in Request : Active(c)' =>
              /\ job'[c].event = job[c].event
              /\ job[c].step # "idle"
              /\ \/ Active(c) /\ job'[c].read = job[c].read
                 \/ job'[c].read = group[Own(c)]
    PROVE  ToAnnounce' /\ RegressedOnce'
<1>1. RegressedOnce'
  BY DEF RegressedOnce
<1>2. \A g \in Group : group'[g] # None /\ group'[g].state = "resolved" => regressed'[g] < resolved'[g]
  BY DEF ToAnnounce
<1>3. ASSUME NEW c \in Request, Active(c)', job'[c].read # None, group'[Own(c)'] # None,
             job'[c].read.state = "resolved"
      PROVE  regressed'[Own(c)'] < resolved'[Own(c)']
  <2>1. Own(c)' = Own(c) /\ Own(c) \in Group
    BY <1>3, EventAssumption DEF Own, CountInv, JobsKnow, Knows
  <2>2. CASE Active(c) /\ job'[c].read = job[c].read
    BY <1>3, <2>1, <2>2 DEF ToAnnounce
  <2>3. CASE job'[c].read = group[Own(c)]
    BY <1>3, <2>1, <2>3 DEF ToAnnounce
  <2> QED
    BY <1>3, <2>2, <2>3
<1> QED
  BY <1>1, <1>2, <1>3 DEF ToAnnounce

LEMMA NextKeepsRegress == RegressInv /\ [Next]_vars => RegressInv'
<1> SUFFICES ASSUME RegressInv, [Next]_vars PROVE RegressInv'
  OBVIOUS
<1>1. CountInv /\ CountInv' /\ ToAnnounce /\ RegressedOnce
  BY NextKeepsCount DEF RegressInv
<1>2. ASSUME UNCHANGED <<group, resolved, regressed, job>>
      PROVE  RegressInv'
  <2>1. \A c \in Request : Active(c)' => Active(c) /\ job'[c] = job[c] /\ job[c].step # "idle"
    BY <1>2 DEF Active
  <2> QED
    BY <1>1, <1>2, <2>1, ReadingKeepsAnnounce DEF RegressInv
<1>3. CASE UNCHANGED vars
  BY <1>2, <1>3 DEF vars, tables, history
<1>4. CASE PassCount \/ PassChoose \/ PassDelete \/ PassDies \/ GrowOld
  BY <1>2, <1>4 DEF PassCount, PassChoose, PassDelete, PassDies, GrowOld, tables, history
<1>5. CASE \/ EraseReports \/ Repoint \/ EraseUsers \/ AbortErasure
           \/ \E n \in Caps : ChangeRetention(n)
  BY <1>2, <1>5 DEF EraseReports, Repoint, EraseUsers, AbortErasure, ChangeRetention, tables, history
<1>6. ASSUME NEW c \in Request, Ingest(c), ~Commit(c)
      PROVE  RegressInv'
  <2>1. UNCHANGED <<group, resolved, regressed>>
    BY <1>6 DEF Ingest, Arrive, Read, WriteGroup, AddUser, CountReports, ChooseEvicted, DeleteChosen,
              Fail, tables, history
  <2>2. /\ \A d \in Request : d # c => job'[d] = job[d]
        /\ Active(c)' => /\ job'[c].event = job[c].event
                         /\ job[c].step # "idle"
                         /\ \/ Active(c) /\ job'[c].read = job[c].read
                            \/ job'[c].read = group[Own(c)]
    <3>1. CASE \E e \in Event : Arrive(c, e)
      BY <1>1, <3>1, ArriveFacts DEF Active
    <3>2. CASE Read(c)
      BY <1>1, <3>2, ReadFacts DEF Active
    <3>3. CASE WriteGroup(c)
      BY <1>1, <3>3, WriteFacts DEF Active
    <3>4. CASE AddUser(c)
      BY <1>1, <3>4, AddFacts DEF Active
    <3>5. CASE CountReports(c)
      BY <1>1, <3>5, CountReportsFacts DEF Active
    <3>6. CASE ChooseEvicted(c)
      BY <1>1, <3>6, ChooseEvictedFacts DEF Active
    <3>7. CASE Fail(c)
      BY <1>1, <3>7, OutFacts DEF Active, Fail
    <3>8. CASE DeleteChosen(c)
      BY <1>1, <3>8, DeleteChosenFacts DEF Active
    <3> QED
      BY <1>6, <3>1, <3>2, <3>3, <3>4, <3>5, <3>6, <3>7, <3>8 DEF Ingest
  <2>3. \A d \in Request : Active(d)' =>
              /\ job'[d].event = job[d].event
              /\ job[d].step # "idle"
              /\ \/ Active(d) /\ job'[d].read = job[d].read
                 \/ job'[d].read = group[Own(d)]
    BY <2>2 DEF Active
  <2> QED
    BY <1>1, <2>1, <2>3, ReadingKeepsAnnounce DEF RegressInv
<1>7. ASSUME NEW c \in Request, Commit(c)
      PROVE  RegressInv'
  <2> DEFINE g == Own(c)
             read == job[c].read
             back == Regresses(read, ReleaseOf[job[c].event])
  <2>1. /\ group' = [group EXCEPT ![g] = NewRow(c)]
        /\ job'[c] = Idle /\ \A d \in Request : d # c => job'[d] = job[d] /\ ~Active(d)
        /\ job[c].step = "commit" /\ resolved' = resolved
    BY <1>1, <1>7, CommitFacts
  <2>2. regressed' = IF read # None /\ back THEN [regressed EXCEPT ![g] = @ + 1] ELSE regressed
    BY <1>7 DEF Commit, Own
  <2>3. /\ read = None => NewRow(c).state = "open"
        /\ read # None => NewRow(c).state = IF back THEN "open" ELSE read.state
        /\ g \in Group /\ (read # None => group[g] \in Row)
    BY <1>1, <2>1, NewRowState, NewRowFacts
  <2>4. back => read.state = "resolved"
    BY DEF Regresses
  <2>5. read # None /\ read.state = "resolved" => regressed[g] < resolved[g]
    BY <1>1, <2>1, <2>3, NoneAssumption DEF ToAnnounce, Active
  <2>6. \A d \in Request : ~Active(d)'
    BY <2>1 DEF Active, Idle
  <2> HIDE DEF back, read, g
  <2>7. ASSUME NEW h \in Group
        PROVE  /\ regressed'[h] <= resolved'[h]
               /\ group'[h] # None /\ group'[h].state = "resolved" => regressed'[h] < resolved'[h]
    <3>1. regressed[h] \in Nat /\ resolved[h] \in Nat /\ regressed[h] <= resolved[h]
      BY <1>1 DEF CountInv, TypeOK, RegressedOnce
    <3>2. CASE h # g
      BY <1>1, <2>1, <2>2, <3>1, <3>2 DEF CountInv, TypeOK, ToAnnounce
    <3>3. CASE h = g
      <4>1. group'[h] = NewRow(c)
        BY <1>1, <2>1, <3>3 DEF CountInv, TypeOK
      <4>2. regressed'[h] = IF read # None /\ back THEN regressed[h] + 1 ELSE regressed[h]
        BY <1>1, <2>2, <3>3 DEF CountInv, TypeOK
      <4> QED
        BY <2>1, <2>3, <2>4, <2>5, <3>1, <3>3, <4>1, <4>2
    <3> QED
      BY <3>2, <3>3
  <2> QED
    BY <1>1, <2>6, <2>7 DEF RegressInv, ToAnnounce, RegressedOnce
<1>8. CASE FinishErasure
  <2>1. UNCHANGED <<job, resolved, regressed>>
    BY <1>8 DEF FinishErasure, history
  <2>2. \A g \in Group : /\ group'[g] # None => group[g] # None
                         /\ group[g] # None => group'[g].state = group[g].state
    BY <1>1, <1>8, FinishFacts
  <2>3. \A c \in Request : Active(c)' => Active(c) /\ Own(c) \in Group /\ Own(c)' = Own(c)
    BY <1>1, <2>1, EventAssumption DEF Active, Own, CountInv, JobsKnow, Knows
  <2> QED
    BY <1>1, <2>1, <2>2, <2>3 DEF RegressInv, ToAnnounce, RegressedOnce
<1>9. ASSUME NEW g \in Group, DeleteGroup(g)
      PROVE  RegressInv'
  <2>1. /\ group' = [group EXCEPT ![g] = None] /\ resolved' = [resolved EXCEPT ![g] = 0]
        /\ regressed' = [regressed EXCEPT ![g] = 0] /\ job' = job
    BY <1>9 DEF DeleteGroup
  <2>2. \A h \in Group : h # g => /\ group'[h] = group[h] /\ resolved'[h] = resolved[h]
                                  /\ regressed'[h] = regressed[h]
    BY <1>1, <2>1 DEF CountInv, TypeOK
  <2>3. group'[g] = None /\ resolved'[g] = 0 /\ regressed'[g] = 0
    BY <1>1, <2>1 DEF CountInv, TypeOK
  <2>4. \A c \in Request : Active(c)' => Active(c) /\ Own(c) \in Group /\ Own(c)' = Own(c)
    BY <1>1, <2>1, EventAssumption DEF Active, Own, CountInv, JobsKnow, Knows
  <2> QED
    BY <1>1, <2>1, <2>2, <2>3, <2>4 DEF RegressInv, ToAnnounce, RegressedOnce
<1>10. ASSUME NEW g \in Group, NEW s \in State, NEW r \in Range(releases) \cup {None},
              ChangeState(g, s, r)
       PROVE  RegressInv'
  <2>1. /\ group[g] # None /\ group'[g].state = s /\ regressed' = regressed /\ job' = job
        /\ \A h \in Group : h # g => group'[h] = group[h]
    BY <1>1, <1>10, ChangeFacts DEF ChangeState, CountInv
  <2>2. /\ resolved' = IF s = "resolved" THEN [resolved EXCEPT ![g] = @ + 1] ELSE resolved
    BY <1>10 DEF ChangeState
  <2>3. \A h \in Group : /\ resolved[h] \in Nat /\ regressed[h] \in Nat
                         /\ resolved'[h] = IF h = g /\ s = "resolved" THEN resolved[h] + 1 ELSE resolved[h]
                         /\ group'[h] # None => group[h] # None
    BY <1>1, <2>1, <2>2 DEF CountInv, TypeOK
  <2>4. \A c \in Request : Active(c)' => Active(c) /\ Own(c) \in Group /\ Own(c)' = Own(c)
    BY <1>1, <2>1, EventAssumption DEF Active, Own, CountInv, JobsKnow, Knows
  <2>5. RegressedOnce'
    BY <1>1, <2>1, <2>3 DEF RegressedOnce
  <2>6. \A h \in Group : group'[h] # None /\ group'[h].state = "resolved" => regressed'[h] < resolved'[h]
    BY <1>1, <2>1, <2>3 DEF ToAnnounce, RegressedOnce
  <2>7. \A c \in Request : /\ Active(c)' /\ job'[c].read # None /\ group'[Own(c)'] # None
                           /\ job'[c].read.state = "resolved"
                           => regressed'[Own(c)'] < resolved'[Own(c)']
    BY <1>1, <2>1, <2>3, <2>4 DEF ToAnnounce
  <2> QED
    BY <1>1, <2>5, <2>6, <2>7 DEF RegressInv, ToAnnounce
<1> QED
  BY <1>3, <1>4, <1>5, <1>6, <1>7, <1>8, <1>9, <1>10 DEF Next, Ingest

LEMMA InitRegress == Init => RegressInv
<1>1. Init => ToAnnounce /\ RegressedOnce
  BY DEF Init, ToAnnounce, RegressedOnce, Active, Idle
<1> QED
  BY <1>1, InitCount DEF RegressInv

\* A regression is announced at most as often as the group was resolved:
\* an ingest that has read a resolved group has an announcement left.
THEOREM RegressionAnnouncedOnce == Spec => []RegressedOnce
<1>1. RegressInv => RegressedOnce
  BY DEF RegressInv
<1> QED
  BY <1>1, InitRegress, NextKeepsRegress, PTL DEF Spec

-----------------------------------------------------------------------------
(* The latest reports.                                                     *)

\* A request that stays where it is spares what it did, when nothing comes to
\* be the latest of a group that it has chosen.
LEMMA SparesKept ==
    ASSUME CountInv, NEW c \in Request, Spares(c), job'[c] = job[c],
           \A v \in job[c].victims \cup job[c].chosen : at'[v] = at[v],
           cutoff' \in Nat, cutoff <= cutoff', crossed => crossed',
           \/ crossed'
           \/ ~(job[c].step \in {"evict", "commit"} /\ job[c].over > 0)
           \/ \A g \in Group, v \in job[c].victims \cup job[c].chosen : LatestOf(g, v)' => LatestOf(g, v),
           GroupHeld(c) => Own(c) \notin Repointed'
    PROVE  Spares(c)'
<1>1. GroupHeld(c)' = GroupHeld(c) /\ Own(c)' = Own(c)
  BY DEF GroupHeld, Own
<1>2. ASSUME NEW v \in job[c].victims \cup job[c].chosen
      PROVE  \/ at'[v] < cutoff'
             \/ /\ job'[c].step \in {"evict", "commit"} /\ job'[c].over > 0
                /\ \A g \in Group : ~(LatestOf(g, v)') \/ g = Own(c)'
             \/ crossed'
  <2>1. at[v] \in Nat /\ cutoff \in Nat
    BY JobFields, BoundAssumption DEF CountInv, TypeOK
  <2>2. CASE at[v] < cutoff
    BY <2>1, <2>2
  <2>3. CASE /\ job[c].step \in {"evict", "commit"} /\ job[c].over > 0
             /\ \A g \in Group : ~LatestOf(g, v) \/ g = Own(c)
    BY <1>1, <2>3
  <2> QED
    BY <1>2, <2>2, <2>3 DEF Spares
<1> QED
  BY <1>1, <1>2 DEF Spares

\* What the replacements of an erasure rest on, and the latest reports, when a
\* step leaves the rows' latest reports, the reports and the erasure.
LEMMA QuietKeeps ==
    ASSUME KeptInv, CountInv', DeletedStay', UNCHANGED <<reports, at, erasure, pass>>,
           cutoff' \in Nat, cutoff <= cutoff', crossed => crossed',
           \A g \in Group : /\ group[g] = None <=> group'[g] = None
                            /\ group[g] # None => group'[g].latest = group[g].latest,
           Erasing /\ Evicting' => crossed',
           \A c \in Request : Spares(c)'
    PROVE  KeptInv'
<1>1. CountInv /\ cutoff \in Nat
  BY BoundAssumption DEF KeptInv, CountInv, TypeOK
<1>2. \A g \in Group, v \in Event : LatestOf(g, v)' <=> LatestOf(g, v)
  BY DEF LatestOf
<1>3. LatestOwn'
  BY DEF KeptInv, LatestOwn
<1>4. PassSpares'
  <2>1. pass.victims \in SUBSET Event
    BY <1>1 DEF CountInv, TypeOK, Pass
  <2> QED
    BY <1>2, <2>1 DEF KeptInv, PassSpares
<1>5. ErasureSpares'
  <2>1. ASSUME NEW g \in Repointed
        PROVE  Replaces(g, erasure.points[g])'
    <3> DEFINE p == erasure.points[g]
    <3>1. Replaces(g, p) /\ g \in Group
      BY <1>1, ErasureFacts DEF KeptInv, ErasureSpares, CountInv
    <3>2. p # None => at[p] \in Nat
      BY <1>1, <3>1, BoundAssumption DEF Replaces, In, CountInv, TypeOK
    <3> HIDE DEF p
    <3>3. p' = p
      BY DEF p
    <3>4. Replaces(g, p)'
      BY <1>1, <3>1, <3>2, <3>3 DEF Replaces
    <3> QED
      BY <3>4 DEF p
  <2>2. Repointed' = Repointed /\ Erasing' = Erasing
    BY DEF Repointed, Erasing
  <2> QED
    BY <2>1, <2>2 DEF KeptInv, ErasureSpares
<1>6. LatestKept'
  <2>1. ASSUME NEW g \in Group, group'[g] # None
        PROVE  LET e == group'[g].latest IN
               \/ e \in In(g, reports)
               \/ e = None /\ In(g, reports) = {}
               \/ e # None /\ at[e] < cutoff'
               \/ crossed'
    <3> DEFINE e == group[g].latest
    <3>1. group[g] # None /\ group'[g].latest = e
      BY <2>1
    <3>2. e # None => at[e] \in Nat
      BY <1>1, <3>1, BoundAssumption DEF KeptInv, LatestOwn, In, CountInv, TypeOK
    <3>3. \/ e \in In(g, reports)
          \/ e = None /\ In(g, reports) = {}
          \/ e # None /\ at[e] < cutoff
          \/ crossed
      BY <3>1 DEF KeptInv, LatestKept
    <3> HIDE DEF e
    <3> QED
      BY <1>1, <3>1, <3>2, <3>3
  <2> QED
    BY <2>1 DEF LatestKept, In
<1> QED
  BY <1>3, <1>4, <1>5, <1>6 DEF KeptInv, IngestSpares

\* What an eviction chooses is no group's latest, the group's own included.
LEMMA ChosenNotLatest ==
    ASSUME KeptInv, NEW c \in Request, job[c].event \in Event, job[c].step = "choose",
           NEW S \in Evicts((reports \ job[c].victims) \cup {job[c].event},
                            [Latest EXCEPT ![Own(c)] = job[c].event],
                            Min({job[c].over, EvictionBatch})),
           NEW v \in S
    PROVE  v # job[c].event /\ \A g \in Group : ~LatestOf(g, v) \/ g = Own(c)
<1> DEFINE e == job[c].event
           all == (reports \ job[c].victims) \cup {e}
           latest == [Latest EXCEPT ![Own(c)] = e]
<1>1. all \in SUBSET Event
  BY DEF KeptInv, CountInv, TypeOK
<1>2. PICK g \in Group : latest[g] # None /\ S \subseteq In(g, all) \ {latest[g]}
  <2> HIDE DEF all, latest
  <2>1. S \in Evicts(all, latest, Min({job[c].over, EvictionBatch}))
    BY DEF all, latest
  <2> QED
    BY <1>1, <2>1, EvictsFacts
<1>3. v \in In(g, all) /\ v # latest[g] /\ GroupOf[v] = g /\ v \in Event
  BY <1>1, <1>2 DEF In
<1>4. Own(c) \in Group /\ Own(c) = GroupOf[e]
  BY EventAssumption DEF Own
<1>5. latest[g] = IF g = Own(c) THEN e ELSE Latest[g]
  BY <1>4 DEF Latest
<1>6. v # e
  BY <1>3, <1>4, <1>5
<1>7. ASSUME NEW h \in Group, LatestOf(h, v), h # Own(c)
      PROVE  FALSE
  <2>1. group[h] # None /\ v = group[h].latest /\ v # None
    BY <1>3, <1>7, NoneAssumption DEF LatestOf
  <2>2. h = g
    BY <1>3, <2>1 DEF KeptInv, LatestOwn, In
  <2>3. latest[g] = group[g].latest
    BY <1>5, <1>7, <2>1, <2>2 DEF Latest
  <2> QED
    BY <1>3, <2>1, <2>2, <2>3
<1> QED
  BY <1>6, <1>7

LEMMA IngestKeepsLatest ==
    ASSUME KeptInv, CountInv', DeletedStay', NEW c \in Request, Ingest(c), ~Commit(c)
    PROVE  KeptInv'
<1>1. CountInv /\ cutoff \in Nat /\ \A d \in Request : Spares(d)
  BY BoundAssumption DEF KeptInv, CountInv, TypeOK, IngestSpares
<1>2. UNCHANGED <<group, users, reports, at, erasure, pass, cutoff>>
  BY DEF Ingest, Arrive, Read, WriteGroup, AddUser, CountReports, ChooseEvicted, DeleteChosen,
              Fail, tables, history
<1>3. (crossed => crossed') /\ (ChooseEvicted(c) /\ Erasing => crossed')
  <2>1. CASE ChooseEvicted(c)
    BY <2>1 DEF ChooseEvicted
  <2>2. CASE ~ChooseEvicted(c)
    <3>1. crossed' = crossed
      BY <2>2 DEF Ingest, Arrive, Read, WriteGroup, AddUser, CountReports, DeleteChosen, Fail, history
    <3> QED
      BY <2>2, <3>1
  <2> QED
    BY <2>1, <2>2
<1>4. Repointed' = Repointed
  BY <1>2 DEF Repointed
<1>5. /\ \A d \in Request : d # c => job'[d] = job[d]
      /\ Spares(c)'
      /\ job'[c].step \in {"evict", "commit"} /\ job'[c].over > 0 =>
            ChooseEvicted(c) \/ (job[c].step = "evict" /\ job[c].over > 0)
  <2>1. CASE \E e \in Event : Arrive(c, e)
    BY <1>1, <2>1, ArriveFacts DEF Spares, GroupHeld
  <2>2. CASE Read(c)
    BY <1>1, <2>2, ReadFacts DEF Spares, GroupHeld
  <2>3. CASE WriteGroup(c)
    <3>1. job[c].victims = {} /\ job[c].chosen = {}
      BY <1>1, <2>3, WriteFacts DEF Spares
    <3> QED
      BY <1>1, <1>4, <2>3, <3>1, WriteFacts DEF Spares, GroupHeld, Own
  <2>4. CASE AddUser(c)
    <3>1. job[c].victims = {} /\ job[c].chosen = {} /\ Own(c) \notin Repointed
      BY <1>1, <2>4, AddFacts DEF Spares, GroupHeld
    <3> QED
      BY <1>1, <1>4, <2>4, <3>1, AddFacts DEF Spares, GroupHeld, Own
  <2>5. CASE CountReports(c)
    <3>1. Own(c) \notin Repointed /\ job[c].event \notin reports /\ job[c].chosen = {}
      BY <1>1, <2>5, CountReportsFacts DEF Spares, GroupHeld, Active, Knows, CountInv, JobsKnow
    <3>2. \A v \in Aged : v \in reports /\ at[v] < cutoff
      BY AgedFacts
    <3>3. /\ job'[c].event = job[c].event /\ job'[c].victims = Aged /\ job'[c].chosen = {}
          /\ \/ job'[c].step = "choose" /\ job'[c].over > 0
             \/ job'[c].step = "commit" /\ job'[c].over = 0
          /\ \A d \in Request : d # c => job'[d] = job[d]
      BY <1>1, <2>5, <3>1, CountReportsFacts
    <3>4. Own(c)' = Own(c)
      BY <3>3 DEF Own
    <3>5. Spares(c)'
      BY <1>2, <1>4, <3>1, <3>2, <3>3, <3>4 DEF Spares
    <3> QED
      BY <3>3, <3>5
  <2>6. CASE ChooseEvicted(c)
    <3>1. PICK S \in Evicts((reports \ job[c].victims) \cup {job[c].event},
                            [Latest EXCEPT ![Own(c)] = job[c].event],
                            Min({job[c].over, EvictionBatch})) :
           /\ job'[c].event = job[c].event /\ job'[c].victims = job[c].victims /\ job'[c].chosen = S
           /\ job'[c].step = "evict" /\ job'[c].over = job[c].over
           /\ job[c].step = "choose"
           /\ \A d \in Request : d # c => job'[d] = job[d]
      BY <1>1, <2>6, ChooseEvictedFacts
    <3>2. job[c].event \in Event /\ Own(c)' = Own(c) /\ GroupHeld(c) /\ job[c].over > 0
      BY <1>1, <3>1 DEF CountInv, JobsKnow, Knows, Own, GroupHeld, Spares
    <3>3. \A g, v : LatestOf(g, v)' <=> LatestOf(g, v)
      BY <1>2 DEF LatestOf
    <3>4. ASSUME NEW v \in job[c].victims \cup S
          PROVE  /\ v # job[c].event
                 /\ at[v] < cutoff \/ (\A g \in Group : ~LatestOf(g, v) \/ g = Own(c)) \/ crossed
      <4>1. CASE v \in S
        BY <3>1, <3>2, <4>1, ChosenNotLatest
      <4>2. CASE v \in job[c].victims
        BY <1>1, <3>1, <4>2 DEF Spares
      <4> QED
        BY <4>1, <4>2
    <3>5. crossed => crossed'
      BY <1>3
    <3>6. Spares(c)'
      BY <1>1, <1>2, <1>4, <3>1, <3>2, <3>3, <3>4, <3>5 DEF Spares
    <3> QED
      BY <2>6, <3>1, <3>6
  <2>7. CASE Fail(c)
    BY <1>1, <2>7, OutFacts DEF Spares, GroupHeld, Fail
  <2>8. CASE DeleteChosen(c)
    <3>1. /\ job'[c].event = job[c].event
          /\ job'[c].victims \subseteq job[c].victims \cup job[c].chosen /\ job'[c].chosen = {}
          /\ job'[c].step = "commit" /\ job'[c].over = job[c].over
          /\ job[c].step = "evict"
          /\ \A d \in Request : d # c => job'[d] = job[d]
      BY <1>1, <2>8, DeleteChosenFacts
    <3>2. Own(c)' = Own(c) /\ GroupHeld(c) /\ job[c].over > 0
      BY <1>1, <3>1 DEF Own, GroupHeld, Spares
    <3>3. \A g, v : LatestOf(g, v)' <=> LatestOf(g, v)
      BY <1>2 DEF LatestOf
    <3>4. crossed => crossed'
      BY <1>3
    <3>5. Spares(c)'
      BY <1>1, <1>2, <1>4, <3>1, <3>2, <3>3, <3>4 DEF Spares
    <3> QED
      BY <3>1, <3>2, <3>5
  <2> QED
    BY <2>1, <2>2, <2>3, <2>4, <2>5, <2>6, <2>7, <2>8 DEF Ingest
<1>6. ASSUME NEW d \in Request, d # c
      PROVE  Spares(d)'
  <2>1. \A g, v : LatestOf(g, v)' <=> LatestOf(g, v)
    BY <1>2 DEF LatestOf
  <2>2. GroupHeld(d) => Own(d) \notin Repointed'
    BY <1>1, <1>4 DEF Spares
  <2>3. \A v \in job[d].victims \cup job[d].chosen : at'[v] = at[v]
    BY <1>2
  <2>4. cutoff' \in Nat /\ cutoff <= cutoff'
    BY <1>1, <1>2
  <2>5. Spares(d) /\ job'[d] = job[d] /\ (crossed => crossed')
    BY <1>1, <1>3, <1>5, <1>6
  <2>6. \A g \in Group, v \in job[d].victims \cup job[d].chosen : LatestOf(g, v)' => LatestOf(g, v)
    BY <2>1
  <2> QED
    BY <1>1, <2>2, <2>3, <2>4, <2>5, <2>6, SparesKept
<1>7. Erasing /\ Evicting' => crossed'
  <2>1. SUFFICES ASSUME Erasing, Evicting', ~ChooseEvicted(c) PROVE crossed'
    BY <1>3
  <2>2. Evicting
    BY <1>2, <1>5, <2>1 DEF Evicting
  <2> QED
    BY <1>3, <2>1, <2>2 DEF KeptInv, ErasureSpares
<1>8. \A d \in Request : Spares(d)'
  BY <1>5, <1>6
<1>9. cutoff' \in Nat /\ cutoff <= cutoff' /\ (crossed => crossed')
  BY <1>1, <1>2, <1>3
<1>10. \A g \in Group : /\ group[g] = None <=> group'[g] = None
                        /\ group[g] # None => group'[g].latest = group[g].latest
  BY <1>2
<1> QED
  BY <1>2, <1>7, <1>8, <1>9, <1>10, QuietKeeps

\* Taking reports away keeps the latest ones, and those an erasure points to,
\* when what goes is old, or no group's latest and gone outside an erasure.
LEMMA TakingKeepsLatest ==
    ASSUME KeptInv, CountInv', DeletedStay', UNCHANGED <<group, at, cutoff, job, erasure>>,
           reports' \subseteq reports, crossed => crossed', PassSpares',
           Erasing /\ Evicting' => crossed',
           \A v \in reports \ reports' :
              /\ v \notin erasure.doomed
              /\ at[v] < cutoff \/ crossed' \/ (~Erasing /\ \A g \in Group : ~LatestOf(g, v))
    PROVE  KeptInv'
<1>1. CountInv /\ cutoff \in Nat /\ Repointed' = Repointed /\ Erasing' = Erasing
  BY BoundAssumption DEF KeptInv, CountInv, TypeOK, Repointed, Erasing
<1>2. \A g, v : LatestOf(g, v)' <=> LatestOf(g, v)
  BY DEF LatestOf
<1>3. LatestOwn'
  BY DEF KeptInv, LatestOwn
<1>4. ASSUME NEW c \in Request
      PROVE  Spares(c)'
  <2>1. Spares(c) /\ job'[c] = job[c] /\ (\A v \in job[c].victims \cup job[c].chosen : at'[v] = at[v])
    BY DEF KeptInv, IngestSpares
  <2>2. cutoff' \in Nat /\ cutoff <= cutoff'
    BY <1>1
  <2>3. \A g \in Group, v \in job[c].victims \cup job[c].chosen : LatestOf(g, v)' => LatestOf(g, v)
    BY <1>2
  <2>4. GroupHeld(c) => Own(c) \notin Repointed'
    BY <1>1, <2>1 DEF Spares
  <2> QED
    BY <1>1, <2>1, <2>2, <2>3, <2>4, SparesKept
<1>5. ErasureSpares'
  <2>1. ASSUME NEW g \in Repointed
        PROVE  Replaces(g, erasure.points[g])'
    <3> DEFINE p == erasure.points[g]
    <3>1. Replaces(g, p) /\ g \in Group
      BY <1>1, ErasureFacts DEF KeptInv, ErasureSpares, CountInv
    <3>2. Erasing
      BY <1>1, ErasureFacts DEF KeptInv, ErasureSpares, CountInv, Erasing
    <3> HIDE DEF p
    <3>3. p' = p
      BY DEF p
    <3>4. p \in In(g, reports) => p \in In(g, reports') \/ p \in reports \ reports'
      BY DEF In
    <3>5. p \in In(g, reports) => p # None
      BY <1>1, NoneAssumption DEF In, CountInv, TypeOK
    <3>6. In(g, reports') \subseteq In(g, reports)
      BY DEF In
    <3>7. Replaces(g, p)'
      BY <3>1, <3>2, <3>3, <3>4, <3>5, <3>6 DEF Replaces
    <3> QED
      BY <3>7 DEF p
  <2>2. erasure.doomed \subseteq reports'
    BY DEF KeptInv, ErasureSpares
  <2> QED
    BY <1>1, <2>1, <2>2 DEF KeptInv, ErasureSpares
<1>6. LatestKept'
  <2>1. ASSUME NEW g \in Group, group[g] # None
        PROVE  LET e == group[g].latest IN
               \/ e \in In(g, reports')
               \/ e = None /\ In(g, reports') = {}
               \/ e # None /\ at[e] < cutoff
               \/ crossed'
    <3> DEFINE e == group[g].latest
    <3>1. LatestOf(g, e)
      BY <2>1 DEF LatestOf
    <3>2. \/ e \in In(g, reports)
          \/ e = None /\ In(g, reports) = {}
          \/ e # None /\ at[e] < cutoff
          \/ crossed
      BY <2>1 DEF KeptInv, LatestKept
    <3> HIDE DEF e
    <3>3. e \in In(g, reports) => e # None /\ (e \in In(g, reports') \/ e \in reports \ reports')
      BY <1>1, NoneAssumption DEF In, CountInv, TypeOK
    <3>4. In(g, reports') \subseteq In(g, reports)
      BY DEF In
    <3>5. \/ e \in In(g, reports')
          \/ e = None /\ In(g, reports') = {}
          \/ e # None /\ at[e] < cutoff
          \/ crossed'
      BY <3>1, <3>2, <3>3, <3>4
    <3> QED
      BY <3>5 DEF e
  <2> QED
    BY <2>1 DEF LatestKept, In
<1> QED
  BY <1>3, <1>4, <1>5, <1>6 DEF KeptInv, IngestSpares

\* The steps of the pass.
LEMMA PassKeepsLatest ==
    ASSUME KeptInv, CountInv', DeletedStay', PassCount \/ PassChoose \/ PassDelete \/ PassDies
    PROVE  KeptInv'
<1>1. CountInv /\ pass \in Pass /\ PassSpares /\ (Erasing /\ Evicting => crossed)
  BY DEF KeptInv, CountInv, TypeOK, ErasureSpares
<1>2. UNCHANGED <<group, at, cutoff, job, erasure>>
  BY DEF PassCount, PassChoose, PassDelete, PassDies, tables
<1>3. Resting.step = "idle" /\ Resting.victims = {}
  BY DEF Resting
<1>4. \A g, v : LatestOf(g, v)' <=> LatestOf(g, v)
  BY <1>2 DEF LatestOf
<1>5. CASE PassCount
  <2>1. reports' = reports \ Aged /\ Aged \cap erasure.doomed = {} /\ crossed' = crossed
    BY <1>5 DEF PassCount, history
  <2>2. pass'.step # "delete" /\ pass'.victims = {}
    <3> DEFINE n == Cardinality(reports \ Aged) - cap
               choosing == [Resting EXCEPT !.step = "choose", !.over = n]
    <3>1. pass' = Resting \/ pass' = choosing
      BY <1>5 DEF PassCount
    <3> HIDE DEF n
    <3>2. choosing.step = "choose" /\ choosing.victims = {}
      BY DEF Resting
    <3> HIDE DEF choosing
    <3> QED
      BY <1>3, <3>1, <3>2
  <2>3. PassSpares'
    BY <2>2 DEF PassSpares
  <2>4. Erasing /\ Evicting' => crossed'
    BY <1>1, <1>2, <2>1, <2>2 DEF Evicting
  <2>5. \A v \in reports \ reports' : v \notin erasure.doomed /\ at[v] < cutoff
    BY <2>1, AgedFacts
  <2> QED
    BY <1>2, <2>1, <2>3, <2>4, <2>5, TakingKeepsLatest
<1>6. CASE PassChoose
  <2>1. PICK S \in Evicts(reports, Latest, Min({pass.over, EvictionBatch})) :
           pass' = [pass EXCEPT !.step = "delete", !.victims = S]
    BY <1>6 DEF PassChoose
  <2>2. reports' = reports /\ (crossed => crossed') /\ (Erasing => crossed')
    BY <1>6 DEF PassChoose, tables
  <2>3. S \in SUBSET reports /\ \A v \in S, g \in Group : ~LatestOf(g, v)
    <3>1. S = {} \/ \E g \in Group : Latest[g] # None /\ S \subseteq In(g, reports) \ {Latest[g]}
      <4> DEFINE n == Min({pass.over, EvictionBatch})
      <4>1. reports \in SUBSET Event
        BY <1>1 DEF CountInv, TypeOK
      <4>2. S \in Evicts(reports, Latest, n)
        BY <2>1
      <4> HIDE DEF n
      <4> QED
        BY <4>1, <4>2, EvictsFacts
    <3>2. ASSUME NEW v \in S, NEW h \in Group, LatestOf(h, v)
          PROVE  FALSE
      <4>1. PICK g \in Group : Latest[g] # None /\ S \subseteq In(g, reports) \ {Latest[g]}
        BY <3>1, <3>2
      <4>2. v \in In(g, reports) /\ v # Latest[g] /\ GroupOf[v] = g /\ v \in Event /\ v # None
        BY <1>1, <3>2, <4>1, NoneAssumption DEF In, CountInv, TypeOK
      <4>3. group[h] # None /\ v = group[h].latest /\ h = g
        BY <3>2, <4>2 DEF LatestOf, KeptInv, LatestOwn, In
      <4> QED
        BY <4>2, <4>3 DEF Latest
    <3> QED
      BY <3>1, <3>2 DEF In
  <2>4. pass'.step = "delete" /\ pass'.victims = S
    BY <1>1, <2>1 DEF Pass
  <2>5. PassSpares'
    BY <1>4, <2>2, <2>3, <2>4 DEF PassSpares
  <2> QED
    BY <1>2, <2>2, <2>5, TakingKeepsLatest
<1>7. CASE PassDelete
  <2>1. /\ reports' = reports \ pass.victims /\ pass.victims \cap erasure.doomed = {}
        /\ crossed' = crossed /\ pass' = Resting /\ pass.step = "delete"
    BY <1>7 DEF PassDelete, history
  <2>2. PassSpares' /\ (Erasing => crossed)
    BY <1>1, <1>3, <2>1 DEF PassSpares, Evicting
  <2>3. \A v \in reports \ reports' :
              /\ v \notin erasure.doomed
              /\ crossed' \/ (~Erasing /\ \A g \in Group : ~LatestOf(g, v))
    BY <1>1, <2>1, <2>2 DEF PassSpares
  <2> QED
    BY <1>2, <2>1, <2>2, <2>3, TakingKeepsLatest
<1>8. CASE PassDies
  <2>1. reports' = reports /\ pass' = Resting /\ crossed' = crossed
    BY <1>8 DEF PassDies, tables, history
  <2>2. PassSpares' /\ (Erasing /\ Evicting' => crossed')
    BY <1>1, <1>2, <1>3, <2>1 DEF PassSpares, Evicting
  <2> QED
    BY <1>2, <2>1, <2>2, TakingKeepsLatest
<1> QED
  BY <1>5, <1>6, <1>7, <1>8

\* What makes no report, row or choice other: time, and the retention.
LEMMA RestKeepsLatest ==
    ASSUME KeptInv, CountInv', DeletedStay',
           \/ GrowOld \/ \E n \in Caps : ChangeRetention(n)
           \/ \E g \in Group, s \in State, r \in Range(releases) \cup {None} : ChangeState(g, s, r)
    PROVE  KeptInv'
<1>1. /\ UNCHANGED <<reports, at, erasure, pass, job, crossed>> /\ CountInv
  BY DEF GrowOld, ChangeRetention, ChangeState, tables, history, KeptInv
<1>2. cutoff \in Nat /\ cutoff' \in Nat /\ cutoff <= cutoff'
  <2>1. cutoff \in Nat
    BY BoundAssumption DEF KeptInv, CountInv, TypeOK
  <2>2. CASE GrowOld
    BY <2>1, <2>2 DEF GrowOld
  <2>3. CASE \E n \in Caps : ChangeRetention(n)
    BY <2>1, <2>3 DEF ChangeRetention
  <2>4. CASE \E g \in Group, s \in State, r \in Range(releases) \cup {None} : ChangeState(g, s, r)
    <3>1. PICK g \in Group, s \in State, r \in Range(releases) \cup {None} : ChangeState(g, s, r)
      BY <2>4
    <3>2. cutoff' = cutoff
      BY <3>1 DEF ChangeState
    <3> QED
      BY <2>1, <3>2
  <2> QED
    BY <2>2, <2>3, <2>4
<1>3. ASSUME NEW g \in Group
      PROVE  /\ group[g] = None <=> group'[g] = None
             /\ group[g] # None => group'[g].latest = group[g].latest
  <2>1. CASE GrowOld \/ \E n \in Caps : ChangeRetention(n)
    BY <2>1 DEF GrowOld, ChangeRetention, tables
  <2>2. CASE \E h \in Group, s \in State, r \in Range(releases) \cup {None} : ChangeState(h, s, r)
    BY <1>1, <2>2, ChangeFacts, NoneAssumption DEF CountInv
  <2> QED
    BY <2>1, <2>2
<1>4. \A g \in Group, v \in Event : LatestOf(g, v)' <=> LatestOf(g, v)
  BY <1>3 DEF LatestOf
<1>5. ASSUME NEW c \in Request
      PROVE  Spares(c)'
  <2>1. Spares(c) /\ job'[c] = job[c] /\ (\A v \in job[c].victims \cup job[c].chosen : at'[v] = at[v])
    BY <1>1 DEF KeptInv, IngestSpares
  <2>2. \A g \in Group, v \in job[c].victims \cup job[c].chosen : LatestOf(g, v)' => LatestOf(g, v)
    BY <1>1, <1>4, JobFields DEF CountInv
  <2>3. GroupHeld(c) => Own(c) \notin Repointed'
    BY <1>1, <2>1 DEF Spares, Repointed
  <2>4. crossed => crossed'
    BY <1>1
  <2> QED
    BY <1>1, <1>2, <2>1, <2>2, <2>3, <2>4, SparesKept
<1>6. Erasing /\ Evicting' => crossed'
  BY <1>1 DEF Evicting, KeptInv, ErasureSpares
<1>7. crossed => crossed'
  BY <1>1
<1> QED
  BY <1>1, <1>2, <1>3, <1>5, <1>6, <1>7, QuietKeeps

\* A step of the erasure before its end keeps the latest reports when it points
\* every group to one, and none that an ingest has locked.
LEMMA ErasingKeepsLatest ==
    ASSUME KeptInv, CountInv', DeletedStay', UNCHANGED <<group, users, reports, at, cutoff, job, pass>>,
           crossed => crossed', ErasureSpares',
           \A c \in Request : GroupHeld(c) => Own(c) \notin Repointed'
    PROVE  KeptInv'
<1>1. CountInv /\ cutoff \in Nat
  BY BoundAssumption DEF KeptInv, CountInv, TypeOK
<1>2. \A g, v : LatestOf(g, v)' <=> LatestOf(g, v)
  BY DEF LatestOf
<1>3. LatestOwn' /\ LatestKept'
  BY DEF KeptInv, LatestOwn, LatestKept, In
<1>4. PassSpares'
  BY <1>2 DEF KeptInv, PassSpares
<1>5. ASSUME NEW c \in Request
      PROVE  Spares(c)'
  <2>1. Spares(c) /\ job'[c] = job[c] /\ (\A v \in job[c].victims \cup job[c].chosen : at'[v] = at[v])
    BY DEF KeptInv, IngestSpares
  <2>2. \A g \in Group, v \in job[c].victims \cup job[c].chosen : LatestOf(g, v)' => LatestOf(g, v)
    BY <1>2
  <2>3. cutoff' \in Nat /\ cutoff <= cutoff'
    BY <1>1
  <2> QED
    BY <1>1, <2>1, <2>2, <2>3, SparesKept
<1> QED
  BY <1>3, <1>4, <1>5 DEF KeptInv, IngestSpares

LEMMA ErasureKeepsLatest ==
    ASSUME KeptInv, CountInv', DeletedStay', EraseReports \/ Repoint \/ EraseUsers \/ AbortErasure
    PROVE  KeptInv'
<1>1. /\ CountInv /\ TypeOK /\ ErasureSpares /\ (crossed => crossed')
      /\ \A c \in Request : GroupHeld(c) => Own(c) \notin Repointed
  <2>1. crossed => crossed'
    BY DEF EraseReports, Repoint, EraseUsers, AbortErasure, history
  <2> QED
    BY <2>1 DEF KeptInv, CountInv, IngestSpares, Spares
<1>2. UNCHANGED <<group, users, reports, at, cutoff, job, pass>>
  BY DEF EraseReports, Repoint, EraseUsers, AbortErasure, tables
<1>3. Evicting' <=> Evicting
  BY <1>2 DEF Evicting
<1>4. CASE EraseReports
  <2>1. /\ erasure'.step = "repoint" /\ erasure'.doomed = {e \in reports : UserOf[e] = Subject}
        /\ Repointed' = {}
    BY <1>1, <1>4, EraseReportsFacts DEF Repointed
  <2>2. Evicting => crossed'
    BY <1>4 DEF EraseReports
  <2>3. erasure'.doomed \subseteq reports'
    BY <1>2, <2>1
  <2>4. ErasureSpares'
    BY <1>3, <2>1, <2>2, <2>3 DEF ErasureSpares
  <2> QED
    BY <1>1, <1>2, <2>1, <2>4, ErasingKeepsLatest
<1>5. CASE Repoint
  <2>1. /\ erasure'.step = "users" /\ erasure'.doomed = erasure.doomed
        /\ erasure'.points = [g \in Outdated |-> Newest(In(g, reports \ erasure.doomed))]
        /\ Repointed' = Outdated /\ Outdated \in SUBSET Group
    BY <1>1, <1>5, RepointFacts DEF Repointed
  <2>2. Outdated \cap Held = {} /\ Erasing /\ erasure.step = "repoint" /\ crossed' = crossed
    BY <1>5 DEF Repoint, Erasing, history
  <2>3. \A c \in Request : GroupHeld(c) => Own(c) \notin Repointed'
    BY <2>1, <2>2 DEF Held, Own
  <2>4. ASSUME NEW g \in Outdated
        PROVE  Replaces(g, erasure.points[g])'
    <3> DEFINE left == In(g, reports \ erasure.doomed)
               p == Newest(left)
    <3>1. left \in SUBSET Event /\ left = In(g, reports) \ erasure.doomed /\ left \subseteq In(g, Event)
      BY <1>1 DEF In, TypeOK
    <3>2. (left = {} => p = None) /\ (left # {} => p \in left)
      BY <1>1, <3>1, NewestFacts
    <3>3. group[g] # None
      BY <1>1, <2>1, NoneAssumption, ErasureFacts DEF Outdated, Latest
    <3>4. erasure'.points[g] = p
      BY <2>1
    <3> HIDE DEF p
    <3>5. p \in In(g, Event) \cup {None}
      BY <3>1, <3>2
    <3>6. \/ p \in In(g, reports) \ erasure.doomed
          \/ p = None /\ In(g, reports) \subseteq erasure.doomed
      BY <3>1, <3>2
    <3> QED
      BY <1>2, <2>1, <3>3, <3>4, <3>5, <3>6 DEF Replaces, In
  <2>5. \A g \in Group \ Outdated : group[g] # None => group[g].latest \notin erasure.doomed
    BY DEF Outdated, Latest
  <2>6. ErasureSpares'
    <3>1. erasure'.doomed \subseteq reports' /\ (Erasing' /\ Evicting' => crossed')
      BY <1>1, <1>2, <1>3, <2>1, <2>2 DEF ErasureSpares
    <3>2. \A g \in Repointed' : Replaces(g, erasure.points[g])'
      BY <2>1, <2>4
    <3>3. \A g \in Group \ Repointed' : group'[g] # None => group'[g].latest \notin erasure'.doomed
      BY <1>2, <2>1, <2>5
    <3> QED
      BY <2>1, <3>1, <3>2, <3>3 DEF ErasureSpares
  <2> QED
    BY <1>1, <1>2, <2>3, <2>6, ErasingKeepsLatest
<1>6. CASE EraseUsers
  <2>1. /\ erasure'.step = "affected" /\ erasure'.doomed = erasure.doomed
        /\ erasure'.points = erasure.points /\ Repointed' = Repointed
    BY <1>1, <1>6, EraseUsersFacts DEF Repointed
  <2>2. erasure.step = "users" /\ Erasing /\ crossed' = crossed
    BY <1>6 DEF EraseUsers, Erasing, history
  <2>3. \A g \in Repointed : Replaces(g, erasure.points[g])'
    BY <1>1, <1>2, <2>1, <2>2 DEF ErasureSpares, Replaces, In
  <2>4. ErasureSpares'
    BY <1>1, <1>2, <1>3, <2>1, <2>2, <2>3 DEF ErasureSpares
  <2> QED
    BY <1>1, <1>2, <2>1, <2>4, ErasingKeepsLatest
<1>7. CASE AbortErasure
  <2>1. erasure' = Waiting /\ Waiting.step = "idle" /\ Waiting.doomed = {} /\ DOMAIN Waiting.points = {}
    BY <1>7, Rests DEF AbortErasure, Waiting
  <2>2. Repointed' = {}
    BY <2>1 DEF Repointed
  <2>3. ErasureSpares'
    BY <2>1, <2>2 DEF ErasureSpares, Erasing
  <2> QED
    BY <1>1, <1>2, <2>2, <2>3, ErasingKeepsLatest
<1> QED
  BY <1>4, <1>5, <1>6, <1>7

LEMMA FinishKeepsLatest ==
    ASSUME KeptInv, CountInv', DeletedStay', FinishErasure
    PROVE  KeptInv'
<1>1. CountInv /\ TypeOK /\ cutoff \in Nat /\ ErasureSpares /\ PassSpares /\ pass \in Pass
  BY BoundAssumption DEF KeptInv, CountInv, TypeOK
<1>2. /\ reports' = reports \ erasure.doomed /\ erasure' = [Waiting EXCEPT !.step = "done"]
      /\ pass' = PassWithout(erasure.doomed) /\ erasure.step = "affected"
      /\ UNCHANGED <<at, cutoff, job, crossed>>
  BY DEF FinishErasure, history
<1>3. /\ erasure'.step = "done" /\ erasure'.doomed = {} /\ Repointed' = {}
  BY <1>2, Rests DEF Waiting, Repointed, Erasure
<1>4. /\ pass'.step = pass.step /\ pass'.victims = pass.victims \ erasure.doomed
      /\ Evicting => crossed
  BY <1>1, <1>2, PassFacts DEF ErasureSpares, Erasing
<1>5. ErasureSpares'
  BY <1>3 DEF ErasureSpares, Erasing
<1>6. PassSpares'
  <2>1. pass.step = "delete" => crossed
    BY <1>4 DEF Evicting
  <2> QED
    BY <1>1, <1>2, <1>4, <2>1 DEF PassSpares
<1>7. ASSUME NEW c \in Request
      PROVE  Spares(c)'
  <2>1. Spares(c) /\ job'[c] = job[c] /\ (\A v \in job[c].victims \cup job[c].chosen : at'[v] = at[v])
    BY <1>2 DEF KeptInv, IngestSpares
  <2>2. job[c].step \in {"evict", "commit"} /\ job[c].over > 0 => crossed'
    BY <1>2, <1>4 DEF Evicting
  <2>3. GroupHeld(c) => Own(c) \notin Repointed'
    BY <1>3
  <2>4. cutoff' \in Nat /\ cutoff <= cutoff' /\ (crossed => crossed')
    BY <1>1, <1>2
  <2> QED
    BY <1>1, <2>1, <2>2, <2>3, <2>4, SparesKept
<1>8. ASSUME NEW g \in Group, group'[g] # None
      PROVE  LET e == group'[g].latest IN
             /\ e \in In(g, Event) \cup {None}
             /\ \/ e \in In(g, reports')
                \/ e = None /\ In(g, reports') = {}
                \/ e # None /\ at'[e] < cutoff'
                \/ crossed'
  <2>1. /\ group[g] # None
        /\ group'[g].latest = IF g \in Repointed THEN erasure.points[g] ELSE group[g].latest
    BY <1>1, <1>8, FinishFacts
  <2>2. In(g, reports') = In(g, reports) \ erasure.doomed
    BY <1>2 DEF In
  <2>3. CASE g \in Repointed
    <3> DEFINE p == erasure.points[g]
    <3>1. Replaces(g, p) /\ group'[g].latest = p
      BY <1>1, <2>1, <2>3 DEF ErasureSpares
    <3> HIDE DEF p
    <3> QED
      BY <1>2, <2>2, <3>1 DEF Replaces
  <2>4. CASE g \notin Repointed
    <3> DEFINE e == group[g].latest
    <3>1. group'[g].latest = e /\ e \in In(g, Event) \cup {None} /\ e \notin erasure.doomed
      BY <1>1, <1>2, <2>1, <2>4 DEF KeptInv, LatestOwn, ErasureSpares
    <3>2. \/ e \in In(g, reports)
          \/ e = None /\ In(g, reports) = {}
          \/ e # None /\ at[e] < cutoff
          \/ crossed
      BY <2>1 DEF KeptInv, LatestKept
    <3> HIDE DEF e
    <3> QED
      BY <1>2, <2>2, <3>1, <3>2
  <2> QED
    BY <2>3, <2>4
<1>9. LatestOwn' /\ LatestKept'
  BY <1>8 DEF LatestOwn, LatestKept, In
<1> QED
  BY <1>5, <1>6, <1>7, <1>9 DEF KeptInv, IngestSpares

LEMMA DeleteKeepsLatest ==
    ASSUME KeptInv, CountInv', DeletedStay', NEW g \in Group, DeleteGroup(g)
    PROVE  KeptInv'
<1>1. /\ CountInv /\ TypeOK /\ cutoff \in Nat /\ ErasureSpares /\ PassSpares /\ pass \in Pass
      /\ reports \in SUBSET Event /\ Repointed \in SUBSET Group
  BY BoundAssumption, ErasureFacts DEF KeptInv, CountInv, TypeOK
<1>2. /\ group' = [group EXCEPT ![g] = None]
      /\ reports' = reports \ In(g, reports) /\ pass' = PassWithout(In(g, reports))
      /\ g \notin Repointed /\ In(g, reports) \cap erasure.doomed = {}
      /\ UNCHANGED <<at, cutoff, job, erasure, crossed>>
  BY DEF DeleteGroup
<1>3. /\ group'[g] = None
      /\ \A h \in Group : h # g => group'[h] = group[h] /\ In(h, reports') = In(h, reports)
  BY <1>1, <1>2 DEF TypeOK, In
<1>4. \A h \in Group : \A v : LatestOf(h, v)' => LatestOf(h, v)
  BY <1>3 DEF LatestOf
<1>5. pass'.step = pass.step /\ pass'.victims = pass.victims \ In(g, reports)
  BY <1>1, <1>2, PassFacts
<1>6. PassSpares'
  <2>1. pass'.victims \subseteq reports' /\ (pass'.step # "delete" => pass'.victims = {})
    BY <1>1, <1>2, <1>5 DEF PassSpares
  <2>2. ~crossed' => \A v \in pass'.victims, h \in Group : ~(LatestOf(h, v)')
    BY <1>1, <1>2, <1>4, <1>5 DEF PassSpares
  <2> QED
    BY <2>1, <2>2 DEF PassSpares
<1>7. ErasureSpares'
  <2>1. Repointed' = Repointed /\ Erasing' = Erasing /\ (Evicting' <=> Evicting)
    BY <1>2, <1>5 DEF Repointed, Erasing, Evicting
  <2>2. \A h \in Repointed : Replaces(h, erasure.points[h])'
    BY <1>1, <1>2, <1>3 DEF ErasureSpares, Replaces, In
  <2>3. erasure'.doomed \subseteq reports'
    BY <1>1, <1>2 DEF ErasureSpares
  <2> QED
    BY <1>1, <1>2, <1>3, <2>1, <2>2, <2>3 DEF ErasureSpares
<1>8. ASSUME NEW c \in Request
      PROVE  Spares(c)'
  <2>1. Spares(c) /\ job'[c] = job[c] /\ (\A v \in job[c].victims \cup job[c].chosen : at'[v] = at[v])
    BY <1>2 DEF KeptInv, IngestSpares
  <2>2. \A h \in Group, v \in job[c].victims \cup job[c].chosen : LatestOf(h, v)' => LatestOf(h, v)
    BY <1>4
  <2>3. GroupHeld(c) => Own(c) \notin Repointed'
    BY <1>2, <2>1 DEF Spares, Repointed
  <2>4. cutoff' \in Nat /\ cutoff <= cutoff' /\ (crossed => crossed')
    BY <1>1, <1>2
  <2> QED
    BY <1>1, <2>1, <2>2, <2>3, <2>4, SparesKept
<1>9. LatestOwn' /\ LatestKept'
  <2>1. LatestOwn'
    BY <1>3 DEF KeptInv, LatestOwn, In
  <2>2. LatestKept'
    BY <1>2, <1>3 DEF KeptInv, LatestKept
  <2> QED
    BY <2>1, <2>2
<1> QED
  BY <1>6, <1>7, <1>8, <1>9 DEF KeptInv, IngestSpares

LEMMA CommitKeepsLatest ==
    ASSUME KeptInv, CountInv', DeletedStay', NEW c \in Request, Commit(c)
    PROVE  KeptInv'
<1> DEFINE e == job[c].event
           g == Own(c)
           W == job[c].victims
<1>1. /\ CountInv /\ TypeOK /\ cutoff \in Nat /\ ErasureSpares /\ PassSpares /\ pass \in Pass
      /\ reports \in SUBSET Event /\ Repointed \in SUBSET Group /\ erasure.doomed \in SUBSET Event
  BY BoundAssumption, ErasureFacts DEF KeptInv, CountInv, TypeOK
<1>2. /\ group' = [group EXCEPT ![g] = NewRow(c)]
      /\ reports' = (reports \cup {e}) \ W
      /\ at' = [at EXCEPT ![e] = job[c].at]
      /\ job'[c] = Idle
      /\ \A d \in Request : d # c => job'[d] = job[d] /\ ~Active(d)
      /\ pass' = PassWithout(W)
      /\ job[c].step = "commit" /\ W \cap erasure.doomed = {}
      /\ UNCHANGED <<cutoff, erasure, crossed>>
  BY <1>1, CommitFacts DEF KeptInv, DeletedStay, DeletedByIngest
<1>3. /\ NewRow(c) \in Row /\ NewRow(c).latest = e /\ NewRow(c) # None
      /\ e \in Event /\ g \in Group /\ e \notin reports /\ GroupOf[e] = g /\ e # None
  BY <1>1, <1>2, NewRowFacts, NoneAssumption DEF Own
<1>4. Spares(c) /\ g \notin Repointed /\ e \notin W
  BY <1>2 DEF KeptInv, IngestSpares, Spares, GroupHeld
<1> HIDE DEF e, g, W
<1>5. /\ group'[g] = NewRow(c)
      /\ \A h \in Group : h # g => group'[h] = group[h] /\ In(h, reports') = In(h, reports) \ W
      /\ \A v \in Event : v # e => at'[v] = at[v]
  BY <1>1, <1>2, <1>3 DEF TypeOK, In
<1>6. \A h \in Group, v \in Event : v # e => (LatestOf(h, v)' => LatestOf(h, v))
  BY <1>3, <1>5 DEF LatestOf
<1>7. pass'.step = pass.step /\ pass'.victims = pass.victims \ W
  BY <1>1, <1>2, PassFacts
<1>8. Repointed' = Repointed /\ Erasing' = Erasing /\ (Evicting' => Evicting)
  BY <1>2, <1>7 DEF Repointed, Erasing, Evicting, Idle
<1>9. \A v \in W : /\ v \in Event /\ v # e
                   /\ \/ at[v] < cutoff
                      \/ Evicting /\ \A h \in Group : h # g => ~LatestOf(h, v)
                      \/ crossed
  <2>1. W \in SUBSET Event
    BY <1>1, JobFields DEF W
  <2>2. job[c].step \in {"evict", "commit"} /\ job[c].over > 0 => Evicting
    BY DEF Evicting
  <2> QED
    BY <1>4, <2>1, <2>2 DEF Spares, W, g, e
<1>10. PassSpares'
  <2>1. pass'.victims \subseteq reports' /\ (pass'.step # "delete" => pass'.victims = {})
    BY <1>1, <1>2, <1>7 DEF PassSpares
  <2>2. ASSUME ~crossed', NEW v \in pass'.victims, NEW h \in Group
        PROVE  ~(LatestOf(h, v)')
    <3>1. v \in pass.victims /\ v \in reports /\ v # e /\ ~crossed
      BY <1>1, <1>2, <1>3, <1>7, <2>2 DEF PassSpares
    <3>2. ~LatestOf(h, v) /\ v \in Event
      BY <1>1, <3>1 DEF PassSpares
    <3> QED
      BY <1>6, <3>1, <3>2
  <2> QED
    BY <2>1, <2>2 DEF PassSpares
<1>11. ErasureSpares'
  <2>1. ASSUME NEW h \in Repointed
        PROVE  Replaces(h, erasure.points[h])'
    <3> DEFINE p == erasure.points[h]
    <3>1. Replaces(h, p) /\ h \in Group /\ h # g
      BY <1>1, <1>4 DEF ErasureSpares
    <3>2. Erasing /\ (Evicting => crossed)
      BY <1>1, ErasureFacts DEF ErasureSpares, Erasing
    <3> HIDE DEF p
    <3>3. p' = p
      BY <1>2 DEF p
    <3>4. p # None => p \in Event /\ p # e /\ at'[p] = at[p]
      BY <1>3, <1>5, <3>1 DEF Replaces, In
    <3>5. p \in In(h, reports) \ erasure.doomed =>
             p \in In(h, reports') \/ at[p] < cutoff \/ crossed
      BY <1>5, <1>9, <3>1, <3>2
    <3>6. p \in In(h, reports) => p # None
      BY <1>1, NoneAssumption DEF In
    <3>7. In(h, reports') \subseteq In(h, reports)
      BY <1>5, <3>1
    <3>8. Replaces(h, p)'
      BY <1>2, <1>5, <3>1, <3>3, <3>4, <3>5, <3>6, <3>7 DEF Replaces
    <3> QED
      BY <3>8 DEF p
  <2>2. erasure'.doomed \subseteq reports'
    BY <1>1, <1>2 DEF ErasureSpares
  <2>3. Erasing' /\ Evicting' => crossed'
    BY <1>1, <1>2, <1>8 DEF ErasureSpares
  <2>4. erasure'.step \in {"users", "affected"} =>
          \A h \in Group \ Repointed' : group'[h] # None => group'[h].latest \notin erasure'.doomed
    <3>1. e \notin erasure.doomed
      BY <1>1, <1>3 DEF ErasureSpares
    <3> QED
      BY <1>1, <1>2, <1>3, <1>5, <1>8, <3>1 DEF ErasureSpares
  <2>5. /\ erasure'.step \in {"idle", "repoint", "done"} => Repointed' = {}
        /\ erasure'.step \in {"idle", "done"} => erasure'.doomed = {}
    BY <1>1, <1>2, <1>8 DEF ErasureSpares
  <2>6. \A h \in Repointed' : Replaces(h, erasure.points[h])'
    BY <1>8, <2>1
  <2> QED
    BY <2>2, <2>3, <2>4, <2>5, <2>6 DEF ErasureSpares
<1>12. ASSUME NEW d \in Request
       PROVE  Spares(d)'
  <2>1. CASE d = c
    BY <1>2, <2>1 DEF Spares, GroupHeld, Idle
  <2>2. CASE d # c
    <3>1. job'[d] = job[d] /\ job[d].step \in {"idle", "lock"}
      BY <1>2, <2>2 DEF Active
    <3>2. job[d].victims = {} /\ job[d].chosen = {}
      BY <3>1 DEF KeptInv, IngestSpares, Spares
    <3> QED
      BY <3>1, <3>2 DEF Spares, GroupHeld
  <2> QED
    BY <2>1, <2>2
<1>13. ASSUME NEW h \in Group, group'[h] # None
       PROVE  LET l == group'[h].latest IN
              /\ l \in In(h, Event) \cup {None}
              /\ \/ l \in In(h, reports')
                 \/ l = None /\ In(h, reports') = {}
                 \/ l # None /\ at'[l] < cutoff'
                 \/ crossed'
  <2>1. CASE h = g
    <3>1. group'[h].latest = e
      BY <1>3, <1>5, <2>1
    <3>2. e \in In(h, Event) /\ e \in In(h, reports')
      BY <1>2, <1>3, <1>4, <2>1 DEF In
    <3> QED
      BY <3>1, <3>2
  <2>2. CASE h # g
    <3> DEFINE l == group[h].latest
    <3>1. group'[h] = group[h] /\ LatestOf(h, l) /\ In(h, reports') = In(h, reports) \ W
      BY <1>5, <1>13, <2>2 DEF LatestOf
    <3>2. l \in In(h, Event) \cup {None}
      BY <1>13, <3>1 DEF KeptInv, LatestOwn
    <3>3. \/ l \in In(h, reports)
          \/ l = None /\ In(h, reports) = {}
          \/ l # None /\ at[l] < cutoff
          \/ crossed
      BY <1>13, <3>1 DEF KeptInv, LatestKept
    <3>4. group'[h].latest = l
      BY <3>1
    <3> HIDE DEF l
    <3>5. l # None => at'[l] = at[l]
      BY <1>3, <1>5, <2>2, <3>2 DEF In
    <3>6. l \in In(h, reports) => l # None
      BY <1>1, NoneAssumption DEF In
    <3>7. l \in W => at[l] < cutoff \/ crossed
      BY <1>9, <2>2, <3>1, <3>2, <3>3, <3>6, NoneAssumption
    <3> QED
      BY <1>2, <3>1, <3>2, <3>3, <3>4, <3>5, <3>6, <3>7
  <2> QED
    BY <2>1, <2>2
<1>14. LatestOwn' /\ LatestKept'
  BY <1>13 DEF LatestOwn, LatestKept, In
<1> QED
  BY <1>10, <1>11, <1>12, <1>14 DEF KeptInv, IngestSpares

\* What an ingest has deleted stays until it commits or gives up, for the
\* others wait for it, and it has waited for the erasure.
LEMMA NextKeepsDeleted ==
    ASSUME CountInv, IngestSpares, DeletedStay, [Next]_vars
    PROVE  DeletedStay'
<1> SUFFICES ASSUME NEW d \in Request
             PROVE  job'[d].victims \subseteq reports' \ erasure'.doomed
  BY DEF DeletedStay, DeletedByIngest
<1>1. TypeOK /\ job[d].victims \subseteq DeletedByIngest /\ job[d].victims \subseteq reports \ erasure.doomed
  BY DEF CountInv, DeletedStay, DeletedByIngest
<1>2. CASE UNCHANGED vars
  BY <1>1, <1>2 DEF vars, tables
<1>3. ASSUME NEW c \in Request, Ingest(c), ~Commit(c)
      PROVE  job'[d].victims \subseteq reports' \ erasure'.doomed
  <2>1. UNCHANGED <<reports, erasure>>
    BY <1>3 DEF Ingest, Arrive, Read, WriteGroup, AddUser, CountReports, ChooseEvicted, DeleteChosen,
                Fail, tables
  <2>2. CASE d # c
    <3>1. job'[d] = job[d]
      BY <1>3, <2>2, ArriveFacts, ReadFacts, WriteFacts, AddFacts, CountReportsFacts,
         ChooseEvictedFacts, DeleteChosenFacts, OutFacts DEF Ingest, Fail
    <3> QED
      BY <1>1, <2>1, <3>1
  <2>3. CASE d = c
    <3>1. CASE CountReports(c)
      BY <2>1, <2>3, <3>1, CountReportsFacts, AgedFacts DEF CountReports
    <3>2. CASE DeleteChosen(c)
      BY <1>1, <2>1, <2>3, <3>2, DeleteChosenFacts DEF DeleteChosen
    <3>3. CASE ~CountReports(c) /\ ~DeleteChosen(c)
      <4>1. job'[c].victims \subseteq job[c].victims
        BY <1>3, <3>3, ArriveFacts, ReadFacts, WriteFacts, AddFacts, ChooseEvictedFacts, OutFacts
        DEF Ingest, Fail
      <4> QED
        BY <1>1, <2>1, <2>3, <4>1
    <3> QED
      BY <3>1, <3>2, <3>3
  <2> QED
    BY <2>2, <2>3
<1>4. ASSUME NEW c \in Request, Commit(c)
      PROVE  job'[d].victims \subseteq reports' \ erasure'.doomed
  <2>1. CASE d = c
    BY <1>4, <2>1, CommitFacts DEF Idle
  <2>2. CASE d # c
    <3>1. job'[d] = job[d] /\ job[d].step \in {"idle", "lock"}
      BY <1>4, <2>2, CommitFacts DEF Active
    <3> QED
      BY <3>1 DEF IngestSpares, Spares
  <2> QED
    BY <2>1, <2>2
<1>5. CASE PassCount \/ PassDelete
  BY <1>1, <1>5 DEF PassCount, PassDelete
<1>6. CASE PassChoose \/ PassDies \/ GrowOld
  BY <1>1, <1>6 DEF PassChoose, PassDies, GrowOld, tables
<1>7. CASE EraseReports
  <2>1. erasure'.doomed \cap DeletedByIngest = {}
    BY <1>1, <1>7, EraseReportsFacts DEF EraseReports
  <2> QED
    BY <1>1, <1>7, <2>1 DEF EraseReports, tables
<1>8. CASE Repoint \/ EraseUsers
  <2>1. erasure'.doomed = erasure.doomed
    BY <1>1, <1>8, RepointFacts, EraseUsersFacts
  <2> QED
    BY <1>1, <1>8, <2>1 DEF Repoint, EraseUsers, tables
<1>9. CASE AbortErasure \/ FinishErasure
  <2>1. erasure'.doomed = {}
    BY <1>9, Rests DEF AbortErasure, FinishErasure, Waiting
  <2> QED
    BY <1>1, <1>9, <2>1 DEF AbortErasure, FinishErasure, tables
<1>10. ASSUME NEW g \in Group, DeleteGroup(g)
       PROVE  job'[d].victims \subseteq reports' \ erasure'.doomed
  BY <1>1, <1>10 DEF DeleteGroup
<1>11. ASSUME NEW n \in Caps, ChangeRetention(n)
       PROVE  job'[d].victims \subseteq reports' \ erasure'.doomed
  BY <1>1, <1>11 DEF ChangeRetention
<1>12. ASSUME NEW g \in Group, NEW s \in State, NEW r \in Range(releases) \cup {None},
              ChangeState(g, s, r)
       PROVE  job'[d].victims \subseteq reports' \ erasure'.doomed
  BY <1>1, <1>12 DEF ChangeState
<1> QED
  BY <1>2, <1>3, <1>4, <1>5, <1>6, <1>7, <1>8, <1>9, <1>10, <1>11, <1>12 DEF Next

LEMMA NextKeepsLatest == KeptInv /\ [Next]_vars => KeptInv'
<1> SUFFICES ASSUME KeptInv, [Next]_vars PROVE KeptInv'
  OBVIOUS
<1>1. CountInv' /\ DeletedStay'
  BY NextKeepsCount, NextKeepsDeleted DEF KeptInv
<1>2. CASE UNCHANGED vars
  <2>1. UNCHANGED <<group, reports, at, cutoff, job, erasure, pass, crossed>>
    BY <1>2 DEF vars, tables, history
  <2>2. PassSpares'
    BY <2>1 DEF KeptInv, PassSpares, LatestOf
  <2>3. Erasing /\ Evicting' => crossed'
    BY <2>1 DEF KeptInv, ErasureSpares, Evicting
  <2> QED
    BY <1>1, <2>1, <2>2, <2>3, TakingKeepsLatest
<1>3. ASSUME NEW c \in Request, Ingest(c)
      PROVE  KeptInv'
  BY <1>1, <1>3, IngestKeepsLatest, CommitKeepsLatest
<1>4. CASE PassCount \/ PassChoose \/ PassDelete \/ PassDies
  BY <1>1, <1>4, PassKeepsLatest
<1>5. CASE \/ GrowOld \/ \E n \in Caps : ChangeRetention(n)
           \/ \E g \in Group, s \in State, r \in Range(releases) \cup {None} : ChangeState(g, s, r)
  BY <1>1, <1>5, RestKeepsLatest
<1>6. CASE EraseReports \/ Repoint \/ EraseUsers \/ AbortErasure
  BY <1>1, <1>6, ErasureKeepsLatest
<1>7. CASE FinishErasure
  BY <1>1, <1>7, FinishKeepsLatest
<1>8. ASSUME NEW g \in Group, DeleteGroup(g)
      PROVE  KeptInv'
  BY <1>1, <1>8, DeleteKeepsLatest
<1> QED
  BY <1>2, <1>3, <1>4, <1>5, <1>6, <1>7, <1>8 DEF Next

LEMMA InitLatest == Init => KeptInv
<1> SUFFICES ASSUME Init PROVE KeptInv
  OBVIOUS
<1>1. /\ group = [g \in Group |-> None] /\ reports = {} /\ job = [c \in Request |-> Idle]
      /\ pass = Resting /\ erasure = Waiting
  BY DEF Init
<1>2. /\ Idle.step = "idle" /\ Idle.victims = {} /\ Idle.chosen = {} /\ Resting.step = "idle" /\ Resting.victims = {}
      /\ Waiting.step = "idle" /\ Waiting.doomed = {} /\ Repointed = {}
  BY <1>1, Rests DEF Idle, Resting, Waiting, Repointed
<1>3. LatestOwn /\ LatestKept
  BY <1>1 DEF LatestOwn, LatestKept
<1>4. IngestSpares /\ DeletedStay
  BY <1>1, <1>2 DEF IngestSpares, Spares, GroupHeld, DeletedStay, DeletedByIngest
<1>5. PassSpares
  BY <1>1, <1>2 DEF PassSpares
<1>6. ErasureSpares
  BY <1>1, <1>2 DEF ErasureSpares, Erasing
<1> QED
  BY <1>3, <1>4, <1>5, <1>6, InitCount DEF KeptInv

LEMMA KeptInvariance == Spec => []KeptInv
BY InitLatest, NextKeepsLatest, PTL DEF Spec

\* Every group keeps its latest report, through evictions by ingests and by the
\* pass, deletions and an erasure, but for age and the crossing that is named.
THEOREM LatestReportsKept == Spec => []LatestKept
<1>1. KeptInv => LatestKept
  BY DEF KeptInv
<1> QED
  BY <1>1, KeptInvariance, PTL

-----------------------------------------------------------------------------
(* The cap.                                                                *)

\* The lesser of two numbers.
LEMMA MinFacts ==
    ASSUME NEW a \in Nat \ {0}, NEW b \in Nat \ {0}
    PROVE  Min({a, b}) \in Nat \ {0}
<1>1. \E x \in {a, b} : \A y \in {a, b} : x <= y
  <2>1. CASE a <= b
    BY <2>1
  <2>2. CASE b <= a
    BY <2>2
  <2> QED
    BY <2>1, <2>2
<1>2. Min({a, b}) \in {a, b}
  BY <1>1 DEF Min
<1> QED
  BY <1>2

\* Of some reports, the oldest are some.
LEMMA OldestExist ==
    ASSUME TypeOK, NEW S \in SUBSET Event, S # {}, NEW n \in Nat \ {0}
    PROVE  Oldest(S, n) # {}
<1> DEFINE times == {at[d] : d \in S}
<1>1. times \in SUBSET Nat /\ times # {}
  BY BoundAssumption DEF TypeOK
<1>2. PICK m \in times : \A k \in times : m <= k
  BY <1>1, LeastExists
<1>3. PICK e \in S : at[e] = m
  BY <1>2
<1>4. {d \in S : at[d] < at[e]} = {}
  BY <1>1, <1>2, <1>3
<1>5. Cardinality({d \in S : at[d] < at[e]}) < n
  BY <1>4, FS_EmptySet
<1> QED
  BY <1>5 DEF Oldest

\* A group with more than one report has one that is not the latest.
LEMMA OneMore ==
    ASSUME NEW S, IsFiniteSet(S), NEW l, Cardinality(S) > 1
    PROVE  S \ {l} # {}
<1>1. Cardinality(S) \in Nat
  BY FS_CardinalityType
<1>2. Cardinality(S \ {l}) = IF l \in S THEN Cardinality(S) - 1 ELSE Cardinality(S)
  BY FS_RemoveElement
<1>3. Cardinality(S \ {l}) # 0
  BY <1>1, <1>2
<1> QED
  BY <1>3, FS_EmptySet

\* An eviction that takes nothing finds no group with more than one report.
LEMMA NothingToEvict ==
    ASSUME TypeOK, NEW S \in SUBSET Event, IsFiniteSet(S), NEW latest, NEW n \in Nat \ {0},
           \A g \in Group : In(g, S) # {} => latest[g] # None,
           {} \in Evicts(S, latest, n)
    PROVE  \A g \in Group : Cardinality(In(g, S)) <= 1
<1> DEFINE Full == {g \in Group : Cardinality(In(g, S)) > 1}
           Fullest == {g \in Group : \A h \in Full : Cardinality(In(h, S)) <= Cardinality(In(g, S))}
           From(g) == IF latest[g] = None THEN {} ELSE In(g, S) \ {latest[g]}
<1>1. \A g \in Group : /\ In(g, S) \in SUBSET Event /\ IsFiniteSet(In(g, S))
                       /\ Cardinality(In(g, S)) \in Nat
  <2>1. \A g \in Group : In(g, S) \in SUBSET S
    BY DEF In
  <2> QED
    BY <2>1, FS_Subset, FS_CardinalityType
<1>2. CASE Full = {}
  BY <1>1, <1>2
<1>3. CASE Full # {}
  <2>1. {} \in {Oldest(From(g), n) : g \in Fullest}
    BY <1>3 DEF Evicts
  <2>2. PICK g \in Fullest : Oldest(From(g), n) = {}
    BY <2>1
  <2>3. Cardinality(In(g, S)) > 1
    BY <1>1, <1>3, <2>2
  <2>4. In(g, S) # {} /\ g \in Group
    BY <2>3, FS_EmptySet
  <2>5. From(g) # {} /\ From(g) \in SUBSET Event
    BY <1>1, <2>3, <2>4, OneMore
  <2> HIDE DEF From
  <2>6. Oldest(From(g), n) # {}
    BY <2>5, OldestExist
  <2> QED
    BY <2>2, <2>6
<1> QED
  BY <1>2, <1>3

\* A smaller set of reports has no more of them, nor of any group's.
LEMMA FewerReports ==
    ASSUME NEW S \in SUBSET Event, IsFiniteSet(S), NEW T \in SUBSET S
    PROVE  /\ Cardinality(T) \in Nat /\ Cardinality(S) \in Nat /\ Cardinality(T) <= Cardinality(S)
           /\ \A g \in Group : /\ Cardinality(In(g, S)) \in Nat /\ Cardinality(In(g, T)) \in Nat
                               /\ Cardinality(In(g, T)) <= Cardinality(In(g, S))
<1>1. IsFiniteSet(T) /\ Cardinality(T) <= Cardinality(S)
  BY FS_Subset
<1>2. Cardinality(T) \in Nat /\ Cardinality(S) \in Nat
  BY <1>1, FS_CardinalityType
<1>3. ASSUME NEW g \in Group
      PROVE  /\ Cardinality(In(g, S)) \in Nat /\ Cardinality(In(g, T)) \in Nat
             /\ Cardinality(In(g, T)) <= Cardinality(In(g, S))
  <2> DEFINE s == In(g, S)
             t == In(g, T)
  <2>1. s \in SUBSET S /\ t \in SUBSET s
    BY DEF In
  <2> HIDE DEF s, t
  <2>2. IsFiniteSet(s)
    BY <2>1, FS_Subset
  <2>3. IsFiniteSet(t) /\ Cardinality(t) <= Cardinality(s)
    BY <2>1, <2>2, FS_Subset
  <2>4. Cardinality(s) \in Nat /\ Cardinality(t) \in Nat
    BY <2>2, <2>3, FS_CardinalityType
  <2> QED
    BY <2>3, <2>4 DEF s, t
<1> QED
  BY <1>1, <1>2, <1>3

\* Without one of its members a set of reports is smaller.
LEMMA OneFewer ==
    ASSUME NEW S \in SUBSET Event, IsFiniteSet(S), NEW v \in S, NEW T \in SUBSET (S \ {v})
    PROVE  Cardinality(T) < Cardinality(S)
<1>1. IsFiniteSet(S \ {v}) /\ Cardinality(S \ {v}) = Cardinality(S) - 1
  BY FS_RemoveElement
<1>2. Cardinality(T) <= Cardinality(S \ {v}) /\ IsFiniteSet(T)
  BY <1>1, FS_Subset
<1>3. Cardinality(T) \in Nat /\ Cardinality(S) \in Nat
  BY <1>2, FS_CardinalityType
<1> QED
  BY <1>1, <1>2, <1>3

\* The reports and the new one are finite in number.
LEMMA AfterFacts ==
    ASSUME CountInv, NEW c \in Request, job[c].step # "idle"
    PROVE  /\ After(c) \in SUBSET Event /\ IsFiniteSet(After(c))
           /\ reports \in SUBSET Event /\ IsFiniteSet(reports)
<1>1. reports \in SUBSET Event /\ IsFiniteSet(reports) /\ job[c].event \in Event
  BY DEF CountInv, TypeOK, JobsKnow, Knows
<1> DEFINE more == reports \cup {job[c].event}
<1>2. IsFiniteSet(more) /\ more \in SUBSET Event
  BY <1>1, FS_AddElement
<1> HIDE DEF more
<1>3. After(c) = more \ job[c].victims
  BY DEF After, more
<1> QED
  BY <1>1, <1>2, <1>3, FS_Subset

\* Room that was made stays while reports only go: of those chosen, one that
\* went was counted.
LEMMA RoomKept ==
    ASSUME CapInv, NEW c \in Request, job'[c] = job[c], reports' \subseteq reports,
           cap' = cap \/ ~Active(c)
    PROVE  Room(c)'
<1>1. CASE job[c].step \notin {"choose", "evict", "commit"}
  BY <1>1 DEF Room
<1>2. CASE job[c].step \in {"choose", "evict", "commit"}
  <2> DEFINE A == After(c)
             B == (After(c))'
             n == cap + job[c].over
  <2>1. /\ A \in SUBSET Event /\ IsFiniteSet(A) /\ cap \in Nat /\ cap' = cap /\ job[c].over \in Nat
        /\ Room(c)
    BY <1>2, AfterFacts, JobFields, CapAssumption DEF CapInv, KeptInv, CountInv, TypeOK, Active
  <2>2. B \in SUBSET A
    BY DEF After
  <2>3. job[c].step = "evict" => /\ job[c].chosen \cap (job[c].victims \cup {job[c].event}) = {}
                                 /\ job[c].chosen = {} => Singles(A)
                                 /\ Cardinality(A) <= n
                                 /\ job[c].chosen \subseteq reports \/ Cardinality(A) < n
    BY <2>1 DEF Room
  <2>4. ASSUME job[c].step = "evict", NEW v \in job[c].chosen, v \in reports, v \notin reports'
        PROVE  B \in SUBSET (A \ {v}) /\ v \in A
    BY <2>3, <2>4 DEF After
  <2>5. /\ job[c].step = "choose" => Cardinality(A) <= n
        /\ job[c].step = "commit" => Cardinality(A) <= cap \/ Cardinality(A) < n \/ Singles(A)
    BY <2>1 DEF Room
  <2> HIDE DEF A, B
  <2>6. /\ Cardinality(A) \in Nat /\ Cardinality(B) \in Nat /\ Cardinality(B) <= Cardinality(A)
        /\ \A g \in Group : /\ Cardinality(In(g, A)) \in Nat /\ Cardinality(In(g, B)) \in Nat
                            /\ Cardinality(In(g, B)) <= Cardinality(In(g, A))
    BY <2>1, <2>2, FewerReports
  <2>7. Singles(A) => Singles(B)
    BY <2>6 DEF Singles
  <2>8. ASSUME NEW v \in A, B \in SUBSET (A \ {v})
        PROVE  Cardinality(B) < Cardinality(A)
    BY <2>1, <2>6, <2>8, OneFewer
  <2>9. job[c].step = "evict" => job[c].chosen \subseteq reports' \/ Cardinality(B) < n
    BY <2>1, <2>3, <2>4, <2>6, <2>8
  <2>10. /\ job'[c].step = "choose" => Cardinality(B) <= cap' + job'[c].over
         /\ job'[c].step = "evict" =>
              /\ job'[c].chosen \cap (job'[c].victims \cup {job'[c].event}) = {}
              /\ job'[c].chosen = {} => Singles(B)
              /\ Cardinality(B) <= cap' + job'[c].over
              /\ job'[c].chosen \subseteq reports' \/ Cardinality(B) < cap' + job'[c].over
         /\ job'[c].step = "commit" =>
              \/ Cardinality(B) <= cap'
              \/ Cardinality(B) < cap' + job'[c].over
              \/ Singles(B)
    BY <2>1, <2>3, <2>5, <2>6, <2>7, <2>9
  <2> QED
    BY <2>10 DEF Room, B, Singles, In
<1> QED
  BY <1>1, <1>2

\* What an ingest counts, chooses and deletes makes room.
LEMMA CountReportsMakesRoom ==
    ASSUME CapInv, NEW c \in Request, CountReports(c)
    PROVE  Room(c)'
<1>1. CountInv /\ job[c].event \notin reports
  BY DEF CapInv, KeptInv, CountInv, JobsKnow, Knows, Active, CountReports
<1> DEFINE total == Cardinality((reports \ Aged) \cup {job[c].event})
<1>2. /\ job'[c].event = job[c].event /\ job'[c].victims = Aged
      /\ \/ job'[c].step = "choose" /\ total = cap + job'[c].over
         \/ job'[c].step = "commit" /\ total <= cap
      /\ total \in Nat
  BY <1>1, CountReportsFacts
<1>3. UNCHANGED <<reports, cap>>
  BY DEF CountReports, tables
<1>4. (After(c))' = (reports \ Aged) \cup {job[c].event}
  BY <1>1, <1>2, <1>3, AgedFacts DEF After
<1>5. Cardinality((After(c))') = total
  BY <1>4
<1> HIDE DEF total
<1>6. /\ job'[c].step = "choose" => Cardinality((After(c))') <= cap' + job'[c].over
      /\ job'[c].step = "commit" => Cardinality((After(c))') <= cap'
      /\ job'[c].step # "evict"
  BY <1>2, <1>3, <1>5
<1> QED
  BY <1>6 DEF Room

LEMMA ChooseMakesRoom ==
    ASSUME CapInv, NEW c \in Request, ChooseEvicted(c)
    PROVE  Room(c)'
<1> DEFINE e == job[c].event
           all == (reports \ job[c].victims) \cup {e}
           latest == [Latest EXCEPT ![Own(c)] = e]
           n == Min({job[c].over, EvictionBatch})
<1>1. CountInv /\ TypeOK /\ KeptInv /\ Room(c) /\ Spares(c)
  BY DEF CapInv, KeptInv, CountInv, IngestSpares
<1>2. PICK S \in Evicts(all, latest, n) :
           /\ S \in SUBSET all
           /\ job'[c].event = e /\ job'[c].victims = job[c].victims /\ job'[c].chosen = S
           /\ job'[c].over = job[c].over
           /\ job'[c].step = "evict" /\ job[c].step = "choose"
  BY <1>1, ChooseEvictedFacts
<1>3. UNCHANGED <<reports, cap>>
  BY DEF ChooseEvicted, tables
<1>4. /\ e \in Event /\ e \notin reports /\ Own(c) \in Group /\ GroupOf[e] = Own(c) /\ e # None
      /\ e \notin job[c].victims
  BY <1>1, <1>2, NoneAssumption, EventAssumption DEF CountInv, JobsKnow, Knows, Active, Own, Spares
<1>5. S \subseteq reports \ job[c].victims /\ e \notin S
  <2>1. \A v \in S : v # e
    BY <1>1, <1>2, <1>4, ChosenNotLatest
  <2> QED
    BY <1>2, <2>1
<1>6. all = After(c) /\ all = (After(c))'
  BY <1>2, <1>3, <1>4 DEF After
<1>7. all \in SUBSET Event /\ IsFiniteSet(all)
  BY <1>1, <1>2, <1>6, AfterFacts
<1>8. Cardinality(all) <= cap + job[c].over
  BY <1>1, <1>2, <1>6 DEF Room
<1>9. ASSUME S = {}
      PROVE  Singles(all)
  <2>1. n \in Nat \ {0}
    <3>1. job[c].over \in Nat \ {0}
      BY <1>1, <1>2, JobFields DEF Spares
    <3>2. EvictionBatch \in Nat \ {0}
      BY CapAssumption
    <3> QED
      BY <3>1, <3>2, MinFacts
  <2>2. ASSUME NEW g \in Group, In(g, all) # {}
        PROVE  latest[g] # None
    <3>1. CASE g = Own(c)
      BY <1>4, <3>1 DEF Latest
    <3>2. CASE g # Own(c)
      <4>1. In(g, reports) # {} /\ latest[g] = Latest[g]
        BY <1>4, <2>2, <3>2 DEF In, Latest
      <4>2. group[g] # None
        BY <1>1, <4>1 DEF CountInv, RowsKnow
      <4>3. group[g].latest # None
        BY <4>1, <4>2 DEF CapInv, NoLatestNoReport
      <4> QED
        BY <4>1, <4>2, <4>3 DEF Latest
    <3> QED
      BY <3>1, <3>2
  <2>3. {} \in Evicts(all, latest, n)
    BY <1>2, <1>9
  <2> HIDE DEF all, latest, n
  <2> QED
    BY <1>1, <1>7, <2>1, <2>2, <2>3, NothingToEvict DEF Singles
<1> HIDE DEF all
<1>10. Singles(all) => (Singles(After(c)))'
  BY <1>6 DEF Singles, In
<1> QED
  BY <1>2, <1>3, <1>5, <1>6, <1>8, <1>9, <1>10 DEF Room

LEMMA DeleteMakesRoom ==
    ASSUME CapInv, NEW c \in Request, DeleteChosen(c)
    PROVE  Room(c)'
<1> DEFINE A == After(c)
           B == (After(c))'
           n == cap + job[c].over
<1>1. CountInv /\ Room(c)
  BY DEF CapInv, KeptInv
<1>2. /\ job'[c].event = job[c].event /\ job'[c].over = job[c].over
      /\ job'[c].victims = job[c].victims \cup (job[c].chosen \cap reports)
      /\ job'[c].step = "commit" /\ job[c].step = "evict"
  BY <1>1, DeleteChosenFacts
<1>3. UNCHANGED <<reports, cap>>
  BY DEF DeleteChosen, tables
<1>4. /\ A \in SUBSET Event /\ IsFiniteSet(A) /\ cap \in Nat /\ job[c].over \in Nat
  BY <1>1, <1>2, AfterFacts, JobFields, CapAssumption DEF CountInv, TypeOK
<1>5. B = A \ (job[c].chosen \cap reports)
  BY <1>2, <1>3 DEF After
<1>6. /\ job[c].chosen \cap (job[c].victims \cup {job[c].event}) = {}
      /\ job[c].chosen = {} => Singles(A)
      /\ Cardinality(A) <= n
      /\ job[c].chosen \subseteq reports \/ Cardinality(A) < n
  BY <1>1, <1>2 DEF Room
<1>7. ASSUME NEW v \in job[c].chosen, v \in reports
      PROVE  v \in A
  BY <1>6, <1>7 DEF After
<1> HIDE DEF A, B
<1>8. Cardinality(A) \in Nat /\ Cardinality(B) \in Nat /\ Cardinality(B) <= Cardinality(A)
  BY <1>4, <1>5, FewerReports
<1>9. job[c].chosen = {} => Singles(B)
  BY <1>5, <1>6
<1>10. ASSUME NEW v \in job[c].chosen, job[c].chosen \subseteq reports
       PROVE  Cardinality(B) < Cardinality(A)
  BY <1>4, <1>5, <1>7, <1>10, OneFewer
<1>11. Singles(B) \/ Cardinality(B) < n
  BY <1>4, <1>6, <1>8, <1>9, <1>10
<1>12. Singles(B) => (Singles(After(c)))'
  BY DEF Singles, In, B
<1> QED
  BY <1>2, <1>3, <1>11, <1>12 DEF Room, B

\* A group whose latest report is null has none: so it is when the erasure
\* points it to none, and a commit gives it a latest.
LEMMA NoLatestKept ==
    ASSUME CapInv,
           \A g \in Group : group'[g] # None =>
              \/ group'[g].latest # None
              \/ group[g] # None /\ group'[g].latest = group[g].latest,
           \A g \in Group : In(g, reports') \subseteq In(g, reports) \/ (group'[g] # None /\ group'[g].latest # None),
           \A g \in Repointed' : /\ g \in Repointed /\ g \in Group /\ erasure'.points[g] = erasure.points[g]
                                 /\ In(g, reports') \subseteq In(g, reports),
           erasure'.doomed = erasure.doomed \/ Repointed' = {}
    PROVE  NoLatestNoReport'
<1>1. ASSUME NEW g \in Group, group'[g] # None, group'[g].latest = None
      PROVE  In(g, reports') = {}
  BY <1>1 DEF CapInv, NoLatestNoReport
<1>2. ASSUME NEW g \in Repointed', erasure'.points[g] = None
      PROVE  In(g, reports') \subseteq erasure'.doomed
  BY <1>2 DEF CapInv, NoLatestNoReport
<1> QED
  BY <1>1, <1>2 DEF NoLatestNoReport, In

LEMMA NextKeepsNoLatest ==
    ASSUME CapInv, [Next]_vars
    PROVE  NoLatestNoReport'
<1>1. CountInv /\ TypeOK /\ Repointed \in SUBSET Group
  BY ErasureFacts DEF CapInv, KeptInv, CountInv
<1>2. ASSUME UNCHANGED <<group, erasure>>, reports' \subseteq reports
      PROVE  NoLatestNoReport'
  <2>1. Repointed' = Repointed /\ \A g \in Group : In(g, reports') \subseteq In(g, reports)
    BY <1>2 DEF Repointed, In
  <2> QED
    BY <1>1, <1>2, <2>1, NoLatestKept
<1>3. ASSUME UNCHANGED <<group, reports>>, Repointed' = {}
      PROVE  NoLatestNoReport'
  BY <1>3, NoLatestKept
<1>4. CASE UNCHANGED vars
  BY <1>2, <1>4 DEF vars, tables
<1>5. ASSUME NEW c \in Request, Ingest(c), ~Commit(c)
      PROVE  NoLatestNoReport'
  BY <1>2, <1>5 DEF Ingest, Arrive, Read, WriteGroup, AddUser, CountReports, ChooseEvicted, DeleteChosen,
                    Fail, tables
<1>6. ASSUME NEW c \in Request, Commit(c)
      PROVE  NoLatestNoReport'
  <2>1. /\ group' = [group EXCEPT ![Own(c)] = NewRow(c)]
        /\ reports' = (reports \cup {job[c].event}) \ job[c].victims
        /\ erasure' = erasure /\ job[c].step = "commit"
    BY <1>1, <1>6, CommitFacts
  <2>2. /\ NewRow(c).latest = job[c].event /\ job[c].event # None /\ NewRow(c) # None
        /\ GroupOf[job[c].event] = Own(c) /\ Own(c) \in Group
    BY <1>1, <2>1, NewRowFacts, RowFields, NoneAssumption DEF Own
  <2>3. Own(c) \notin Repointed
    BY <2>1 DEF CapInv, KeptInv, IngestSpares, Spares, GroupHeld
  <2>4. \A g \in Group : g # Own(c) => group'[g] = group[g] /\ In(g, reports') \subseteq In(g, reports)
    BY <1>1, <2>1, <2>2 DEF TypeOK, In
  <2>5. group'[Own(c)] = NewRow(c)
    BY <1>1, <2>1, <2>2 DEF TypeOK
  <2>6. Repointed' = Repointed
    BY <2>1 DEF Repointed
  <2> QED
    BY <1>1, <2>1, <2>2, <2>3, <2>4, <2>5, <2>6, NoLatestKept
<1>7. CASE PassCount \/ PassChoose \/ PassDelete \/ PassDies \/ GrowOld
  BY <1>2, <1>7 DEF PassCount, PassChoose, PassDelete, PassDies, GrowOld, tables
<1>8. CASE EraseReports \/ AbortErasure
  <2>1. Repointed' = {}
    BY <1>1, <1>8, EraseReportsFacts, Rests DEF AbortErasure, Repointed
  <2> QED
    BY <1>3, <1>8, <2>1 DEF EraseReports, AbortErasure, tables
<1>9. CASE Repoint
  <2>1. UNCHANGED <<group, reports>>
    BY <1>9 DEF Repoint, tables
  <2>2. /\ erasure'.doomed = erasure.doomed /\ Repointed' = Outdated
        /\ erasure'.points = [g \in Outdated |-> Newest(In(g, reports \ erasure.doomed))]
    BY <1>1, <1>9, RepointFacts DEF Repointed
  <2>3. ASSUME NEW g \in Outdated, erasure'.points[g] = None
        PROVE  In(g, reports) \subseteq erasure.doomed
    <3> DEFINE left == In(g, reports \ erasure.doomed)
    <3>1. left \in SUBSET Event
      BY <1>1 DEF In, TypeOK
    <3>2. Newest(left) = None
      BY <2>2, <2>3
    <3> HIDE DEF left
    <3>3. left = {}
      BY <1>1, <3>1, <3>2, NewestFacts, NoneAssumption
    <3> QED
      BY <3>3 DEF left, In
  <2> QED
    BY <2>1, <2>2, <2>3 DEF CapInv, NoLatestNoReport, In
<1>10. CASE EraseUsers
  <2>1. /\ erasure'.doomed = erasure.doomed /\ erasure'.points = erasure.points
        /\ UNCHANGED <<group, reports>>
    BY <1>1, <1>10, EraseUsersFacts DEF EraseUsers, tables
  <2>2. Repointed' = Repointed
    BY <2>1 DEF Repointed
  <2> QED
    BY <1>1, <2>1, <2>2, NoLatestKept
<1>11. CASE FinishErasure
  <2>1. reports' = reports \ erasure.doomed
    BY <1>11 DEF FinishErasure
  <2>2. Repointed' = {}
    BY <1>11, Rests DEF FinishErasure, Waiting, Repointed, Erasure
  <2>3. ASSUME NEW g \in Group, group'[g] # None, group'[g].latest = None
        PROVE  In(g, reports') = {}
    <3>1. /\ group[g] # None
          /\ group'[g].latest = IF g \in Repointed THEN erasure.points[g] ELSE group[g].latest
      BY <1>1, <1>11, <2>3, FinishFacts
    <3>2. In(g, reports) \subseteq erasure.doomed \/ In(g, reports) = {}
      BY <2>3, <3>1 DEF CapInv, NoLatestNoReport
    <3> QED
      BY <2>1, <3>2 DEF In
  <2> QED
    BY <2>2, <2>3 DEF NoLatestNoReport, In
<1>12. ASSUME NEW g \in Group, DeleteGroup(g)
       PROVE  NoLatestNoReport'
  <2>1. /\ group' = [group EXCEPT ![g] = None] /\ reports' \subseteq reports /\ erasure' = erasure
    BY <1>12 DEF DeleteGroup
  <2>2. /\ \A h \in Group : group'[h] # None => group'[h] = group[h] /\ group[h] # None
        /\ Repointed' = Repointed /\ \A h \in Group : In(h, reports') \subseteq In(h, reports)
    BY <1>1, <2>1 DEF TypeOK, Repointed, In
  <2> QED
    BY <1>1, <2>1, <2>2, NoLatestKept
<1>13. ASSUME NEW n \in Caps, ChangeRetention(n)
       PROVE  NoLatestNoReport'
  BY <1>2, <1>13 DEF ChangeRetention
<1>14. ASSUME NEW g \in Group, NEW s \in State, NEW r \in Range(releases) \cup {None},
              ChangeState(g, s, r)
       PROVE  NoLatestNoReport'
  <2>1. UNCHANGED <<reports, erasure>> /\ group[g] # None
    BY <1>14 DEF ChangeState
  <2>2. /\ \A h \in Group : group'[h] # None => group[h] # None /\ group'[h].latest = group[h].latest
        /\ Repointed' = Repointed
    BY <1>1, <1>14, <2>1, ChangeFacts DEF Repointed
  <2> QED
    BY <1>1, <2>1, <2>2, NoLatestKept
<1> QED
  BY <1>4, <1>5, <1>6, <1>7, <1>8, <1>9, <1>10, <1>11, <1>12, <1>13, <1>14 DEF Next

LEMMA NextKeepsCap == CapInv /\ [Next]_vars => CapInv'
<1> SUFFICES ASSUME CapInv, [Next]_vars PROVE CapInv'
  OBVIOUS
<1>1. KeptInv /\ KeptInv' /\ CountInv /\ TypeOK /\ NoLatestNoReport'
  BY NextKeepsLatest, NextKeepsNoLatest DEF CapInv, KeptInv, CountInv
<1>2. ASSUME NEW d \in Request
      PROVE  Room(d)'
  <2>1. ASSUME job' = job, reports' \subseteq reports, cap' = cap \/ ~Active(d)
        PROVE  Room(d)'
    BY <2>1, RoomKept
  <2>2. CASE UNCHANGED vars
    BY <2>1, <2>2 DEF vars, tables
  <2>3. ASSUME NEW c \in Request, Ingest(c), ~Commit(c)
        PROVE  Room(d)'
    <3>1. UNCHANGED <<reports, cap>>
      BY <2>3 DEF Ingest, Arrive, Read, WriteGroup, AddUser, CountReports, ChooseEvicted, DeleteChosen,
                  Fail, tables
    <3>2. CASE d # c
      <4>1. job'[d] = job[d]
        BY <1>1, <2>3, <3>2, ArriveFacts, ReadFacts, WriteFacts, AddFacts, CountReportsFacts,
           ChooseEvictedFacts, DeleteChosenFacts, OutFacts DEF Ingest, Fail
      <4> QED
        BY <3>1, <4>1, RoomKept
    <3>3. CASE d = c /\ (CountReports(c) \/ ChooseEvicted(c) \/ DeleteChosen(c))
      BY <3>3, CountReportsMakesRoom, ChooseMakesRoom, DeleteMakesRoom
    <3>4. CASE d = c /\ ~CountReports(c) /\ ~ChooseEvicted(c) /\ ~DeleteChosen(c)
      <4>1. job'[c].step \notin {"choose", "evict", "commit"}
        BY <1>1, <2>3, <3>4, ArriveFacts, ReadFacts, WriteFacts, AddFacts, OutFacts DEF Ingest, Fail
      <4> QED
        BY <3>4, <4>1 DEF Room
    <3> QED
      BY <3>2, <3>3, <3>4
  <2>4. ASSUME NEW c \in Request, Commit(c)
        PROVE  Room(d)'
    <3>1. job'[d].step \notin {"choose", "evict", "commit"}
      BY <1>1, <2>4, CommitFacts DEF Idle, Active
    <3> QED
      BY <3>1 DEF Room
  <2>5. CASE PassCount \/ PassChoose \/ PassDelete \/ PassDies \/ GrowOld
    BY <2>1, <2>5 DEF PassCount, PassChoose, PassDelete, PassDies, GrowOld, tables
  <2>6. CASE EraseReports \/ Repoint \/ EraseUsers \/ FinishErasure \/ AbortErasure
    BY <2>1, <2>6 DEF EraseReports, Repoint, EraseUsers, FinishErasure, AbortErasure, tables
  <2>7. ASSUME NEW g \in Group, DeleteGroup(g)
        PROVE  Room(d)'
    BY <2>1, <2>7 DEF DeleteGroup
  <2>8. ASSUME NEW n \in Caps, ChangeRetention(n)
        PROVE  Room(d)'
    <3>1. ~Active(d)
      BY <2>8 DEF ChangeRetention, Active
    <3> QED
      BY <2>1, <2>8, <3>1 DEF ChangeRetention
  <2>9. ASSUME NEW g \in Group, NEW s \in State, NEW r \in Range(releases) \cup {None},
               ChangeState(g, s, r)
        PROVE  Room(d)'
    BY <2>1, <2>9 DEF ChangeState
  <2> QED
    BY <2>2, <2>3, <2>4, <2>5, <2>6, <2>7, <2>8, <2>9 DEF Next
<1> QED
  BY <1>1, <1>2 DEF CapInv

\* Only a commit adds a report.
LEMMA OnlyCommitsAdd ==
    ASSUME [Next]_vars, \A c \in Request : ~Commit(c)
    PROVE  reports' \subseteq reports
<1>1. CASE UNCHANGED vars
  BY <1>1 DEF vars, tables
<1>2. ASSUME NEW c \in Request, Ingest(c)
      PROVE  reports' \subseteq reports
  BY <1>2 DEF Ingest, Arrive, Read, WriteGroup, AddUser, CountReports, ChooseEvicted, DeleteChosen,
              Fail, tables
<1>3. CASE PassCount \/ PassChoose \/ PassDelete \/ PassDies \/ GrowOld
  BY <1>3 DEF PassCount, PassChoose, PassDelete, PassDies, GrowOld, tables
<1>4. CASE EraseReports \/ Repoint \/ EraseUsers \/ FinishErasure \/ AbortErasure
  BY <1>4 DEF EraseReports, Repoint, EraseUsers, FinishErasure, AbortErasure, tables
<1>5. ASSUME NEW n \in Caps, ChangeRetention(n)
      PROVE  reports' \subseteq reports
  BY <1>5 DEF ChangeRetention
<1>6. ASSUME NEW g \in Group, DeleteGroup(g)
      PROVE  reports' \subseteq reports
  BY <1>6 DEF DeleteGroup
<1>7. ASSUME NEW g \in Group, NEW s \in State, NEW r \in Range(releases) \cup {None},
             ChangeState(g, s, r)
      PROVE  reports' \subseteq reports
  BY <1>7 DEF ChangeState
<1> QED
  BY <1>1, <1>2, <1>3, <1>4, <1>5, <1>6, <1>7 DEF Next

\* A step that adds reports ends within the cap, with nothing to evict, or with
\* fewer reports than its ingest counted.
LEMMA NextUnderCap ==
    ASSUME CapInv, [Next]_vars, Cardinality(reports') > Cardinality(reports)
    PROVE  \/ Cardinality(reports') <= cap
           \/ Singles(reports')
           \/ \E c \in Request : job[c].step = "commit" /\ Cardinality(reports') < cap + job[c].over
<1>1. CountInv /\ reports \in SUBSET Event /\ IsFiniteSet(reports)
  BY DEF CapInv, KeptInv, CountInv, TypeOK
<1>2. PICK c \in Request : Commit(c)
  <2>1. reports' \subseteq reports =>
           /\ Cardinality(reports') <= Cardinality(reports)
           /\ Cardinality(reports') \in Nat /\ Cardinality(reports) \in Nat
    BY <1>1, FewerReports
  <2> QED
    BY <2>1, OnlyCommitsAdd
<1>3. reports' = After(c) /\ job[c].step = "commit"
  BY <1>1, <1>2, CommitFacts DEF After
<1>4. \/ Cardinality(After(c)) <= cap
      \/ Cardinality(After(c)) < cap + job[c].over
      \/ Singles(After(c))
  BY <1>3 DEF CapInv, Room
<1> QED
  BY <1>3, <1>4

LEMMA InitCap == Init => CapInv
<1>1. Init => \A c \in Request : Room(c)
  BY DEF Init, Room, Idle
<1>2. Init => NoLatestNoReport
  BY Rests DEF Init, NoLatestNoReport, Repointed
<1> QED
  BY <1>1, <1>2, InitLatest DEF CapInv

\* The reports of a database grow beyond its cap only when every group is down
\* to its latest, or to fewer than the ingest counted: others took what it had
\* chosen to evict.
THEOREM CapHolds == Spec => UnderCap
<1>1. CapInv /\ [Next]_vars =>
        [Cardinality(reports') > Cardinality(reports) =>
         \/ Cardinality(reports') <= cap
         \/ Singles(reports')
         \/ \E c \in Request : job[c].step = "commit" /\ Cardinality(reports') < cap + job[c].over]_vars
  BY NextUnderCap
<1> QED
  BY <1>1, InitCap, NextKeepsCap, PTL DEF Spec, UnderCap
=============================================================================
