---------------------------- MODULE CrashIngest ----------------------------
(***************************************************************************)
(* One crash database of services/crashes.ts: reports are stored one       *)
(* transaction at a time under the lock of the database row, while people  *)
(* change the state of groups, delete them, the retention pass evicts and  *)
(* an erasure of a user takes its reports, all of them without that lock.  *)
(* What PostgreSQL's READ COMMITTED lets each statement see is the         *)
(* committed state when it starts, and the transaction's own writes.       *)
(***************************************************************************)
EXTENDS Naturals, Sequences, FiniteSets, FiniteSetsExt, Functions

CONSTANTS
    Event,         \* crashes of applications, by event ID
    Group,         \* their fingerprints
    GroupOf, UserOf, ReleaseOf,   \* what an event's envelope says
    NoUser,        \* UserOf of a report without a user
    Request,       \* report requests that may be in flight at once
    Caps,          \* what retention.maxReports may be set to
    EvictionBatch, \* EVICTION_BATCH
    Subject,       \* the user ID that is erased
    MaxArrivals,   \* bound: requests that arrive
    MaxChanges,    \* bound: changes of state and retention, deletions of groups
    None

Release == {ReleaseOf[e] : e \in Event}
State   == {"open", "resolved", "ignored"}
Row     == [state : State, regressed : BOOLEAN, resolvedIn : Release \cup {None},
            latest : Event \cup {None}, affected : Nat]

ASSUME NoneAssumption  == None \notin Event \cup Row /\ NoUser # Subject
ASSUME CapAssumption   == /\ Caps \cup {EvictionBatch} \subseteq Nat \ {0}
                          /\ \E n \in Caps : \A m \in Caps : m <= n
ASSUME EventAssumption == GroupOf \in [Event -> Group] /\ UserOf \in [Event -> Range(UserOf)]
ASSUME BoundAssumption == MaxArrivals \in Nat /\ MaxChanges \in Nat

VARIABLES
    group,     \* crash_groups, by fingerprint; None where there is no row
    users,     \* crash_group_users, by group
    reports,   \* the events whose report is retained
    at,        \* received_at of the report an event has, or had last
    releases,  \* crash_releases, in their order
    cap,       \* retentionCap of the database row
    clock,     \* requests that arrived: their received times, in order
    cutoff,    \* reports received before it are past the maximum age
    job,       \* where each request is in ingestCrashReport
    pass,      \* where the retention pass is
    erasure,   \* where eraseCrashReports is
    changes,   \* how many such changes were made
    resolved,  \* history: how often each group was resolved
    regressed, \* history: how often each group's regression was announced
    crossed    \* history: an eviction and an erasure overlapped

tables  == <<group, users, reports, at, releases, cap>>
history == <<resolved, regressed, crossed>>
vars == <<tables, clock, cutoff, job, pass, erasure, changes, history>>

Job     == [step : {"idle", "lock", "write", "user", "count", "choose", "evict", "commit"},
            event : Event \cup {None}, at : 0 .. MaxArrivals, read : Row \cup {None},
            added : BOOLEAN, over : Nat, chosen : SUBSET Event, victims : SUBSET Event]
Pass    == [step : {"idle", "choose", "delete"}, over : Nat, victims : SUBSET Event]
Points  == UNION {[G -> Event \cup {None}] : G \in SUBSET Group}
Erasure == [step : {"idle", "repoint", "users", "affected", "done"}, doomed : SUBSET Event,
            points : Points, drops : SUBSET Group]

Idle    == [step |-> "idle", event |-> None, at |-> 0, read |-> None,
            added |-> FALSE, over |-> 0, chosen |-> {}, victims |-> {}]
Resting == [step |-> "idle", over |-> 0, victims |-> {}]
Waiting == [step |-> "idle", doomed |-> {}, points |-> [g \in {} |-> None], drops |-> {}]

\* The tables, and what each transaction has done so far.
TypeOK ==
    /\ group \in [Group -> Row \cup {None}]
    /\ users \in [Group -> SUBSET (Range(UserOf) \ {NoUser})]
    /\ reports \in SUBSET Event /\ IsFiniteSet(reports) /\ at \in [Event -> 0 .. MaxArrivals]
    /\ releases \in Seq(Release) /\ cap \in Caps
    /\ cutoff \in 0 .. clock /\ clock \in 0 .. MaxArrivals
    /\ job \in [Request -> Job] /\ pass \in Pass /\ erasure \in Erasure
    /\ changes \in 0 .. MaxChanges
    /\ resolved \in [Group -> Nat] /\ regressed \in [Group -> Nat] /\ crossed \in BOOLEAN

Init ==
    /\ group = [g \in Group |-> None]
    /\ users = [g \in Group |-> {}]
    /\ reports = {}
    /\ at = [e \in Event |-> 0]
    /\ releases = <<>> /\ cap = Max(Caps)
    /\ clock = 0 /\ cutoff = 0 /\ changes = 0
    /\ job = [c \in Request |-> Idle]
    /\ pass = Resting
    /\ erasure = Waiting
    /\ resolved = [g \in Group |-> 0]
    /\ regressed = [g \in Group |-> 0]
    /\ crossed = FALSE

-----------------------------------------------------------------------------
\* A report of group g, among those in S.
In(g, S) == {e \in S : GroupOf[e] = g}

\* The release's order: that of its first sighting, or the next one.
OrderOf(r) ==
    IF r \in Range(releases) THEN CHOOSE n \in DOMAIN releases : releases[n] = r
    ELSE Len(releases) + 1

\* The n oldest reports of S.
Oldest(S, n) == {e \in S : Cardinality({d \in S : at[d] < at[e]}) < n}
Aged == Oldest({e \in reports : at[e] < cutoff}, EvictionBatch)

\* The group rows an ingest has locked, the reports it has deleted, and those
\* of the erasure: others wait for them.
GroupHeld(c)   == job[c].step \in {"user", "count", "choose", "evict", "commit"}
Held           == {GroupOf[job[c].event] : c \in {d \in Request : GroupHeld(d)}}
Repointed      == DOMAIN erasure.points
DeletedByIngest == UNION {job[c].victims : c \in Request}

\* The eviction's second delete, where latest[g] is the group's latest report
\* as the statement sees it: the oldest reports of a group that holds most of
\* S, without its latest. Comparing with a null latest keeps them all.
Evicts(S, latest, n) ==
    LET Full == {g \in Group : Cardinality(In(g, S)) > 1}
        Fullest == {g \in Full : \A h \in Full : Cardinality(In(h, S)) <= Cardinality(In(g, S))}
        From(g) == IF latest[g] = None THEN {} ELSE In(g, S) \ {latest[g]}
    IN  IF Full = {} THEN {{}} ELSE {Oldest(From(g), n) : g \in Fullest}

\* What was deleted is not there for the pass to delete, though the event be
\* reported again: that report is another row.
PassWithout(S) == [pass EXCEPT !.victims = @ \ S]

Latest == [g \in Group |-> IF group[g] = None THEN None ELSE group[g].latest]
Erasing == erasure.step \notin {"idle", "done"}
Evicting == \/ pass.step = "delete"
            \/ \E c \in Request : job[c].step \in {"evict", "commit"} /\ job[c].over > 0

-----------------------------------------------------------------------------
\* ingestCrashReport.
Become(c, now) == job' = [job EXCEPT ![c] = now]

\* A request arrives, for the first time or after an answer that was lost.
Arrive(c, e) ==
    /\ job[c].step = "idle"
    /\ clock < MaxArrivals
    /\ clock' = clock + 1
    /\ Become(c, [Idle EXCEPT !.step = "lock", !.event = e, !.at = clock'])
    /\ UNCHANGED <<tables, cutoff, pass, erasure, changes, history>>

\* The lock of the database row, and what is read under it: a report the
\* event already has, and the group's row, which is not locked yet.
Read(c) ==
    /\ job[c].step = "lock"
    /\ \A d \in Request : job[d].step \in {"idle", "lock"}
    /\ Become(c, IF job[c].event \in reports THEN Idle
                 ELSE [job[c] EXCEPT !.step = "write", !.read = group[GroupOf[job[c].event]]])
    /\ UNCHANGED <<tables, clock, cutoff, pass, erasure, changes, history>>

\* The insert of a new group, or the update that locks a known one; a row
\* deleted since it was read leaves the handler without a group, and it throws.
WriteGroup(c) ==
    LET e == job[c].event
        g == GroupOf[e]
    IN  /\ job[c].step = "write"
        /\ g \notin Repointed
        /\ Become(c, IF job[c].read # None /\ group[g] = None THEN Idle
                     ELSE [job[c] EXCEPT !.step = IF UserOf[e] = NoUser THEN "count" ELSE "user"])
        /\ UNCHANGED <<tables, clock, cutoff, pass, erasure, changes, history>>

AlwaysAdds(g, u) == TRUE            \* mutant: the returned rows are not looked at
Adds(g, u)       == u \notin users[g]

\* The association, on conflict do nothing: it waits for an erasure that has
\* deleted it, and sees the user when there is one.
AddUser(c) ==
    LET g == GroupOf[job[c].event] IN
    /\ job[c].step = "user"
    /\ ~(g \in erasure.drops /\ UserOf[job[c].event] = Subject)
    /\ Become(c, [job[c] EXCEPT !.step = "count", !.added = Adds(g, UserOf[job[c].event])])
    /\ UNCHANGED <<tables, clock, cutoff, pass, erasure, changes, history>>

CountsBefore(S, e) == Cardinality(S)       \* mutant: the new report is not counted
CountsWith(S, e)   == Cardinality(S \cup {e})

\* The first half of evictOverCap: reports past the maximum age, and the total.
CountReports(c) ==
    LET e     == job[c].event
        total == CountsWith(reports \ Aged, e)
    IN  /\ job[c].step = "count"
        /\ Aged \cap erasure.doomed = {}
        /\ Become(c, [job[c] EXCEPT !.victims = Aged,
                          !.step = IF total > cap THEN "choose" ELSE "commit",
                          !.over = IF total > cap THEN total - cap ELSE 0])
        /\ UNCHANGED <<tables, clock, cutoff, pass, erasure, changes, history>>

\* The second half, with the new report as its group's latest: the statement
\* chooses among the reports it sees when it starts, and locks none yet.
ChooseEvicted(c) ==
    LET e == job[c].event IN
    /\ job[c].step = "choose"
    /\ \E S \in Evicts((reports \ job[c].victims) \cup {e}, [Latest EXCEPT ![GroupOf[e]] = e],
                        Min({job[c].over, EvictionBatch})) :
          Become(c, [job[c] EXCEPT !.step = "evict", !.chosen = S])
    /\ crossed' = (crossed \/ Erasing)
    /\ UNCHANGED <<tables, clock, cutoff, pass, erasure, changes, resolved, regressed>>

\* It waits for what an erasure is deleting of them, and skips what the pass,
\* an erasure or the deletion of a group took first.
DeleteChosen(c) ==
    /\ job[c].step = "evict"
    /\ job[c].chosen \cap erasure.doomed = {}
    /\ Become(c, [job[c] EXCEPT !.step = "commit", !.chosen = {},
                                !.victims = @ \cup (job[c].chosen \cap reports)])
    /\ UNCHANGED <<tables, clock, cutoff, pass, erasure, changes, history>>

\* CR-028: the report is of a later release than the one it was resolved in.
Regresses(row, r) ==
    row.state = "resolved" /\ (row.resolvedIn = None \/ OrderOf(r) > OrderOf(row.resolvedIn))
KeepsState(row, e, read, added) ==   \* mutant: the state is not set
    [row EXCEPT !.latest = e, !.affected = @ + added]

\* The group's row as the transaction leaves it: the state is written as it was
\* read, the number of users counts on from what the row holds.
Counted(row, e, read, added) ==
    LET back == Regresses(read, ReleaseOf[e]) IN
    [row EXCEPT !.latest = e, !.affected = @ + added,
                !.state = IF back THEN "open" ELSE read.state,
                !.regressed = back \/ read.regressed]
Opened(e, added) ==
    [state |-> "open", regressed |-> FALSE, resolvedIn |-> None, latest |-> e, affected |-> added]

\* The transaction commits.
Commit(c) ==
    LET e     == job[c].event
        g     == GroupOf[e]
        read  == job[c].read
        added == IF job[c].added THEN 1 ELSE 0
    IN  /\ job[c].step = "commit"
        /\ group' = [group EXCEPT ![g] = IF read = None THEN Opened(e, added)
                                                       ELSE Counted(@, e, read, added)]
        /\ users' = IF job[c].added THEN [users EXCEPT ![g] = @ \cup {UserOf[e]}] ELSE users
        /\ reports' = (reports \cup {e}) \ job[c].victims
        /\ at' = [at EXCEPT ![e] = job[c].at]
        /\ releases' = IF ReleaseOf[e] \in Range(releases) THEN releases
                       ELSE Append(releases, ReleaseOf[e])
        /\ regressed' = IF read # None /\ Regresses(read, ReleaseOf[e])
                        THEN [regressed EXCEPT ![g] = @ + 1] ELSE regressed
        /\ Become(c, Idle)
        /\ pass' = PassWithout(job[c].victims)
        /\ UNCHANGED <<cap, clock, cutoff, erasure, changes, resolved, crossed>>

\* The process dies, a statement throws, or PostgreSQL breaks a deadlock with
\* this transaction: it is rolled back, and the client may send it again.
Fail(c) ==
    /\ job[c].step # "idle"
    /\ Become(c, Idle)
    /\ UNCHANGED <<tables, clock, cutoff, pass, erasure, changes, history>>

-----------------------------------------------------------------------------
\* runCrashRetentionPass: evictOverCap, every statement on its own.
PassCount ==
    LET kept == reports \ Aged IN
    /\ pass.step = "idle"
    /\ Aged \cap (erasure.doomed \cup DeletedByIngest) = {}
    /\ reports' = kept
    /\ pass' = IF Cardinality(kept) > cap
               THEN [Resting EXCEPT !.step = "choose", !.over = Cardinality(kept) - cap]
               ELSE Resting
    /\ UNCHANGED <<group, users, at, releases, cap, clock, cutoff, job, erasure, changes, history>>

PassChoose ==
    /\ pass.step = "choose"
    /\ \E S \in Evicts(reports, Latest, Min({pass.over, EvictionBatch})) :
          pass' = [pass EXCEPT !.step = "delete", !.victims = S]
    /\ crossed' = (crossed \/ Erasing)
    /\ UNCHANGED <<tables, clock, cutoff, job, erasure, changes, resolved, regressed>>

PassDelete ==
    /\ pass.step = "delete"
    /\ pass.victims \cap (erasure.doomed \cup DeletedByIngest) = {}
    /\ reports' = reports \ pass.victims
    /\ pass' = Resting
    /\ UNCHANGED <<group, users, at, releases, cap, clock, cutoff, job, erasure, changes, history>>

PassDies ==
    /\ pass.step # "idle"
    /\ pass' = Resting
    /\ UNCHANGED <<tables, clock, cutoff, job, erasure, changes, history>>

\* A report comes to the maximum age.
GrowOld ==
    /\ cutoff < clock
    /\ cutoff' = cutoff + 1
    /\ UNCHANGED <<tables, clock, job, pass, erasure, changes, history>>

-----------------------------------------------------------------------------
\* eraseCrashReports for a user ID, statement by statement.
EraseReports ==
    LET doomed == {e \in reports : UserOf[e] = Subject} IN
    /\ erasure.step = "idle"
    /\ doomed \cap DeletedByIngest = {}
    /\ erasure' = [Waiting EXCEPT !.step = "repoint", !.doomed = doomed]
    /\ crossed' = (crossed \/ Evicting)
    /\ UNCHANGED <<tables, clock, cutoff, job, pass, changes, resolved, regressed>>

Newest(S) == IF S = {} THEN None ELSE CHOOSE e \in S : \A d \in S : at[d] <= at[e]
NoneOutdated == {}                 \* mutant: latest reports are not looked at
Outdated  == {g \in Group : Latest[g] \in erasure.doomed}

Repoint ==
    /\ erasure.step = "repoint"
    /\ Outdated \cap Held = {}
    /\ erasure' = [erasure EXCEPT !.step = "users",
          !.points = [g \in Outdated |-> Newest(In(g, reports \ erasure.doomed))]]
    /\ UNCHANGED <<tables, clock, cutoff, job, pass, changes, history>>

EraseUsers ==
    /\ erasure.step = "users"
    /\ erasure' = [erasure EXCEPT !.step = "affected",
                                  !.drops = {g \in Group : Subject \in users[g]}]
    /\ UNCHANGED <<tables, clock, cutoff, job, pass, changes, history>>

FewerUsers(g, row) == IF g \in erasure.drops /\ row.affected > 0
                      THEN [row EXCEPT !.affected = @ - 1] ELSE row

\* The update of the groups, and the commit.
FinishErasure ==
    /\ erasure.step = "affected"
    /\ erasure.drops \cap Held = {}
    /\ group' = [g \in Group |->
          IF group[g] = None THEN None
          ELSE FewerUsers(g, IF g \in Repointed
                             THEN [group[g] EXCEPT !.latest = erasure.points[g]] ELSE group[g])]
    /\ users' = [g \in Group |-> IF g \in erasure.drops THEN users[g] \ {Subject} ELSE users[g]]
    /\ reports' = reports \ erasure.doomed
    /\ erasure' = [Waiting EXCEPT !.step = "done"]
    /\ pass' = PassWithout(erasure.doomed)
    /\ UNCHANGED <<at, releases, cap, clock, cutoff, job, changes, history>>

\* It fails, or loses a deadlock: rolled back, to be tried again.
AbortErasure ==
    /\ Erasing
    /\ erasure' = Waiting
    /\ UNCHANGED <<tables, clock, cutoff, job, pass, changes, history>>

-----------------------------------------------------------------------------
\* changeState: one update, which sets the row whatever it was. It waits for
\* who holds the row, and not for an ingest that has only read it.
ChangeState(g, state, release) ==
    /\ group[g] # None
    /\ g \notin Held \cup Repointed
    /\ changes < MaxChanges
    /\ changes' = changes + 1
    /\ group' = [group EXCEPT ![g].state = state,
          ![g].resolvedIn = IF state = "resolved" THEN release ELSE None,
          ![g].regressed = state # "resolved" /\ @]
    /\ resolved' = IF state = "resolved" THEN [resolved EXCEPT ![g] = @ + 1] ELSE resolved
    /\ UNCHANGED <<users, reports, at, releases, cap, clock, cutoff, job, pass, erasure, regressed, crossed>>

\* The delete of a group cascades to its reports and users.
DeleteGroup(g) ==
    /\ group[g] # None
    /\ g \notin Held \cup Repointed \cup erasure.drops
    /\ In(g, reports) \cap (erasure.doomed \cup DeletedByIngest) = {}
    /\ changes < MaxChanges
    /\ changes' = changes + 1
    /\ group' = [group EXCEPT ![g] = None]
    /\ users' = [users EXCEPT ![g] = {}]
    /\ reports' = reports \ In(g, reports)
    /\ resolved' = [resolved EXCEPT ![g] = 0]
    /\ regressed' = [regressed EXCEPT ![g] = 0]
    /\ pass' = PassWithout(In(g, reports))
    /\ UNCHANGED <<at, releases, cap, clock, cutoff, job, erasure, crossed>>

\* The retention setting; its update waits for the ingest that holds the row.
ChangeRetention(n) ==
    /\ \A c \in Request : job[c].step \in {"idle", "lock"}
    /\ n # cap
    /\ changes < MaxChanges
    /\ changes' = changes + 1
    /\ cap' = n
    /\ UNCHANGED <<group, users, reports, at, releases, clock, cutoff, job, pass, erasure, history>>

Ingest(c) ==
    \/ \E e \in Event : Arrive(c, e)
    \/ Read(c) \/ WriteGroup(c) \/ AddUser(c) \/ CountReports(c) \/ ChooseEvicted(c)
    \/ DeleteChosen(c) \/ Commit(c) \/ Fail(c)

Next ==
    \/ \E c \in Request : Ingest(c)
    \/ PassCount \/ PassChoose \/ PassDelete \/ PassDies \/ GrowOld
    \/ EraseReports \/ Repoint \/ EraseUsers \/ FinishErasure \/ AbortErasure
    \/ \E n \in Caps : ChangeRetention(n)
    \/ \E g \in Group : \/ DeleteGroup(g)
                        \/ \E s \in State, r \in Range(releases) \cup {None} : ChangeState(g, s, r)

Spec == Init /\ [][Next]_vars

-----------------------------------------------------------------------------
\* A group's affected users are those of its reports and no others counted
\* twice (CR-024): reports, duplicates, evictions and an erasure that crosses
\* them keep the number that of the associations, and nobody but the erased
\* user loses one while a report names them.
AffectedUsersTrue ==
    \A g \in Group : group[g] # None =>
        /\ group[g].affected = Cardinality(users[g])
        /\ \A e \in In(g, reports) : UserOf[e] \in users[g] \cup {NoUser, Subject}

\* A regression is announced once until the group is resolved again (CR-028),
\* whoever changes its state while reports come in.
RegressedOnce == \A g \in Group : regressed[g] <= resolved[g]

\* Every group keeps its latest report (CR-080) unless age takes it, or an
\* eviction that saw another report as the latest crossed an erasure.
LatestKept ==
    \A g \in Group : group[g] # None =>
        LET e == group[g].latest IN
        \/ e \in In(g, reports)
        \/ e = None /\ In(g, reports) = {}
        \/ e # None /\ at[e] < cutoff
        \/ crossed

\* Why: one ingest at a time is past the lock, of an event without a report,
\* and nobody takes from its group what it has read there or added to it; a
\* group without a row has nothing; the erased user is of the groups that are
\* to count one less.
Active(c) == job[c].step \notin {"idle", "lock"}
Own(c)    == GroupOf[job[c].event]

OneActive == \A c, d \in Request : Active(c) /\ Active(d) => c = d

Knows(c) ==
    /\ job[c].step # "idle" => job[c].event \in Event
    /\ Active(c) => job[c].event \notin reports /\ (job[c].read = None => group[Own(c)] = None)
    /\ GroupHeld(c) /\ job[c].read # None => group[Own(c)] # None
    /\ job[c].step \in {"idle", "lock", "write", "user"} => ~job[c].added
    /\ job[c].step = "user" => UserOf[job[c].event] # NoUser
    /\ job[c].step \in {"count", "choose", "evict", "commit"} =>
          job[c].added = (UserOf[job[c].event] \notin users[Own(c)] \cup {NoUser})

JobsKnow == \A c \in Request : Knows(c)

RowsKnow ==
    \A g \in Group : /\ IsFiniteSet(users[g])
                     /\ group[g] = None => users[g] = {} /\ In(g, reports) = {}
                     /\ g \in erasure.drops => Subject \in users[g]

CountInv == TypeOK /\ OneActive /\ JobsKnow /\ RowsKnow /\ AffectedUsersTrue

\* Why a regression is announced once: a group resolved, or read as resolved
\* by an ingest, has an announcement to come.
ToAnnounce ==
    /\ \A g \in Group : group[g] # None /\ group[g].state = "resolved" => regressed[g] < resolved[g]
    /\ \A c \in Request :
          /\ Active(c) /\ job[c].read # None /\ group[Own(c)] # None
          /\ job[c].read.state = "resolved"
          => regressed[Own(c)] < resolved[Own(c)]

RegressInv == CountInv /\ ToAnnounce /\ RegressedOnce

\* Why the latest reports stay: a delete takes reports past the maximum age,
\* or reports that are the latest of no group, and what an erasure is to take
\* is the latest report of no group it does not repoint; a repointed group is
\* not reported to before the erasure ends.
LatestOf(g, e) == group[g] # None /\ group[g].latest = e

LatestOwn == \A g \in Group : group[g] # None => group[g].latest \in In(g, Event) \cup {None}

Spares(c) ==
    /\ job[c].step \notin {"choose", "evict", "commit"} => job[c].victims = {}
    /\ job[c].step # "evict" => job[c].chosen = {}
    /\ job[c].step \in {"choose", "evict"} => job[c].over > 0
    /\ \A v \in job[c].victims \cup job[c].chosen :
          /\ v # job[c].event
          /\ \/ at[v] < cutoff
             \/ /\ job[c].step \in {"evict", "commit"} /\ job[c].over > 0
                /\ \A g \in Group : ~LatestOf(g, v) \/ g = Own(c)
             \/ crossed
    /\ GroupHeld(c) => Own(c) \notin Repointed

IngestSpares == \A c \in Request : Spares(c)

DeletedStay == DeletedByIngest \subseteq reports \ erasure.doomed

PassSpares ==
    /\ pass.step # "delete" => pass.victims = {}
    /\ pass.victims \subseteq reports
    /\ ~crossed => \A v \in pass.victims, g \in Group : ~LatestOf(g, v)

Replaces(g, p) ==
    /\ group[g] # None /\ p \in In(g, Event) \cup {None}
    /\ \/ p \in In(g, reports) \ erasure.doomed
       \/ p = None /\ In(g, reports) \subseteq erasure.doomed
       \/ p # None /\ at[p] < cutoff
       \/ crossed

ErasureSpares ==
    /\ erasure.doomed \subseteq reports
    /\ Erasing /\ Evicting => crossed
    /\ erasure.step \in {"idle", "repoint", "done"} => Repointed = {}
    /\ erasure.step \in {"idle", "done"} => erasure.doomed = {}
    /\ \A g \in Repointed : Replaces(g, erasure.points[g])
    /\ erasure.step \in {"users", "affected"} =>
          \A g \in Group \ Repointed : group[g] # None => group[g].latest \notin erasure.doomed

KeptInv == /\ CountInv /\ LatestOwn /\ IngestSpares /\ DeletedStay
           /\ PassSpares /\ ErasureSpares /\ LatestKept

\* Why the cap holds: an ingest that counted more has chosen reports to take
\* away, unless there were none to take; what was taken before it came to them
\* is no longer of those it counted.
After(c) == (reports \cup {job[c].event}) \ job[c].victims

Singles(S) == \A g \in Group : Cardinality(In(g, S)) <= 1

NoLatestNoReport ==
    /\ \A g \in Group : group[g] # None /\ group[g].latest = None => In(g, reports) = {}
    /\ \A g \in Repointed : erasure.points[g] = None => In(g, reports) \subseteq erasure.doomed

Room(c) ==
    /\ job[c].step = "choose" => Cardinality(After(c)) <= cap + job[c].over
    /\ job[c].step = "evict" =>
          /\ job[c].chosen \cap (job[c].victims \cup {job[c].event}) = {}
          /\ job[c].chosen = {} => Singles(After(c))
          /\ Cardinality(After(c)) <= cap + job[c].over
          /\ job[c].chosen \subseteq reports \/ Cardinality(After(c)) < cap + job[c].over
    /\ job[c].step = "commit" =>
          \/ Cardinality(After(c)) <= cap
          \/ Cardinality(After(c)) < cap + job[c].over
          \/ Singles(After(c))

CapInv == KeptInv /\ NoLatestNoReport /\ \A c \in Request : Room(c)

\* A database never grows beyond its cap (CR-080) but for the latest reports
\* of its groups, or when others took what an ingest had chosen to evict: then
\* fewer are left, its own included, than it counted.
UnderCap ==
    [][Cardinality(reports') > Cardinality(reports) =>
         \/ Cardinality(reports') <= cap
         \/ Singles(reports')
         \/ \E c \in Request : job[c].step = "commit" /\ Cardinality(reports') < cap + job[c].over]_vars

\* What a person set a group to holds until they change it or a later release
\* regresses it. It fails: an ingest that read the row before the change and
\* updates it afterwards puts the old state back (crashes.ts 214 and 233).
StateHolds ==
    [][\A g \in Group :
         /\ group[g] # None /\ group'[g] # None
         /\ group[g].state # group'[g].state
         => changes' # changes \/ regressed'[g] > regressed[g]]_vars
=============================================================================
