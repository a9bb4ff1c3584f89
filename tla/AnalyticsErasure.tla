--------------------------- MODULE AnalyticsErasure ---------------------------
(***************************************************************************)
(* Erasing an installation or a user from an analytics database: the       *)
(* request, the worker pass that deletes in the event store, and the       *)
(* ingest that goes on meanwhile.                                          *)
(*                                                                         *)
(* The event store deletes by mutations: submitted at once, applied later, *)
(* and only to the rows that were there when they were submitted.  A row   *)
(* deleted that way is masked, and stays in a file until a merge.          *)
(***************************************************************************)
EXTENDS Naturals, FiniteSets

CONSTANTS
    Batch,           \* inserts in flight
    Event, Installation, User, Erasure,
    Nobody,                   \* the user of an event that has none
    InstallationOf, UserOf,   \* the installation and the user of an event
    Subjects,        \* the installations and users erasures are asked for
    MaxClock,        \* bound: received times handed out
    MaxFaults,       \* bound: failed passes, restarts and outages
    Unknown          \* not cached

Shape ==
    /\ InstallationOf \in [Event -> Installation] /\ UserOf \in [Event -> User \cup {Nobody}] /\ Event # {}
    /\ Subjects \subseteq Installation \cup User /\ Subjects # {}
    /\ MaxClock \in Nat /\ MaxFaults \in Nat
    /\ Installation \cap User = {} /\ Nobody \notin Installation \cup User /\ \A xs \in SUBSET Erasure : xs # Unknown

ASSUME ShapeAssumption == Shape

VARIABLES
    events,     \* rows of `events` that are not masked
    records,    \* rows the installation-scoped states were derived from
    links,      \* rows `installation_users` was derived from
    files,      \* masked rows some file still carries, <<table, row>>
    mutations,  \* deletes submitted and not yet applied, [table, rows]
    targets,    \* erasure -> what its deletes name in the event store
    erasure,    \* erasure -> its row in analytics_pending_erasures and its request
    skip,       \* the cached read skip: erasures hidden from reads, or Unknown
    batch,      \* batch -> the insert it carries
    pass,       \* the pass over pending erasures
    clock, faults,
    stored,      \* ghost: rows a client was told are stored
    mistargeted  \* ghost: erasures resolved again, otherwise, after their targets were written

erasureVars == <<events, records, links, files, mutations, targets, erasure, skip, batch, pass,
          clock, faults, stored, mistargeted>>
ghosts == <<stored, mistargeted>>
tables == <<events, records, links>>

Time == 0 .. MaxClock
Row == [ev : Event, received : Time]
Table == {"events", "records", "links"}
NoTargets == [held |-> FALSE, insts |-> {}, shared |-> {}]
Rest == [pc |-> "idle", ev |-> CHOOSE e \in Event : TRUE, received |-> 0, replay |-> FALSE,
         left |-> {}, overlaps |-> FALSE]
Asleep == [pc |-> "idle", claimed |-> {}, rows |-> {}, insts |-> [x \in Erasure |-> {}], decided |-> "wait"]

ErasureTypeOK ==
    /\ events \subseteq Row /\ records \subseteq Row /\ links \subseteq Row /\ stored \subseteq Row
    /\ files \subseteq Table \X Row
    /\ mutations \subseteq [table : Table, rows : SUBSET Row]
    /\ targets \in [Erasure -> [held : BOOLEAN, insts : SUBSET Installation, shared : SUBSET Installation]]
    /\ erasure \in [Erasure ->
          [status : {"none", "asked", "reached", "pending", "deleted", "gone"},
           subject : Subjects, at : Time, insts : SUBSET Installation, resolved : BOOLEAN,
           submitted : BOOLEAN, answered : BOOLEAN]]
    /\ skip = Unknown \/ skip \subseteq Erasure
    /\ batch \in [Batch -> [pc : {"idle", "lookup", "insert"}, ev : Event, received : Time,
                            replay : BOOLEAN, left : SUBSET {"events", "states"}, overlaps : BOOLEAN]]
    /\ pass \in [pc : {"idle", "count", "replay", "write", "commit", "drop"}, claimed : SUBSET Erasure,
                   rows : SUBSET Row, insts : [Erasure -> SUBSET Installation],
                   decided : {"wait", "deletes", "states", "done"}]
    /\ clock \in Time /\ faults \in 0 .. MaxFaults /\ mistargeted \subseteq Erasure

-----------------------------------------------------------------------------
(* What an erasure covers                                                    *)

(* Mutant: the worker claims only erasures whose deletes are not done. *)
PendingOnly == {x \in Erasure : erasure[x].status = "pending"}

Unfinished == {x \in Erasure : erasure[x].status \in {"pending", "deleted"}}
Active == {x \in Erasure : erasure[x].status = "pending"}
Working == pass.claimed \cap Active

(* The condition the event deletes and the reads' skip share. *)
Carries(x, insts, row) == \/ InstallationOf[row.ev] \in insts
                          \/ UserOf[row.ev] = erasure[x].subject
Covers(x, row) == Carries(x, erasure[x].insts, row) /\ row.received < erasure[x].at

(* The erasures a read skips, from the cache or read afresh. *)
SkipNow == IF skip = Unknown THEN Active ELSE skip
Hidden(row, xs) == \E x \in xs : Covers(x, row)

(* An event of nobody links its installation to no user. *)
LinkedUsers(i) == {UserOf[r.ev] : r \in {s \in links : InstallationOf[s.ev] = i}} \ {Nobody}

(* Mutant: an ID is taken for an installation's. *)
Unresolved(s) == {s}

(* The installations on which a user is the only one ever seen. *)
Resolved(s) == IF s \in Installation THEN {s} ELSE {i \in Installation : LinkedUsers(i) = {s}}

-----------------------------------------------------------------------------
ErasureInit ==
    /\ events = {} /\ records = {} /\ links = {} /\ files = {} /\ mutations = {}
    /\ targets = [x \in Erasure |-> NoTargets]
    /\ erasure = [x \in Erasure |-> [status |-> "none", subject |-> CHOOSE s \in Subjects : TRUE,
                     at |-> 0, insts |-> {}, resolved |-> FALSE, submitted |-> FALSE, answered |-> FALSE]]
    /\ skip = Unknown
    /\ batch = [b \in Batch |-> Rest]
    /\ pass = Asleep
    /\ clock = 0 /\ faults = 0 /\ stored = {} /\ mistargeted = {}

-----------------------------------------------------------------------------
(* Ingest, as far as an erasure can meet it                                  *)

Stamp(b) ==
    /\ batch[b].pc = "idle" /\ clock < MaxClock
    /\ clock' = clock + 1
    /\ \E e \in Event : batch' = [batch EXCEPT ![b] = [Rest EXCEPT !.pc = "lookup", !.ev = e, !.received = clock + 1]]
    /\ UNCHANGED <<tables, files, mutations, targets, erasure, skip, pass, faults, ghosts>>

(* An event already stored is sent again as a replay, with its stored time. *)
Lookup(b) ==
    LET copies == {r \in events : r.ev = batch[b].ev}
    IN  /\ batch[b].pc = "lookup"
        /\ \/ /\ copies = {}
              /\ batch' = [batch EXCEPT ![b].pc = "insert", ![b].left = {"events", "states"}]
           \/ \E r \in copies :
                 batch' = [batch EXCEPT ![b].pc = "insert", ![b].left = {"states"},
                                        ![b].received = r.received, ![b].replay = TRUE]
        /\ UNCHANGED <<tables, files, mutations, targets, erasure, skip, pass, clock, faults, ghosts>>

RowOf(b) == [ev |-> batch[b].ev, received |-> batch[b].received]

(* The view that writes `events` and those that write the states commit one   *)
(* after the other, in no given order; then the client is answered.           *)
Land(b) ==
    /\ batch[b].pc = "insert"
    /\ \E t \in batch[b].left :
          /\ events'  = IF t = "events" THEN events \cup {RowOf(b)}  ELSE events
          /\ records' = IF t = "states" THEN records \cup {RowOf(b)} ELSE records
          /\ links'   = IF t = "states" THEN links \cup {RowOf(b)}   ELSE links
          /\ IF batch[b].left = {t}
             THEN batch' = [batch EXCEPT ![b] = Rest] /\ stored' = stored \cup {RowOf(b)}
             ELSE batch' = [batch EXCEPT ![b].left = @ \ {t}] /\ UNCHANGED stored
    /\ UNCHANGED <<files, mutations, targets, erasure, skip, pass, clock, faults, mistargeted>>

-----------------------------------------------------------------------------
(* The request                                                               *)

(* Its time comes from the clock rows are stamped with. *)
Ask(x) ==
    /\ erasure[x].status = "none" /\ clock < MaxClock
    /\ clock' = clock + 1
    /\ \E s \in Subjects :
          erasure' = [erasure EXCEPT ![x].status = "asked", ![x].subject = s, ![x].at = clock + 1]
    /\ UNCHANGED <<tables, files, mutations, targets, skip, batch, pass, faults, ghosts>>

(* Which installations go with it; an event store that does not answer leaves *)
(* a user's to the worker, the erasure recorded as deferred.                  *)
Reach(x) ==
    /\ erasure[x].status = "asked"
    /\ \/ /\ erasure' = [erasure EXCEPT ![x].status = "reached", ![x].resolved = TRUE,
                                        ![x].insts = Resolved(erasure[x].subject)]
          /\ UNCHANGED faults
       \/ /\ faults < MaxFaults
          /\ faults' = faults + 1
          /\ erasure' = [erasure EXCEPT ![x].status = "reached",
                            ![x].resolved = erasure[x].subject \in Installation,
                            ![x].insts = {erasure[x].subject} \cap Installation]
    /\ UNCHANGED <<tables, files, mutations, targets, skip, batch, pass, clock, ghosts>>

Record(x) ==
    /\ erasure[x].status = "reached"
    /\ erasure' = [erasure EXCEPT ![x].status = "pending"]
    /\ UNCHANGED <<tables, files, mutations, targets, skip, batch, pass, clock, faults, ghosts>>

(* Mutant: the cached skip is left to expire. *)
AnswerKeepsSkip(x) ==
    /\ erasure[x].status \in {"pending", "deleted", "gone"} /\ ~erasure[x].answered
    /\ erasure' = [erasure EXCEPT ![x].answered = TRUE]
    /\ UNCHANGED <<tables, files, mutations, targets, skip, batch, pass, clock, faults, ghosts>>

(* The transaction has committed: from here every read skips the rows. *)
Answer(x) ==
    /\ erasure[x].status \in {"pending", "deleted", "gone"} /\ ~erasure[x].answered
    /\ erasure' = [erasure EXCEPT ![x].answered = TRUE]
    /\ skip' = Unknown
    /\ UNCHANGED <<tables, files, mutations, targets, batch, pass, clock, faults, ghosts>>

(* Any read of the database fills the cache. *)
LoadSkip ==
    /\ skip = Unknown
    /\ skip' = Active
    /\ UNCHANGED <<tables, files, mutations, targets, erasure, batch, pass, clock, faults, ghosts>>

-----------------------------------------------------------------------------
(* The worker's pass, in one PostgreSQL transaction that claims the rows; its *)
(* event-store commands take effect at once, its row writes at the commit.    *)

Rederived(xs, row) == \E x \in xs : InstallationOf[row.ev] \in targets[x].insts \cup targets[x].shared
OfUser(xs, row) == \E x \in xs : UserOf[row.ev] = erasure[x].subject

(* Targets of erasures no longer held are dropped; those of the rows claimed  *)
(* are written once, a late-resolved user's installations found first, again  *)
(* at each pass until one commits them.                                       *)
Tick ==
    LET late == [x \in Erasure |-> IF x \in Unfinished /\ ~erasure[x].resolved
                                   THEN Resolved(erasure[x].subject) ELSE erasure[x].insts]
        shared(x) == {i \in Installation : erasure[x].subject \in LinkedUsers(i)} \ late[x]
    IN  /\ pass.pc = "idle" /\ (Unfinished # {} \/ \E x \in Erasure : targets[x].held)
        /\ \A b \in Batch : ~batch[b].overlaps
        /\ targets' = [x \in Erasure |->
                          IF x \notin Unfinished THEN NoTargets
                          ELSE IF targets[x].held THEN targets[x]
                          ELSE [held |-> TRUE, insts |-> late[x], shared |-> shared(x)]]
        /\ pass' = IF Unfinished = {} THEN pass
                   ELSE [Asleep EXCEPT !.pc = "count", !.claimed = Unfinished, !.insts = late]
        /\ mistargeted' = mistargeted \cup {x \in Unfinished : targets[x].held /\ targets[x].insts # late[x]}
        /\ UNCHANGED <<tables, files, mutations, erasure, skip, batch, clock, faults, stored>>

(* Step 2: nothing while a mutation runs; then the events received before     *)
(* each erasure's time, counted again at the next tick until none is left.    *)
Count ==
    LET left == {r \in events : \E x \in Working : Carries(x, targets[x].insts, r) /\ r.received < erasure[x].at}
    IN  /\ pass.pc = "count"
        /\ \/ /\ mutations # {} \/ Working = {}
              /\ pass' = [pass EXCEPT !.pc = "commit"]
              /\ UNCHANGED mutations
           \/ /\ mutations = {} /\ Working # {} /\ left # {}
              /\ mutations' = {[table |-> "events", rows |-> left]}
              /\ pass' = [pass EXCEPT !.pc = "commit", !.decided = "deletes"]
           \/ /\ mutations = {} /\ Working # {} /\ left = {}
              /\ IF \A x \in Working : erasure[x].submitted
                 THEN /\ pass' = [pass EXCEPT !.pc = "replay", !.decided = "done"]
                      /\ UNCHANGED mutations
                 ELSE /\ pass' = [pass EXCEPT !.pc = "replay", !.decided = "states"]
                      /\ mutations' =
                            {[table |-> "records", rows |-> {r \in records : Rederived(Working, r)}],
                             [table |-> "links", rows |-> {r \in links : OfUser(Working, r)
                                        \/ \E x \in Working : InstallationOf[r.ev] \in targets[x].insts}]}
        /\ UNCHANGED <<tables, files, targets, erasure, skip, batch, clock, faults, ghosts>>

(* Mutant: the user's rows on other installations are deleted and not replayed. *)
ReplayReadTargets ==
    /\ pass.pc = "replay"
    /\ skip' = Active
    /\ pass' = [pass EXCEPT !.pc = "write",
                   !.rows = {r \in events : Rederived(Working, r) /\ ~Hidden(r, Active)}]
    /\ UNCHANGED <<tables, files, mutations, targets, erasure, batch, clock, faults, ghosts>>

(* Steps 3 and 4: the events that remain are read, under a skip read afresh,   *)
(* and written to the states again.                                            *)
ReplayRead ==
    /\ pass.pc = "replay"
    /\ skip' = Active
    /\ pass' = [pass EXCEPT !.pc = "write",
                   !.rows = {r \in events : (Rederived(Working, r) \/ OfUser(Working, r)) /\ ~Hidden(r, Active)}]
    /\ UNCHANGED <<tables, files, mutations, targets, erasure, batch, clock, faults, ghosts>>

ReplayWrite ==
    /\ pass.pc = "write"
    /\ records' = records \cup pass.rows /\ links' = links \cup pass.rows
    /\ pass' = [pass EXCEPT !.pc = "commit"]
    /\ UNCHANGED <<events, files, mutations, targets, erasure, skip, batch, clock, faults, ghosts>>

(* The premise under which the pass is enough: an insert in flight when a pass *)
(* ends is applied before the next one begins, thirty seconds later.           *)
PassEnds == batch' = [b \in Batch |-> [batch[b] EXCEPT !.overlaps = batch[b].pc # "idle"]]

(* Mutant: the files are not looked at. *)
NeverCarried(x) == FALSE

(* Some file carries a row the erasure's targets name. *)
Carried(x) == \E f \in files :
    \/ InstallationOf[f[2].ev] \in targets[x].insts
    \/ f[1] = "records" /\ InstallationOf[f[2].ev] \in targets[x].shared
    \/ f[1] # "records" /\ UserOf[f[2].ev] = erasure[x].subject

(* The row of a pending erasure as the pass leaves it. *)
Decided(x) ==
    LET row == [erasure[x] EXCEPT !.insts = pass.insts[x], !.resolved = TRUE]
    IN  CASE pass.decided = "wait"    -> row
          [] pass.decided = "deletes" -> [row EXCEPT !.submitted = FALSE]
          [] pass.decided = "states"  -> [row EXCEPT !.submitted = TRUE]
          [] pass.decided = "done"    -> [row EXCEPT !.status = "deleted"]

(* The commit: what the pass decided, and the erasures whose rows no file     *)
(* carries any more, among those already deleted when the pass began.         *)
Commit ==
    LET done == {x \in pass.claimed : erasure[x].status = "deleted"}
        gone == IF \E x \in done : Carried(x) THEN {} ELSE done
    IN  /\ pass.pc = "commit"
        /\ erasure' = [x \in Erasure |-> IF x \in gone THEN [erasure[x] EXCEPT !.status = "gone"]
                                         ELSE IF x \in Working THEN Decided(x) ELSE erasure[x]]
        /\ skip' = IF gone # {} \/ \E x \in Working : ~erasure[x].resolved \/ pass.decided = "done"
                   THEN Unknown ELSE skip
        /\ IF gone = {} THEN pass' = Asleep /\ PassEnds
           ELSE pass' = [Asleep EXCEPT !.pc = "drop"] /\ UNCHANGED batch
        /\ UNCHANGED <<tables, files, mutations, targets, clock, faults, ghosts>>

DropTargets ==
    /\ pass.pc = "drop"
    /\ targets' = [x \in Erasure |-> IF erasure[x].status = "gone" THEN NoTargets ELSE targets[x]]
    /\ pass' = Asleep /\ PassEnds
    /\ UNCHANGED <<tables, files, mutations, erasure, skip, clock, faults, ghosts>>

(* The pass fails at any point: the transaction is rolled back, what the event *)
(* store was told stays.                                                       *)
PassFails ==
    /\ pass.pc # "idle" /\ faults < MaxFaults
    /\ faults' = faults + 1
    /\ pass' = Asleep /\ PassEnds
    /\ UNCHANGED <<tables, files, mutations, targets, erasure, skip, clock, ghosts>>

-----------------------------------------------------------------------------
(* The event store                                                           *)

Apply(m) ==
    /\ mutations' = mutations \ {m}
    /\ events'  = IF m.table = "events"  THEN events \ m.rows  ELSE events
    /\ records' = IF m.table = "records" THEN records \ m.rows ELSE records
    /\ links'   = IF m.table = "links"   THEN links \ m.rows   ELSE links
    /\ files' = files \cup {<<m.table, r>> : r \in m.rows}
    /\ UNCHANGED <<targets, erasure, skip, batch, pass, clock, faults, ghosts>>

(* A merge, or APPLY DELETED MASK, drops the masked rows from the files. *)
Merge ==
    /\ files # {}
    /\ files' = {}
    /\ UNCHANGED <<tables, mutations, targets, erasure, skip, batch, pass, clock, faults, ghosts>>

Ingest(b) == Stamp(b) \/ Lookup(b) \/ Land(b)
Request(x) == Ask(x) \/ Reach(x) \/ Record(x) \/ Answer(x)
Pass == Tick \/ Count \/ ReplayRead \/ ReplayWrite \/ Commit \/ DropTargets

ErasureNext ==
    \/ \E b \in Batch : Ingest(b)
    \/ \E x \in Erasure : Request(x)
    \/ LoadSkip \/ Pass \/ PassFails
    \/ \E m \in mutations : Apply(m)
    \/ Merge

ErasureSpec == ErasureInit /\ [][ErasureNext]_erasureVars

(* The worker ticks every thirty seconds, the event store finishes mutations  *)
(* and rewrites files (at half the bound the worker makes it), an insert is   *)
(* applied.                                                                   *)
ErasureFairSpec ==
    /\ ErasureSpec
    /\ WF_erasureVars(Pass)
    /\ \A b \in Batch : WF_erasureVars(Lookup(b) \/ Land(b))
    /\ \A x \in Erasure : WF_erasureVars(Reach(x) \/ Record(x))
    /\ WF_erasureVars(\E m \in mutations : Apply(m))
    /\ WF_erasureVars(Merge)

-----------------------------------------------------------------------------
(* Once the request is answered no read of the events shows a row of the      *)
(* erased subject received before the erasure: hidden while the erasure is    *)
(* pending, deleted when the hiding ends (AN-184), whatever insert was in     *)
(* flight, whatever pass failed half way.  Except for an erasure resolved     *)
(* again after a pass that failed had written its targets: these are kept as  *)
(* they are (ensureTargets), and the deletes are theirs.                      *)
AnsweredHidden(x) == erasure[x].answered => \A r \in events : Covers(x, r) => Hidden(r, SkipNow)
ErasedHidden == \A x \in Erasure \ mistargeted : AnsweredHidden(x)

(* What no erasure covers survives, by its row or by the targets its deletes  *)
(* were given: the row stays in `events`, and once no erasure is half way its *)
(* states are there too, although the state deletes take every row of the     *)
(* installations.                                                             *)
Named(x, row) == Carries(x, targets[x].insts, row) /\ row.received < erasure[x].at
Erased(row) == \E x \in Erasure : Covers(x, row) \/ Named(x, row)
Quiet == mutations = {} /\ Active = {}
Kept == \A r \in stored : Erased(r) \/ (r \in events /\ (Quiet => r \in records \cap links))
KeptSurvive == mistargeted = {} => Kept

(* When the pending erasure, which alone holds the erased ID, is deleted, no   *)
(* file carries a row it covers.                                              *)
GoneFromFiles ==
    \A x \in Erasure \ mistargeted : erasure[x].status = "gone" =>
        \A f \in files : f[1] = "events" => ~Covers(x, f[2])

(* Every erasure recorded ends: deleted everywhere, its row and its targets gone. *)
ErasureEnds ==
    \A x \in Erasure : erasure[x].status = "pending" ~> erasure[x].status = "gone" /\ ~targets[x].held

(* Reads stop skipping an erasure once "the deletes now hid[e] every earlier   *)
(* state" (deleteStep, step 4): no installation state then derives from a row  *)
(* the erasure covers.                                                         *)
ErasedStateGone ==
    \A x \in Erasure : erasure[x].status \in {"deleted", "gone"} =>
        \A r \in records : InstallationOf[r.ev] \in erasure[x].insts => ~Covers(x, r)

-----------------------------------------------------------------------------
(* The inductive invariants                                                   *)

InPass == pass.pc \in {"count", "replay", "write", "commit"}

(* An insert that has still to write its event. *)
ToWrite(b) == batch[b].pc = "lookup" \/ "events" \in batch[b].left
Before(b, x) == ToWrite(b) /\ batch[b].received < erasure[x].at
Ingested(b, t) == batch[b].pc = "insert" /\ t \notin batch[b].left

(* The deletes of the states, and the pending erasures whose replay undoes them. *)
StateDeletes == {m \in mutations : m.table # "events"}
EventDeletes == {m \in mutations : m.table = "events"}
Owing == {x \in Active : targets[x].held}
Touches(x, row) == InstallationOf[row.ev] \in targets[x].insts \cup targets[x].shared
                   \/ UserOf[row.ev] = erasure[x].subject

Numbered ==
    /\ \A x \in Erasure : erasure[x].at <= clock
    /\ \A b \in Batch : batch[b].received <= clock /\ (batch[b].pc \in {"idle", "lookup"} => batch[b].left = {})
    /\ \A r \in events \cup records \cup links \cup pass.rows : r.received <= clock
    /\ \A m \in mutations : \A r \in m.rows : r.received <= clock

(* A row not written yet, and those the others write, are nowhere. *)
Fresh(b) == batch[b].pc = "lookup" \/ (batch[b].pc = "insert" /\ batch[b].left = {"events", "states"})
FreshRows == \A b \in Batch : Fresh(b) =>
    /\ \A r \in events \cup records \cup links \cup pass.rows : r.received # batch[b].received
    /\ \A m \in mutations : \A r \in m.rows : r.received # batch[b].received
    /\ \A c \in Batch \ {b} : batch[c].pc # "idle" => batch[c].received # batch[b].received

Requested == \A x \in Erasure :
    /\ erasure[x].status = "none" => erasure[x].at = 0
    /\ erasure[x].status \in {"none", "asked"} => ~erasure[x].resolved
    /\ erasure[x].status \in {"none", "asked", "reached"} =>
          ~erasure[x].submitted /\ ~erasure[x].answered /\ ~targets[x].held
    /\ ~erasure[x].resolved => erasure[x].insts = {}
    /\ erasure[x].status \in {"deleted", "gone"} => erasure[x].resolved
    /\ erasure[x].status = "deleted" => targets[x].held
    /\ ~targets[x].held => targets[x] = NoTargets

(* What the targets name is what the row names, once it does. *)
OnTarget == \A x \in Erasure \ mistargeted :
    targets[x].held /\ erasure[x].resolved => targets[x].insts = erasure[x].insts

Claims ==
    /\ ~InPass => pass.claimed = {}
    /\ pass.pc \in {"idle", "count", "drop"} => pass.decided = "wait"
    /\ pass.pc \in {"replay", "write"} => pass.decided \in {"states", "done"}
    /\ InPass => Owing \subseteq pass.claimed
    /\ \A x \in pass.claimed :
          /\ x \in Unfinished /\ targets[x].held
          /\ x \notin mistargeted => targets[x].insts = pass.insts[x]
          /\ erasure[x].resolved => pass.insts[x] = erasure[x].insts

AnswerHides == \A x \in Active : erasure[x].answered /\ skip # Unknown => x \in skip

(* What was in flight when the state deletes were submitted is applied before  *)
(* the pass that ends the erasure.                                             *)
Settled == \A x \in Active : erasure[x].submitted =>
    \A b \in Batch : Before(b, x) => ~InPass /\ (pass.pc = "idle" => batch[b].overlaps)

LastPass == pass.decided = "done" =>
    /\ mutations = {}
    /\ \A x \in Working : erasure[x].submitted /\ \A r \in events : ~Named(x, r)

DeletedEverywhere == \A x \in Erasure \ mistargeted : erasure[x].status \in {"deleted", "gone"} =>
    /\ \A r \in events : ~Covers(x, r)
    /\ \A b \in Batch : ~Before(b, x)
    /\ \A m \in EventDeletes : \A r \in m.rows : ~Covers(x, r)
    /\ erasure[x].status = "gone" => \A f \in files : f[1] = "events" => ~Covers(x, f[2])

Erasing == /\ ErasureTypeOK /\ Numbered /\ FreshRows /\ Requested /\ OnTarget /\ Claims
           /\ AnswerHides /\ Settled /\ LastPass /\ DeletedEverywhere

OnlyErasedDeleted == \A m \in EventDeletes : \A r \in m.rows : Erased(r)

EventsKept ==
    /\ \A r \in stored : r \in events \/ Erased(r)
    /\ \A b \in Batch : Ingested(b, "events") => RowOf(b) \in events \/ Erased(RowOf(b))

StateDeletesOwed == \A m \in StateDeletes : \A r \in m.rows : \E x \in Owing : Touches(x, r)

StatesKept == \A r \in stored : ~Erased(r) =>
    r \in records \cap links \/ \E x \in Owing : Touches(x, r)

(* An insert whose states landed and whose event did not yet: its states stay, *)
(* or an erasure that touches them replays after the event has landed.         *)
Safe(r) == r \in records \cap links /\ \A m \in StateDeletes : r \notin m.rows
ReplaysAfter(x, b) ==
    \/ ~erasure[x].submitted
    \/ InPass /\ pass.decided = "states"
    \/ pass.pc = "idle" /\ batch[b].overlaps
    \/ pass.pc = "drop"
HalvesKept == \A b \in Batch : Ingested(b, "states") /\ ~Erased(RowOf(b)) =>
    Safe(RowOf(b)) \/ \E x \in Owing : Touches(x, RowOf(b)) /\ ReplaysAfter(x, b)

Landed == stored \cup {RowOf(b) : b \in {c \in Batch : Ingested(c, "states")}}
Replayed == pass.decided = "done" => \A r \in Landed : ~Erased(r) =>
    /\ pass.pc = "write"  => r \in records \cap links \/ r \in pass.rows
    /\ pass.pc = "commit" => r \in records \cap links

Keeping == OnlyErasedDeleted /\ EventsKept /\ StateDeletesOwed /\ StatesKept /\ HalvesKept /\ Replayed

ErasureIndInv == Erasing /\ (mistargeted = {} => Keeping)
=============================================================================
