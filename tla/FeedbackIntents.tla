-------------------------- MODULE FeedbackIntents --------------------------
(***************************************************************************)
(* One feedback database of the API server: submission intents, the        *)
(* screenshots uploaded under them, the submissions they finalize into,    *)
(* and what deleting a submission or the whole database leaves behind.     *)
(*                                                                         *)
(* A request is a process of the set Calls. It advances from one await of  *)
(* its handler to the next: every database statement run on its own and    *)
(* every object-store request is one step. A database transaction is the   *)
(* sequence of its steps, its writes appear at its commit, and the row     *)
(* locks it takes hold the other requests back meanwhile. Postgres runs    *)
(* read committed.                                                         *)
(*                                                                         *)
(* A payload stands for the canonical form payloadHash compares: two       *)
(* requests carry the same payload exactly when their hashes are equal.    *)
(***************************************************************************)
EXTENDS Naturals, FiniteSets

CONSTANTS
    Intents, Attachments, Submissions,  \* identifiers newId may hand out
    Calls,                              \* requests in flight at once
    Payloads,
    Screenshots,       \* [Payloads -> SUBSET Attachments] each answer set references
    Invalid,           \* payloads that fail version match, size or validateAnswers
    Misplaced,         \* <<payload, attachment>>: referenced under another question
    IntentMaxUploads,  \* LIMITS.intentMaxUploads
    None

ASSUME ScreenshotsAssumption == Screenshots \in [Payloads -> SUBSET Attachments]
ASSUME InvalidAssumption     == Invalid \subseteq Payloads
ASSUME MisplacedAssumption   == Misplaced \subseteq Payloads \X Attachments
ASSUME MaxUploadsAssumption  == IntentMaxUploads \in Nat
ASSUME NoneAssumption        ==
    /\ None \notin Intents \cup Attachments \cup Submissions \cup Payloads

VARIABLES
    database,     \* the feedback_databases row: "live" or "gone"
    intents,      \* submission_intents rows
    attachments,  \* attachments rows
    submissions,  \* submissions rows; "deleted" marks an id that was in use
    objects,      \* object store: tag of each key, before, during and after its life
    retags,       \* PutObjectTagging requests whose finalization no longer waits
    purgeQueue,   \* storage_purge_queue: keys still to be removed
    deliveries,   \* notification_deliveries: submissions to announce
    pc,           \* the step each request is at
    job,          \* its arguments and what it has read
    answer,       \* what this step answered a finalization, if it answered one
    discarded     \* history: attachments a discard removed

vars == <<database, intents, attachments, submissions, objects, retags,
          purgeQueue, deliveries, pc, job, answer, discarded>>

rows    == <<database, intents, attachments, submissions>>
storage == <<objects, retags, purgeQueue>>

-----------------------------------------------------------------------------
IntentRows ==
    [status: {"none", "active", "finalized", "gone"}, expired: BOOLEAN,
     uploads: 0 .. IntentMaxUploads, payload: Payloads \cup {None},
     submission: Submissions \cup {None}, deleted: BOOLEAN]

NoRow == [intent |-> None, submission |-> None]
AttachmentRows ==
    {NoRow} \cup [intent: Intents, submission: Submissions \cup {None}]

SubmissionRows ==
    [state: {"unused", "live", "deleted"}, intent: Intents \cup {None},
     payload: Payloads \cup {None}]

Steps == {"idle", "f_lock", "f_bind", "f_tag", "u_slot", "u_put", "u_row",
          "d_find", "d_row", "d_object", "r_commit", "x_lock", "x_cascade"}

Jobs == [intent: Intents \cup {None}, payload: Payloads \cup {None},
         attachment: Attachments \cup {None}, submission: Submissions \cup {None},
         keys: SUBSET Attachments]
NoJob == [intent |-> None, payload |-> None, attachment |-> None,
          submission |-> None, keys |-> {}]

Verdicts == {"accepted", "duplicate", "conflict", "deleted", "refused"}
Answers == [verdict: Verdicts \cup {None}, intent: Intents \cup {None},
            payload: Payloads \cup {None}, submission: Submissions \cup {None}]
NoAnswer == [verdict |-> None, intent |-> None, payload |-> None, submission |-> None]

\* The rows, objects, requests and answers are well formed, and an intent never has
\* more uploads reserved than its cap.
TypeOK ==
    /\ database \in {"live", "gone"}
    /\ intents \in [Intents -> IntentRows]
    /\ attachments \in [Attachments -> AttachmentRows]
    /\ submissions \in [Submissions -> SubmissionRows]
    /\ objects \in [Attachments -> {"none", "pending", "bound", "gone"}]
    /\ retags \subseteq Attachments
    /\ purgeQueue \subseteq Attachments
    /\ deliveries \subseteq Submissions
    /\ pc \in [Calls -> Steps]
    /\ job \in [Calls -> Jobs]
    /\ answer \in Answers
    /\ discarded \subseteq Attachments

Init ==
    /\ database = "live"
    /\ intents = [i \in Intents |->
          [status |-> "none", expired |-> FALSE, uploads |-> 0,
           payload |-> None, submission |-> None, deleted |-> FALSE]]
    /\ attachments = [a \in Attachments |-> NoRow]
    /\ submissions = [s \in Submissions |->
          [state |-> "unused", intent |-> None, payload |-> None]]
    /\ objects = [a \in Attachments |-> "none"]
    /\ retags = {}
    /\ purgeQueue = {}
    /\ deliveries = {}
    /\ pc = [c \in Calls |-> "idle"]
    /\ job = [c \in Calls |-> NoJob]
    /\ answer = NoAnswer
    /\ discarded = {}

-----------------------------------------------------------------------------
(* Rows, locks and the ends of a request                                   *)

RowExists(i)   == intents[i].status \in {"active", "finalized"}
HasRow(a)      == attachments[a] # NoRow
IsBound(a)     == attachments[a].submission # None
RowsOf(i)      == {a \in Attachments : attachments[a].intent = i}
FilesForgotten(s) == {}  \* mutant: the keys are looked up after the cascade
FilesOf(s)     == {a \in Attachments : attachments[a].submission = s}

\* The finalization that holds `select ... for update` on the intent row.
Finalizing(c)  == pc[c] \in {"f_bind", "f_tag"}
NeverLocked(i) == FALSE  \* mutant: the row is read without `for update`
IntentLocked(i) == \E c \in Calls : Finalizing(c) /\ job[c].intent = i

\* bindAttachments also locks the rows it is about to bind.
RowLocked(a) == \E c \in Calls : pc[c] = "f_tag" /\ a \in Screenshots[job[c].payload]

\* The deleting transaction holds the feedback_databases row, which an insert
\* into a child table needs to share.
DatabaseLocked == \E c \in Calls : pc[c] = "x_cascade"

Usable(i) == ~(intents[i].status = "active" /\ intents[i].expired)

Begin(c, step, args) ==
    /\ pc[c] = "idle"
    /\ pc' = [pc EXCEPT ![c] = step]
    /\ job' = [job EXCEPT ![c] = args]

Goto(c, step) == pc' = [pc EXCEPT ![c] = step] /\ UNCHANGED job

End(c) ==
    /\ pc' = [pc EXCEPT ![c] = "idle"]
    /\ job' = [job EXCEPT ![c] = NoJob]

Reply(c, verdict, s) ==
    answer' = [verdict |-> verdict, intent |-> job[c].intent,
               payload |-> job[c].payload, submission |-> s]
NoReply == answer' = NoAnswer

-----------------------------------------------------------------------------
(* Creating an intent                                                      *)

CreateIntent(i) ==
    /\ database = "live"
    /\ ~DatabaseLocked
    /\ intents[i].status = "none"
    /\ intents' = [intents EXCEPT ![i].status = "active"]
    /\ NoReply
    /\ UNCHANGED <<database, attachments, submissions, storage, deliveries,
                   pc, job, discarded>>

\* The clock passes expiresAt.
Expire(i) ==
    /\ RowExists(i)
    /\ ~intents[i].expired
    /\ intents' = [intents EXCEPT ![i].expired = TRUE]
    /\ NoReply
    /\ UNCHANGED <<database, attachments, submissions, storage, deliveries,
                   pc, job, discarded>>

-----------------------------------------------------------------------------
(* finalizeIntent                                                          *)

StartFinalize(c, i, p) ==
    /\ RowExists(i)
    /\ Begin(c, "f_lock", [NoJob EXCEPT !.intent = i, !.payload = p])
    /\ NoReply
    /\ UNCHANGED <<rows, storage, deliveries, discarded>>

RefusedWithoutRollback(c) ==  \* mutant: the transaction is left open
    Reply(c, "refused", None) /\ UNCHANGED <<pc, job>>
FinalizeRefused(c) == Reply(c, "refused", None) /\ End(c)

ReplayForgetsDeletion(c, i) ==  \* mutant: submissionDeletedAt is not looked at
    /\ IF intents[i].payload # job[c].payload
       THEN Reply(c, "conflict", None)
       ELSE Reply(c, "duplicate", intents[i].submission)
    /\ End(c)

\* replayFinalized, under the lock the decision is taken with.
ReplayFinalized(c, i) ==
    /\ IF intents[i].payload # job[c].payload
       THEN Reply(c, "conflict", None)
       ELSE LET s == intents[i].submission IN
            IF \/ intents[i].deleted
               \/ s = None
               \/ submissions[s].state # "live"
            THEN Reply(c, "deleted", None)
            ELSE Reply(c, "duplicate", s)
    /\ End(c)

\* Takes the row lock, then decides on the row as it is now.
LockIntent(c) ==
    /\ pc[c] = "f_lock"
    /\ LET i == job[c].intent IN
       /\ ~IntentLocked(i)
       /\ \/ /\ intents[i].status = "finalized"
             /\ ReplayFinalized(c, i)
          \/ /\ \/ intents[i].status = "gone"
                \/ intents[i].status = "active" /\ ~Usable(i)
                \/ intents[i].status = "active" /\ job[c].payload \in Invalid
             /\ FinalizeRefused(c)
          \/ /\ intents[i].status = "active"
             /\ Usable(i)
             /\ job[c].payload \notin Invalid
             /\ Goto(c, "f_bind")
             /\ NoReply
    /\ UNCHANGED <<rows, storage, deliveries, discarded>>

Bindable(a, i, p) ==
    /\ attachments[a].intent = i
    /\ ~IsBound(a)
    /\ <<p, a>> \notin Misplaced

\* bindAttachments: the rows are locked and checked, then every object is
\* retagged at once.
BindAttachments(c) ==
    /\ pc[c] = "f_bind"
    /\ LET wanted == Screenshots[job[c].payload] IN
       \/ /\ \A a \in wanted : Bindable(a, job[c].intent, job[c].payload)
          /\ pc' = [pc EXCEPT ![c] = "f_tag"]
          /\ job' = [job EXCEPT ![c].keys = wanted]
          /\ NoReply
       \/ /\ \E a \in wanted : ~Bindable(a, job[c].intent, job[c].payload)
          /\ FinalizeRefused(c)
    /\ UNCHANGED <<rows, storage, deliveries, discarded>>

\* A PutObjectTagging request lands; the store refuses a key it does not have.
Tag(a) ==
    /\ objects[a] \in {"pending", "bound"}
    /\ objects' = [objects EXCEPT ![a] = "bound"]

MarkBound(c, a) ==
    /\ pc[c] = "f_tag"
    /\ a \in job[c].keys
    /\ Tag(a)
    /\ job' = [job EXCEPT ![c].keys = @ \ {a}]
    /\ NoReply
    /\ UNCHANGED <<rows, retags, purgeQueue, deliveries, pc, discarded>>

IgnoreFailedRetags(c) ==  \* mutant: the rejection is caught and logged
    /\ pc[c] = "f_tag"
    /\ job[c].keys # {}
    /\ retags' = retags \cup job[c].keys
    /\ job' = [job EXCEPT ![c].keys = {}]
    /\ NoReply
    /\ UNCHANGED <<rows, objects, purgeQueue, deliveries, pc, discarded>>

\* One retag fails, Promise.all rejects and the transaction rolls back. The
\* requests not yet answered stay in flight.
MarkBoundFails(c) ==
    /\ pc[c] = "f_tag"
    /\ job[c].keys # {}
    /\ FinalizeRefused(c)
    /\ retags' = retags \cup job[c].keys
    /\ UNCHANGED <<rows, objects, purgeQueue, deliveries, discarded>>

RetagEnds(a) ==
    /\ a \in retags
    /\ retags' = retags \ {a}
    /\ Tag(a) \/ UNCHANGED objects
    /\ NoReply
    /\ UNCHANGED <<rows, purgeQueue, deliveries, pc, job, discarded>>

\* The submission, its bound attachments, the finalized intent and, unless the
\* settings are off or the savepoint rolled back, the queued notification.
CommitFinalize(c, s, queued) ==
    /\ pc[c] = "f_tag"
    /\ job[c].keys = {}
    /\ ~DatabaseLocked
    /\ submissions[s].state = "unused"
    /\ LET i == job[c].intent
           p == job[c].payload
       IN  /\ submissions' = [submissions EXCEPT ![s] =
                 [state |-> "live", intent |-> i, payload |-> p]]
           /\ attachments' = [a \in Attachments |->
                 IF a \in Screenshots[p] /\ HasRow(a)
                 THEN [attachments[a] EXCEPT !.submission = s]
                 ELSE attachments[a]]
           /\ intents' = [intents EXCEPT ![i].status = "finalized",
                                         ![i].payload = p,
                                         ![i].submission = s]
    /\ deliveries' = IF queued THEN deliveries \cup {s} ELSE deliveries
    /\ Reply(c, "accepted", s)
    /\ End(c)
    /\ UNCHANGED <<database, storage, discarded>>

-----------------------------------------------------------------------------
(* uploadAttachment                                                        *)

StartUploadUnreserved(c, i) ==  \* mutant: the upload never reserves its slot
    /\ intents[i].status = "active"
    /\ Usable(i)
    /\ Begin(c, "u_put", [NoJob EXCEPT !.intent = i])
    /\ NoReply
    /\ UNCHANGED <<rows, storage, deliveries, discarded>>

StartUpload(c, i) ==
    /\ intents[i].status = "active"
    /\ Usable(i)
    /\ Begin(c, "u_slot", [NoJob EXCEPT !.intent = i])
    /\ NoReply
    /\ UNCHANGED <<rows, storage, deliveries, discarded>>

SlotFree(i) == RowExists(i) /\ intents[i].uploads < IntentMaxUploads

\* reserveUploadSlot: one conditional update, so the count it tests is current.
ReserveUploadSlot(c) ==
    /\ pc[c] = "u_slot"
    /\ LET i == job[c].intent IN
       /\ ~IntentLocked(i)
       /\ \/ /\ SlotFree(i)
             /\ intents' = [intents EXCEPT ![i].uploads = @ + 1]
             /\ Goto(c, "u_put")
          \/ /\ ~SlotFree(i)
             /\ End(c)
             /\ UNCHANGED intents
    /\ NoReply
    /\ UNCHANGED <<database, attachments, submissions, storage, deliveries, discarded>>

\* The scanner, the decoder or the store refuses the file: the slot stays spent.
UploadRefused(c) ==
    /\ pc[c] = "u_put"
    /\ End(c)
    /\ NoReply
    /\ UNCHANGED <<rows, storage, deliveries, discarded>>

PutPending(c, a) ==
    /\ pc[c] = "u_put"
    /\ objects[a] = "none"
    /\ objects' = [objects EXCEPT ![a] = "pending"]
    /\ pc' = [pc EXCEPT ![c] = "u_row"]
    /\ job' = [job EXCEPT ![c].attachment = a]
    /\ NoReply
    /\ UNCHANGED <<rows, retags, purgeQueue, deliveries, discarded>>

\* The insert shares the intent row and the database row, and fails once they
\* are gone.
InsertAttachment(c) ==
    /\ pc[c] = "u_row"
    /\ ~IntentLocked(job[c].intent)
    /\ ~DatabaseLocked
    /\ attachments' =
          IF RowExists(job[c].intent)
          THEN [attachments EXCEPT ![job[c].attachment] =
                    [intent |-> job[c].intent, submission |-> None]]
          ELSE attachments
    /\ End(c)
    /\ NoReply
    /\ UNCHANGED <<database, intents, submissions, storage, deliveries, discarded>>

-----------------------------------------------------------------------------
(* discardPendingAttachment                                                *)

StartDiscard(c, i, a) ==
    /\ RowExists(i)
    /\ Usable(i)
    /\ Begin(c, "d_find", [NoJob EXCEPT !.intent = i, !.attachment = a])
    /\ NoReply
    /\ UNCHANGED <<rows, storage, deliveries, discarded>>

FindPending(c) ==
    /\ pc[c] = "d_find"
    /\ LET a == job[c].attachment IN
       IF attachments[a].intent = job[c].intent /\ ~IsBound(a)
       THEN Goto(c, "d_row")
       ELSE End(c)
    /\ NoReply
    /\ UNCHANGED <<rows, storage, deliveries, discarded>>

\* delete ... where id: the row is not asked again whether it is bound.
DeleteAttachmentRow(c) ==
    /\ pc[c] = "d_row"
    /\ LET a == job[c].attachment IN
       /\ ~RowLocked(a)
       /\ attachments' = [attachments EXCEPT ![a] = NoRow]
       /\ discarded' = discarded \cup {a}
    /\ Goto(c, "d_object")
    /\ NoReply
    /\ UNCHANGED <<database, intents, submissions, storage, deliveries>>

\* The object's deletion is attempted once; its failure is logged.
DeleteObject(c) ==
    /\ pc[c] = "d_object"
    /\ \/ objects' = [objects EXCEPT ![job[c].attachment] = "gone"]
       \/ UNCHANGED objects
    /\ End(c)
    /\ NoReply
    /\ UNCHANGED <<rows, retags, purgeQueue, deliveries, discarded>>

-----------------------------------------------------------------------------
(* deleteSubmission, and the erasure that deletes through it               *)

StartDeleteSubmission(c, s) ==
    /\ submissions[s].state = "live"
    /\ Begin(c, "r_commit", [NoJob EXCEPT !.submission = s, !.keys = FilesOf(s)])
    /\ NoReply
    /\ UNCHANGED <<rows, storage, deliveries, discarded>>

DeliveriesKept(s) == deliveries  \* mutant: no cascade to the queued delivery
DeliveriesWithout(s) == deliveries \ {s}

\* deleteSubmissionRows: the intent marked, the rows gone by cascade, the keys
\* read earlier queued. A second deletion of the same row queues them again.
DeleteSubmission(c) ==
    /\ pc[c] = "r_commit"
    /\ LET s == job[c].submission
           i == submissions[s].intent
       IN  /\ ~IntentLocked(i)
           /\ intents' = IF RowExists(i)
                         THEN [intents EXCEPT ![i].deleted = TRUE] ELSE intents
           /\ submissions' = [submissions EXCEPT ![s].state = "deleted"]
           /\ attachments' = [a \in Attachments |->
                 IF attachments[a].submission = s THEN NoRow ELSE attachments[a]]
           /\ deliveries' = DeliveriesWithout(s)
    /\ purgeQueue' = purgeQueue \cup job[c].keys
    /\ End(c)
    /\ NoReply
    /\ UNCHANGED <<database, objects, retags, discarded>>

-----------------------------------------------------------------------------
(* deleteFeedbackDatabase                                                  *)

\* The keys are read before the transaction opens.
StartDeleteDatabase(c) ==
    /\ database = "live"
    /\ Begin(c, "x_lock", [NoJob EXCEPT !.keys = {a \in Attachments : HasRow(a)}])
    /\ NoReply
    /\ UNCHANGED <<rows, storage, deliveries, discarded>>

LockDatabase(c) ==
    /\ pc[c] = "x_lock"
    /\ ~DatabaseLocked
    /\ IF database = "live" THEN Goto(c, "x_cascade") ELSE End(c)
    /\ NoReply
    /\ UNCHANGED <<rows, storage, deliveries, discarded>>

\* The cascade reaches the intents, so it waits for every open finalization.
DeleteDatabase(c) ==
    /\ pc[c] = "x_cascade"
    /\ \A i \in Intents : ~IntentLocked(i)
    /\ database' = "gone"
    /\ intents' = [i \in Intents |-> [intents[i] EXCEPT !.status = "gone"]]
    /\ attachments' = [a \in Attachments |-> NoRow]
    /\ submissions' = [s \in Submissions |->
          IF submissions[s].state = "live"
          THEN [submissions[s] EXCEPT !.state = "deleted"] ELSE submissions[s]]
    /\ deliveries' = {}
    /\ purgeQueue' = purgeQueue \cup job[c].keys
    /\ End(c)
    /\ NoReply
    /\ UNCHANGED <<objects, retags, discarded>>

-----------------------------------------------------------------------------
(* The environment                                                         *)

\* The process dies, or the database aborts the statement: an open transaction
\* leaves nothing, retags already sent still arrive, and no answer is given.
Die(c) ==
    /\ pc[c] # "idle"
    /\ retags' = IF pc[c] = "f_tag" THEN retags \cup job[c].keys ELSE retags
    /\ End(c)
    /\ NoReply
    /\ UNCHANGED <<rows, objects, purgeQueue, deliveries, discarded>>

\* The deletion holds the database row and waits for an intent row; the
\* finalization holds that intent row and waits to share the database row.
\* Postgres aborts one of the two.
Deadlocked(f, x) ==
    /\ pc[f] = "f_tag" /\ job[f].keys = {}
    /\ pc[x] = "x_cascade"

BreakDeadlock(f, x) ==
    /\ Deadlocked(f, x)
    /\ \/ FinalizeRefused(f)
       \/ End(x) /\ NoReply
    /\ UNCHANGED <<rows, storage, deliveries, discarded>>

PurgeForgetsBytes(a) ==  \* mutant: the row goes although the deletion failed
    /\ a \in purgeQueue
    /\ purgeQueue' = purgeQueue \ {a}
    /\ NoReply
    /\ UNCHANGED <<rows, objects, retags, deliveries, pc, job, discarded>>

\* The purge worker: the bytes, then the row.
PurgeObject(a) ==
    /\ a \in purgeQueue
    /\ objects' = [objects EXCEPT ![a] = "gone"]
    /\ purgeQueue' = purgeQueue \ {a}
    /\ NoReply
    /\ UNCHANGED <<rows, retags, deliveries, pc, job, discarded>>

\* The lifecycle rule removes a pending object, a day or more after its upload:
\* INLET_INTENT_TTL_MINUTES is at most a day, so its intent has expired.
ExpirePending(a) ==
    /\ objects[a] = "pending"
    /\ HasRow(a) => intents[attachments[a].intent].expired
    /\ objects' = [objects EXCEPT ![a] = "gone"]
    /\ NoReply
    /\ UNCHANGED <<rows, retags, purgeQueue, deliveries, pc, job, discarded>>

-----------------------------------------------------------------------------
Finalize(c) ==
    \/ \E i \in Intents, p \in Payloads : StartFinalize(c, i, p)
    \/ LockIntent(c)
    \/ BindAttachments(c)
    \/ \E a \in Attachments : MarkBound(c, a)
    \/ MarkBoundFails(c)
    \/ \E s \in Submissions, queued \in BOOLEAN : CommitFinalize(c, s, queued)

Upload(c) ==
    \/ \E i \in Intents : StartUpload(c, i)
    \/ ReserveUploadSlot(c)
    \/ UploadRefused(c)
    \/ \E a \in Attachments : PutPending(c, a)
    \/ InsertAttachment(c)

Discard(c) ==
    \/ \E i \in Intents, a \in Attachments : StartDiscard(c, i, a)
    \/ FindPending(c)
    \/ DeleteAttachmentRow(c)
    \/ DeleteObject(c)

Delete(c) ==
    \/ \E s \in Submissions : StartDeleteSubmission(c, s)
    \/ DeleteSubmission(c)
    \/ StartDeleteDatabase(c)
    \/ LockDatabase(c)
    \/ DeleteDatabase(c)

Environment ==
    \/ \E i \in Intents : CreateIntent(i) \/ Expire(i)
    \/ \E a \in Attachments : RetagEnds(a) \/ PurgeObject(a) \/ ExpirePending(a)
    \/ \E f, x \in Calls : BreakDeadlock(f, x)

Next ==
    \/ \E c \in Calls : Finalize(c) \/ Upload(c) \/ Discard(c) \/ Delete(c) \/ Die(c)
    \/ Environment

Spec == Init /\ [][Next]_vars

-----------------------------------------------------------------------------
(* Safety                                                                  *)

\* Two submissions never come from one intent, deleted ones counted: the row
\* lock of finalizeIntent serializes simultaneous finalizations, and neither a
\* retry after deletion nor a rolled back transaction makes a second one.
OneSubmissionPerIntent ==
    \A s, t \in Submissions :
        /\ submissions[s].state # "unused"
        /\ submissions[t].state # "unused"
        /\ s # t
        => submissions[s].intent # submissions[t].intent

\* A live submission has every screenshot its answers reference: the row bound
\* to it and the object out of the lifecycle rule's reach. Stated by the
\* comments of bindAttachments and Storage.markBound.
ScreenshotsKept ==
    \A s \in Submissions : submissions[s].state = "live" =>
        \A a \in Screenshots[submissions[s].payload] :
            attachments[a].submission = s /\ objects[a] = "bound"

\* What holds of it: only a discard can take a screenshot from a live
\* submission. Failed retags, rollbacks, deaths, late retags, the lifecycle
\* rule and the purge of other deletions cannot.
OnlyDiscardsLoseScreenshots ==
    \A s \in Submissions : submissions[s].state = "live" =>
        \A a \in Screenshots[submissions[s].payload] \ discarded :
            attachments[a].submission = s /\ objects[a] = "bound"

\* While the database lives, an object the lifecycle rule no longer covers has
\* an attachment row to find it by, or its key is queued for purge (FR-027).
BoundBytesOwned ==
    database = "live" =>
        \A a \in Attachments \ discarded :
            objects[a] = "bound" => HasRow(a) \/ a \in purgeQueue

\* Deleting the database queues the screenshots of its submissions, as the
\* comment of deleteFeedbackDatabase says.
DeletedDatabaseQueuesBytes ==
    database = "gone" =>
        \A s \in Submissions : submissions[s].state = "deleted" =>
            \A a \in Screenshots[submissions[s].payload] \ discarded :
                objects[a] = "bound" => a \in purgeQueue

\* FR-099A: rows inserted and uploads under way never exceed the slots reserved,
\* which TypeOK keeps within IntentMaxUploads, however many uploads race.
UnderWay(i) == {c \in Calls : pc[c] \in {"u_put", "u_row"} /\ job[c].intent = i}
UploadsWithinSlots ==
    \A i \in Intents :
        Cardinality(RowsOf(i)) + Cardinality(UnderWay(i)) <= intents[i].uploads

\* A queued notification announces a submission that is there: never a rolled
\* back one, never one deleted while its notification waited (FR-158).
QueuedAnnounceLive ==
    \A s \in deliveries : submissions[s].state = "live"

-----------------------------------------------------------------------------
(* The inductive invariant behind OneSubmissionPerIntent                   *)

\* Each request carries the arguments its step works on.
Fits(step, args) ==
    /\ step \in {"f_lock", "f_bind", "f_tag"} =>
          args.intent \in Intents /\ args.payload \in Payloads
    /\ step \in {"u_slot", "u_put", "u_row", "d_find"} => args.intent \in Intents
    /\ step \in {"u_row", "d_find", "d_row", "d_object"} => args.attachment \in Attachments
    /\ step = "r_commit" => /\ args.submission \in Submissions
                            /\ submissions[args.submission].state # "unused"

JobsFit == \A c \in Calls : Fits(pc[c], job[c])

\* A stored submission names its intent, and the intent names it back for good.
SubmissionsRecorded ==
    \A s \in Submissions : submissions[s].state # "unused" =>
        /\ submissions[s].intent \in Intents
        /\ intents[submissions[s].intent].submission = s
        /\ intents[submissions[s].intent].status \in {"finalized", "gone"}

\* At most one finalization decides an intent at a time, and what it decides
\* is still open.
LocksHeld ==
    /\ \A c \in Calls : Finalizing(c) => intents[job[c].intent].status = "active"
    /\ \A c, d \in Calls :
          Finalizing(c) /\ Finalizing(d) /\ job[c].intent = job[d].intent => c = d

\* The inductive invariant: with these four, every step of every request keeps them.
IndInv == TypeOK /\ JobsFit /\ SubmissionsRecorded /\ LocksHeld

\* Behind UploadsWithinSlots: rows and uploads under way stay finite.
SlotsCounted ==
    \A i \in Intents : IsFiniteSet(RowsOf(i)) /\ IsFiniteSet(UnderWay(i))

\* Behind RetryContract: what a replay reads of an intent and of its submission
\* agrees, whichever deletion came in between.
OutcomesAgree ==
    \A i \in Intents :
        /\ intents[i].status \in {"none", "active"} => ~intents[i].deleted
        /\ intents[i].submission # None =>
              /\ submissions[intents[i].submission].state # "unused"
              /\ submissions[intents[i].submission].intent = i
        /\ intents[i].status = "finalized" =>
              /\ intents[i].submission \in Submissions
              /\ submissions[intents[i].submission].state =
                    IF intents[i].deleted THEN "deleted" ELSE "live"

-----------------------------------------------------------------------------
(* The inductive invariant behind OnlyDiscardsLoseScreenshots and          *)
(* BoundBytesOwned: an attachment is uploaded, has its row, and loses it   *)
(* for good, and every step that acts on it later knows it was uploaded.   *)

\* An upload that has put its object and not yet inserted the row owns them alone.
Uploading(c, a) == pc[c] = "u_row" /\ job[c].attachment = a
UploadsAlone ==
    /\ \A c \in Calls, a \in Attachments : Uploading(c, a) => objects[a] # "none" /\ ~HasRow(a)
    /\ \A c, d \in Calls, a \in Attachments : Uploading(c, a) /\ Uploading(d, a) => c = d

\* The upload of the attachment is over.
Uploaded(a) == objects[a] # "none" /\ \A c \in Calls : ~Uploading(c, a)

\* Whatever is in a row, a queue or a request that removes it has been uploaded.
OnlyUploaded ==
    /\ \A a \in Attachments :
          HasRow(a) \/ a \in retags \cup purgeQueue \cup discarded => Uploaded(a)
    /\ \A c \in Calls :
          /\ pc[c] \in {"d_row", "d_object"} => Uploaded(job[c].attachment)
          /\ pc[c] \in {"r_commit", "x_lock", "x_cascade"} => \A a \in job[c].keys : Uploaded(a)

\* What is to be purged, or was discarded, has no row any more.
RemovedHaveNoRow ==
    /\ \A a \in purgeQueue \cup discarded : ~HasRow(a)
    /\ \A c \in Calls : pc[c] = "d_object" => job[c].attachment \in discarded

\* The keys a deletion read are those of the submission's rows, or of no row.
KeysOfSubmission ==
    \A c \in Calls : pc[c] = "r_commit" =>
        /\ FilesOf(job[c].submission) \subseteq job[c].keys
        /\ \A a \in job[c].keys : attachments[a].submission = job[c].submission \/ ~HasRow(a)

\* A finalization past its checks holds unbound rows of its intent, of which those
\* it no longer waits for are retagged.
ScreenshotsHeld ==
    \A c \in Calls : pc[c] = "f_tag" =>
        /\ job[c].keys \subseteq Screenshots[job[c].payload]
        /\ \A a \in Screenshots[job[c].payload] :
              /\ attachments[a].intent = job[c].intent
              /\ ~IsBound(a)
              /\ a \in job[c].keys \/ objects[a] = "bound"

\* A stored submission has a payload.
PayloadsStored ==
    \A s \in Submissions : submissions[s].state # "unused" => submissions[s].payload \in Payloads

\* While the database lives, an object that is bound, or that a late retag may still
\* bind, has a row or is queued for purge, unless a discard removed its row.
BytesOwned ==
    database = "live" =>
        \A a \in Attachments \ discarded :
            objects[a] = "bound" \/ (a \in retags /\ objects[a] = "pending") =>
                HasRow(a) \/ a \in purgeQueue

BytesInv ==
    /\ IndInv /\ UploadsAlone /\ OnlyUploaded /\ RemovedHaveNoRow /\ KeysOfSubmission
    /\ ScreenshotsHeld /\ PayloadsStored /\ BytesOwned /\ OnlyDiscardsLoseScreenshots

-----------------------------------------------------------------------------
(* Refinement                                                              *)

\* The outcome of an intent as its rows tell it.
OutcomeOf(i) ==
    [state |-> CASE intents[i].status = "none"   -> "unissued"
                 [] intents[i].status = "active" -> "open"
                 [] intents[i].status = "gone"   -> "dropped"
                 [] OTHER -> IF intents[i].deleted THEN "deleted" ELSE "stored",
     payload |-> intents[i].payload, submission |-> intents[i].submission]

\* The interleaved handlers implement the retry contract: every step is one
\* step of it or none, whatever the order of locks, commits, deaths and
\* deletions.
Contract == INSTANCE IntentContract WITH outcome <- [i \in Intents |-> OutcomeOf(i)]
RetryContract == Contract!Spec

-----------------------------------------------------------------------------
(* Liveness                                                                *)

Advance(c) ==
    \/ LockIntent(c) \/ BindAttachments(c)
    \/ \E a \in Attachments : MarkBound(c, a) \/ PutPending(c, a)
    \/ \E s \in Submissions, queued \in BOOLEAN : CommitFinalize(c, s, queued)
    \/ MarkBoundFails(c) \/ ReserveUploadSlot(c) \/ UploadRefused(c)
    \/ InsertAttachment(c) \/ FindPending(c) \/ DeleteAttachmentRow(c) \/ DeleteObject(c)
    \/ DeleteSubmission(c) \/ LockDatabase(c) \/ DeleteDatabase(c)

\* Postgres queues the waiters of a row lock, hence strong fairness; requests
\* to the store end; the deadlock detector runs; the purge worker runs.
FairSpec ==
    /\ Spec
    /\ \A c \in Calls : SF_vars(Advance(c))
    /\ \A f, x \in Calls : WF_vars(BreakDeadlock(f, x))
    /\ \A a \in Attachments : WF_vars(RetagEnds(a)) /\ WF_vars(PurgeObject(a))

\* Every request ends, whatever locks the others hold: the deadlock between a
\* finalization and the deletion of its database included.
RequestsEnd == \A c \in Calls : pc[c] # "idle" ~> pc[c] = "idle"

\* The bytes of a deleted submission's screenshots are removed in the end.
\* While the database lives: DeletedDatabaseQueuesBytes is about its deletion.
DeletedBytesRemoved ==
    \A s \in Submissions, a \in Attachments :
        /\ database = "live"
        /\ submissions[s].state = "deleted"
        /\ a \in Screenshots[submissions[s].payload] \ discarded
        ~> objects[a] = "gone"
=============================================================================
