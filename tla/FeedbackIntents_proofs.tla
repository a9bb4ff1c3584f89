----------------------- MODULE FeedbackIntents_proofs -----------------------
(* Theorems about FeedbackIntents, for every set of intents, screenshots,  *)
(* payloads and concurrent requests.                                       *)
EXTENDS FeedbackIntents, FiniteSetTheorems, TLAPS

\* Ending a request, moving it on and starting it keep pc and job well typed.
LEMMA EndTyped ==
    ASSUME TypeOK, NEW c \in Calls, End(c)
    PROVE  pc' \in [Calls -> Steps] /\ job' \in [Calls -> Jobs]
BY DEF TypeOK, End, Steps, Jobs, NoJob

\* A free request begins at one of the steps, with arguments.
LEMMA BeginTyped ==
    ASSUME TypeOK, NEW c \in Calls, NEW step \in Steps, NEW args \in Jobs,
           Begin(c, step, args)
    PROVE  pc' \in [Calls -> Steps] /\ job' \in [Calls -> Jobs]
BY DEF TypeOK, Begin

\* A request moves on to one of the steps and keeps its arguments.
LEMMA GotoTyped ==
    ASSUME TypeOK, NEW c \in Calls, NEW step \in Steps, Goto(c, step)
    PROVE  pc' \in [Calls -> Steps] /\ job' \in [Calls -> Jobs]
BY DEF TypeOK, Goto

\* What a request answers is an answer.
LEMMA ReplyTyped ==
    ASSUME TypeOK, NEW c \in Calls, NEW v \in Verdicts, NEW s \in Submissions \cup {None},
           Reply(c, v, s)
    PROVE  answer' \in Answers
BY DEF TypeOK, Reply, Answers, Jobs

\* A refused finalization ends its request with an answer.
LEMMA RefusedTyped ==
    ASSUME TypeOK, NEW c \in Calls, FinalizeRefused(c)
    PROVE  /\ pc' \in [Calls -> Steps]
           /\ job' \in [Calls -> Jobs]
           /\ answer' \in Answers
BY EndTyped, ReplyTyped DEF FinalizeRefused, Verdicts

\* A step that answers nothing leaves the empty answer.
LEMMA NoReplyTyped == NoReply => answer' \in Answers
BY DEF NoReply, NoAnswer, Answers

\* The empty database, with no request in flight, satisfies IndInv.
THEOREM InitInductive == Init => IndInv
BY MaxUploadsAssumption, NoneAssumption
DEF Init, IndInv, TypeOK, IntentRows, AttachmentRows, NoRow, SubmissionRows, Steps, Jobs,
    NoJob, Answers, NoAnswer, JobsFit, Fits, SubmissionsRecorded, LocksHeld, Finalizing

-----------------------------------------------------------------------------
(* A request that moves without touching the rows keeps the invariant when *)
(* its next step has the arguments it needs and takes no lock.             *)
LEMMA MoveKeepsInvariant ==
    ASSUME IndInv, TypeOK', NEW c \in Calls, NEW step \in Steps, NEW args \in Jobs,
           pc' = [pc EXCEPT ![c] = step],
           job' = [job EXCEPT ![c] = args],
           UNCHANGED <<intents, submissions>>,
           Fits(step, args),
           step \notin {"f_bind", "f_tag"}
    PROVE  IndInv'
<1>1. JobsFit'
  <2> SUFFICES ASSUME NEW d \in Calls PROVE Fits(pc[d], job[d])'
    BY DEF JobsFit
  <2>1. CASE d = c
    BY <2>1 DEF Fits, IndInv, TypeOK
  <2>2. CASE d # c
    BY <2>2 DEF Fits, IndInv, TypeOK, JobsFit
  <2> QED
    BY <2>1, <2>2
<1>2. SubmissionsRecorded'
  BY DEF IndInv, SubmissionsRecorded
<1>3. LocksHeld'
  BY DEF IndInv, TypeOK, LocksHeld, Finalizing
<1> QED
  BY <1>1, <1>2, <1>3 DEF IndInv

\* A request that ends without touching the rows needs no arguments any more.
LEMMA EndKeepsInvariant ==
    ASSUME IndInv, TypeOK', NEW c \in Calls, End(c), UNCHANGED <<intents, submissions>>
    PROVE  IndInv'
<1>1. NoJob \in Jobs /\ "idle" \in Steps /\ Fits("idle", NoJob)
  BY DEF NoJob, Jobs, Steps, Fits
<1> QED
  BY <1>1, MoveKeepsInvariant DEF End

\* A request that holds no row, or no longer writes, and is ended or refused.
LEMMA RefusalKeepsInvariant ==
    ASSUME IndInv, NEW c \in Calls, FinalizeRefused(c), UNCHANGED <<rows, deliveries, discarded>>,
           objects' \in [Attachments -> {"none", "pending", "bound", "gone"}],
           retags' \subseteq Attachments, purgeQueue' \subseteq Attachments
    PROVE  IndInv'
<1>1. TypeOK'
  BY RefusedTyped DEF IndInv, TypeOK, rows
<1> QED
  BY <1>1, EndKeepsInvariant DEF FinalizeRefused, rows

-----------------------------------------------------------------------------
(* One lemma per group of actions.                                         *)

\* The steps of finalizeIntent: the lock, the binding, the retags, the commit.
LEMMA FinalizeKeepsInvariant ==
    ASSUME IndInv, NEW c \in Calls, Finalize(c)
    PROVE  IndInv'
<1> USE DEF IndInv
<1>1. ASSUME NEW i \in Intents, NEW p \in Payloads, StartFinalize(c, i, p) PROVE IndInv'
  <2> DEFINE args == [NoJob EXCEPT !.intent = i, !.payload = p]
  <2>1. args \in Jobs /\ "f_lock" \in Steps /\ Fits("f_lock", args)
    BY DEF NoJob, Jobs, Steps, Fits
  <2>2. pc' \in [Calls -> Steps] /\ job' \in [Calls -> Jobs]
    BY <1>1, <2>1, BeginTyped DEF StartFinalize
  <2>3. TypeOK'
    BY <1>1, <2>2, NoReplyTyped DEF StartFinalize, TypeOK, rows, storage
  <2> QED
    BY <1>1, <2>1, <2>3, MoveKeepsInvariant DEF StartFinalize, Begin, rows
<1>2. CASE LockIntent(c)
  <2> DEFINE i == job[c].intent
  <2>1. i \in Intents /\ job[c].payload \in Payloads /\ job[c] \in Jobs
    BY <1>2 DEF LockIntent, JobsFit, Fits, TypeOK
  <2>2. CASE ReplayFinalized(c, i)
    <3>1. intents[i].submission \in Submissions \cup {None}
      BY <2>1 DEF TypeOK, IntentRows
    <3>2. answer' \in Answers
      BY <2>2, <3>1, ReplyTyped DEF ReplayFinalized, Verdicts
    <3>3. End(c)
      BY <2>2 DEF ReplayFinalized
    <3>4. TypeOK'
      BY <1>2, <3>2, <3>3, EndTyped DEF LockIntent, TypeOK, rows, storage
    <3> QED
      BY <1>2, <3>3, <3>4, EndKeepsInvariant DEF LockIntent, rows
  <2>3. CASE FinalizeRefused(c)
    BY <1>2, <2>3, RefusalKeepsInvariant DEF LockIntent, TypeOK, rows, storage
  <2>4. CASE /\ ~IntentLocked(i) /\ intents[i].status = "active"
             /\ Goto(c, "f_bind") /\ NoReply
    <3>1. TypeOK'
      BY <1>2, <2>4, GotoTyped, NoReplyTyped DEF LockIntent, Steps, TypeOK, rows, storage
    <3>2. JobsFit'
      BY <1>2, <2>1, <2>4 DEF LockIntent, Goto, JobsFit, Fits, TypeOK, rows
    <3>3. SubmissionsRecorded'
      BY <1>2 DEF LockIntent, SubmissionsRecorded, rows
    <3>4. LocksHeld'
      BY <1>2, <2>4 DEF LockIntent, LocksHeld, Goto, Finalizing, IntentLocked, TypeOK, rows
    <3> QED
      BY <3>1, <3>2, <3>3, <3>4
  <2> QED
    BY <1>2, <2>2, <2>3, <2>4 DEF LockIntent
<1>3. CASE BindAttachments(c)
  <2>1. CASE FinalizeRefused(c)
    BY <1>3, <2>1, RefusalKeepsInvariant DEF BindAttachments, TypeOK, rows, storage
  <2>2. CASE /\ pc' = [pc EXCEPT ![c] = "f_tag"]
             /\ job' = [job EXCEPT ![c].keys = Screenshots[job[c].payload]]
             /\ NoReply
    <3>1. pc[c] = "f_bind" /\ job[c].payload \in Payloads
      BY <1>3 DEF BindAttachments, JobsFit, Fits
    <3>2. job' \in [Calls -> Jobs] /\ pc' \in [Calls -> Steps]
      BY <2>2, <3>1, ScreenshotsAssumption DEF TypeOK, Jobs, Steps
    <3>3. TypeOK'
      BY <1>3, <2>2, <3>2, NoReplyTyped DEF BindAttachments, TypeOK, rows, storage
    <3>4. \A d \in Calls : /\ job'[d].intent = job[d].intent
                          /\ job'[d].payload = job[d].payload
                          /\ job'[d].attachment = job[d].attachment
                          /\ job'[d].submission = job[d].submission
      BY <2>2 DEF TypeOK, Jobs
    <3>5. pc'[c] = "f_tag" /\ \A d \in Calls \ {c} : pc'[d] = pc[d]
      BY <2>2 DEF TypeOK
    <3>6. JobsFit'
      BY <1>3, <3>1, <3>4, <3>5 DEF BindAttachments, JobsFit, Fits, rows
    <3>7. \A d \in Calls : Finalizing(d)' => Finalizing(d)
      BY <3>1, <3>5 DEF Finalizing
    <3>8. LocksHeld'
      BY <1>3, <3>4, <3>7 DEF BindAttachments, LocksHeld, rows
    <3> QED
      BY <1>3, <3>3, <3>6, <3>8 DEF BindAttachments, SubmissionsRecorded, rows
  <2> QED
    BY <1>3, <2>1, <2>2 DEF BindAttachments
<1>4. ASSUME NEW a \in Attachments, MarkBound(c, a) PROVE IndInv'
  <2>1. job' \in [Calls -> Jobs]
    BY <1>4 DEF MarkBound, TypeOK, Jobs
  <2>2. TypeOK'
    BY <1>4, <2>1, NoReplyTyped DEF MarkBound, Tag, TypeOK, rows
  <2>3. \A d \in Calls : /\ job'[d].intent = job[d].intent
                        /\ job'[d].payload = job[d].payload
                        /\ job'[d].attachment = job[d].attachment
                        /\ job'[d].submission = job[d].submission
    BY <1>4 DEF MarkBound, TypeOK, Jobs
  <2>4. JobsFit' /\ LocksHeld'
    BY <1>4, <2>3 DEF MarkBound, JobsFit, Fits, LocksHeld, Finalizing, rows
  <2> QED
    BY <1>4, <2>2, <2>4 DEF MarkBound, SubmissionsRecorded, rows
<1>5. CASE MarkBoundFails(c)
  <2>1. retags' \subseteq Attachments
    BY <1>5 DEF MarkBoundFails, TypeOK, Jobs
  <2> QED
    BY <1>5, <2>1, RefusalKeepsInvariant DEF MarkBoundFails, TypeOK, rows
<1>6. ASSUME NEW s \in Submissions, NEW queued \in BOOLEAN, CommitFinalize(c, s, queued)
      PROVE IndInv'
  <2> DEFINE i == job[c].intent
             p == job[c].payload
  <2>1. /\ i \in Intents /\ p \in Payloads /\ i # None
        /\ submissions[s].state = "unused"
        /\ Finalizing(c)
        /\ intents[i].status = "active"
    BY <1>6, NoneAssumption DEF CommitFinalize, JobsFit, Fits, LocksHeld, Finalizing
  <2>2. intents' = [intents EXCEPT ![i].status = "finalized",
                                   ![i].payload = p, ![i].submission = s]
    BY <1>6 DEF CommitFinalize
  <2>3. submissions' = [submissions EXCEPT ![s] =
                          [state |-> "live", intent |-> i, payload |-> p]]
    BY <1>6 DEF CommitFinalize
  <2>4. TypeOK'
    <3>1. intents' \in [Intents -> IntentRows]
      BY <2>1, <2>2 DEF TypeOK, IntentRows
    <3>2. submissions' \in [Submissions -> SubmissionRows]
      BY <2>1, <2>3 DEF TypeOK, SubmissionRows
    <3>3. attachments' \in [Attachments -> AttachmentRows]
      BY <1>6 DEF CommitFinalize, TypeOK, AttachmentRows, NoRow, HasRow
    <3>4. End(c) /\ answer' \in Answers
      BY <1>6, ReplyTyped DEF CommitFinalize, Verdicts
    <3> QED
      BY <1>6, <3>1, <3>2, <3>3, <3>4, EndTyped DEF CommitFinalize, TypeOK, storage
  <2>5. JobsFit'
    BY <1>6, <2>3 DEF CommitFinalize, End, NoJob, JobsFit, Fits, TypeOK
  <2>6. SubmissionsRecorded'
    BY <2>1, <2>2, <2>3 DEF SubmissionsRecorded, TypeOK, IntentRows, SubmissionRows
  <2>7. LocksHeld'
    <3>1. \A d \in Calls : d # c => pc'[d] = pc[d] /\ job'[d] = job[d]
      BY <1>6 DEF CommitFinalize, End, TypeOK
    <3>2. ~Finalizing(c)'
      BY <1>6 DEF CommitFinalize, End, Finalizing, TypeOK
    <3>3. ASSUME NEW d \in Calls, Finalizing(d)'
          PROVE  /\ intents'[job'[d].intent].status = "active"
                 /\ Finalizing(d) /\ job'[d].intent = job[d].intent
      <4>1. d # c /\ Finalizing(d) /\ job'[d] = job[d]
        BY <3>1, <3>2, <3>3 DEF Finalizing
      <4>2. job[d].intent # i /\ job[d].intent \in Intents
        BY <2>1, <4>1 DEF LocksHeld, JobsFit, Fits, Finalizing
      <4>3. intents[job[d].intent].status = "active"
        BY <4>1 DEF LocksHeld
      <4> QED
        BY <2>2, <4>1, <4>2, <4>3 DEF TypeOK
    <3> QED
      BY <3>3 DEF LocksHeld
  <2> QED
    BY <2>4, <2>5, <2>6, <2>7
<1> QED
  BY <1>1, <1>2, <1>3, <1>4, <1>5, <1>6 DEF Finalize

\* A step that keeps pc, job and the submissions and changes of the intents
\* only what no one holding a lock relies on.
LEMMA RowsKeepInvariant ==
    ASSUME IndInv, TypeOK', UNCHANGED <<pc, job, submissions>>,
           \A i \in Intents : /\ intents'[i].submission = intents[i].submission
                             /\ \/ intents'[i].status = intents[i].status
                                \/ intents[i].status = "none"
    PROVE  IndInv'
<1>1. JobsFit'
  BY DEF IndInv, JobsFit, Fits
<1>2. SubmissionsRecorded'
  BY DEF IndInv, SubmissionsRecorded
<1>3. LocksHeld'
  BY DEF IndInv, LocksHeld, JobsFit, Fits, Finalizing
<1> QED
  BY <1>1, <1>2, <1>3 DEF IndInv

\* The steps of uploadAttachment: they touch an intent only to reserve its slot.
LEMMA UploadKeepsInvariant ==
    ASSUME IndInv, NEW c \in Calls, Upload(c)
    PROVE  IndInv'
<1> USE DEF IndInv
<1>1. ASSUME NEW i \in Intents, StartUpload(c, i) PROVE IndInv'
  <2> DEFINE args == [NoJob EXCEPT !.intent = i]
  <2>1. args \in Jobs /\ "u_slot" \in Steps /\ Fits("u_slot", args)
    BY DEF NoJob, Jobs, Steps, Fits
  <2>2. TypeOK'
    BY <1>1, <2>1, BeginTyped, NoReplyTyped DEF StartUpload, TypeOK, rows, storage
  <2> QED
    BY <1>1, <2>1, <2>2, MoveKeepsInvariant DEF StartUpload, Begin, rows
<1>2. CASE ReserveUploadSlot(c)
  <2> DEFINE i == job[c].intent
  <2>1. i \in Intents /\ job[c] \in Jobs
    BY <1>2 DEF ReserveUploadSlot, JobsFit, Fits, TypeOK
  <2>2. CASE End(c) /\ UNCHANGED intents
    <3>1. TypeOK'
      BY <1>2, <2>2, EndTyped, NoReplyTyped DEF ReserveUploadSlot, TypeOK, storage
    <3> QED
      BY <1>2, <2>2, <3>1, EndKeepsInvariant DEF ReserveUploadSlot
  <2>3. CASE /\ SlotFree(i)
             /\ intents' = [intents EXCEPT ![i].uploads = @ + 1]
             /\ Goto(c, "u_put")
    <3>1. intents' \in [Intents -> IntentRows]
      <4>1. intents[i].uploads + 1 \in 0 .. IntentMaxUploads
        BY <2>1, <2>3, MaxUploadsAssumption DEF SlotFree, TypeOK, IntentRows
      <4> QED
        BY <2>1, <2>3, <4>1 DEF TypeOK, IntentRows
    <3>2. TypeOK'
      BY <1>2, <2>3, <3>1, GotoTyped, NoReplyTyped DEF ReserveUploadSlot, TypeOK, Steps, storage
    <3>3. \A j \in Intents : /\ intents'[j].status = intents[j].status
                            /\ intents'[j].submission = intents[j].submission
      BY <2>3 DEF TypeOK, IntentRows
    <3>4. JobsFit'
      BY <1>2, <2>1, <2>3 DEF ReserveUploadSlot, Goto, JobsFit, Fits, TypeOK
    <3>5. SubmissionsRecorded'
      BY <1>2, <3>3 DEF ReserveUploadSlot, SubmissionsRecorded
    <3>6. \A d \in Calls : Finalizing(d)' => Finalizing(d) /\ job[d].intent \in Intents
      BY <2>3 DEF Goto, Finalizing, TypeOK, JobsFit, Fits
    <3>7. LocksHeld'
      BY <2>3, <3>3, <3>6 DEF Goto, LocksHeld
    <3> QED
      BY <3>2, <3>4, <3>5, <3>7
  <2> QED
    BY <1>2, <2>2, <2>3 DEF ReserveUploadSlot
<1>3. CASE UploadRefused(c)
  <2>1. TypeOK'
    BY <1>3, EndTyped, NoReplyTyped DEF UploadRefused, TypeOK, rows, storage
  <2> QED
    BY <1>3, <2>1, EndKeepsInvariant DEF UploadRefused, rows
<1>4. ASSUME NEW a \in Attachments, PutPending(c, a) PROVE IndInv'
  <2> DEFINE args == [job[c] EXCEPT !.attachment = a]
  <2>1. args \in Jobs /\ "u_row" \in Steps /\ Fits("u_row", args)
    BY <1>4 DEF PutPending, Jobs, Steps, JobsFit, Fits, TypeOK
  <2>2. pc' = [pc EXCEPT ![c] = "u_row"] /\ job' = [job EXCEPT ![c] = args]
    BY <1>4 DEF PutPending
  <2>3. TypeOK'
    BY <1>4, <2>1, <2>2, NoReplyTyped DEF PutPending, TypeOK, rows
  <2> QED
    BY <1>4, <2>1, <2>2, <2>3, MoveKeepsInvariant DEF PutPending, rows
<1>5. CASE InsertAttachment(c)
  <2>1. attachments' \in [Attachments -> AttachmentRows]
    BY <1>5 DEF InsertAttachment, JobsFit, Fits, TypeOK, AttachmentRows
  <2>2. TypeOK'
    BY <1>5, <2>1, EndTyped, NoReplyTyped DEF InsertAttachment, TypeOK, storage
  <2> QED
    BY <1>5, <2>2, EndKeepsInvariant DEF InsertAttachment
<1> QED
  BY <1>1, <1>2, <1>3, <1>4, <1>5 DEF Upload

\* The steps of discardPendingAttachment: they touch attachments only.
LEMMA DiscardKeepsInvariant ==
    ASSUME IndInv, NEW c \in Calls, Discard(c)
    PROVE  IndInv'
<1> USE DEF IndInv
<1>1. ASSUME NEW i \in Intents, NEW a \in Attachments, StartDiscard(c, i, a) PROVE IndInv'
  <2> DEFINE args == [NoJob EXCEPT !.intent = i, !.attachment = a]
  <2>1. args \in Jobs /\ "d_find" \in Steps /\ Fits("d_find", args)
    BY DEF NoJob, Jobs, Steps, Fits
  <2>2. TypeOK'
    BY <1>1, <2>1, BeginTyped, NoReplyTyped DEF StartDiscard, TypeOK, rows, storage
  <2> QED
    BY <1>1, <2>1, <2>2, MoveKeepsInvariant DEF StartDiscard, Begin, rows
<1>2. CASE FindPending(c)
  <2>1. CASE Goto(c, "d_row")
    <3>1. job[c] \in Jobs /\ "d_row" \in Steps /\ Fits("d_row", job[c])
      BY <1>2 DEF FindPending, Steps, JobsFit, Fits, TypeOK
    <3>2. TypeOK'
      BY <1>2, <2>1, GotoTyped, NoReplyTyped, <3>1 DEF FindPending, TypeOK, rows, storage
    <3>3. job' = [job EXCEPT ![c] = job[c]]
      BY <2>1 DEF Goto, TypeOK
    <3> QED
      BY <1>2, <2>1, <3>1, <3>2, <3>3, MoveKeepsInvariant DEF FindPending, Goto, rows
  <2>2. CASE End(c)
    <3>1. TypeOK'
      BY <1>2, <2>2, EndTyped, NoReplyTyped DEF FindPending, TypeOK, rows, storage
    <3> QED
      BY <1>2, <2>2, <3>1, EndKeepsInvariant DEF FindPending, rows
  <2> QED
    BY <1>2, <2>1, <2>2 DEF FindPending
<1>3. CASE DeleteAttachmentRow(c)
  <2>1. job[c] \in Jobs /\ "d_object" \in Steps /\ Fits("d_object", job[c])
    BY <1>3 DEF DeleteAttachmentRow, Steps, JobsFit, Fits, TypeOK
  <2>2. attachments' \in [Attachments -> AttachmentRows] /\ discarded' \subseteq Attachments
    BY <1>3 DEF DeleteAttachmentRow, JobsFit, Fits, TypeOK, AttachmentRows
  <2>3. TypeOK'
    BY <1>3, <2>1, <2>2, GotoTyped, NoReplyTyped DEF DeleteAttachmentRow, TypeOK, storage
  <2>4. job' = [job EXCEPT ![c] = job[c]]
    BY <1>3 DEF DeleteAttachmentRow, Goto, TypeOK
  <2> QED
    BY <1>3, <2>1, <2>3, <2>4, MoveKeepsInvariant DEF DeleteAttachmentRow, Goto
<1>4. CASE DeleteObject(c)
  <2>1. objects' \in [Attachments -> {"none", "pending", "bound", "gone"}]
    BY <1>4 DEF DeleteObject, TypeOK
  <2>2. TypeOK'
    BY <1>4, <2>1, EndTyped, NoReplyTyped DEF DeleteObject, TypeOK, rows
  <2> QED
    BY <1>4, <2>2, EndKeepsInvariant DEF DeleteObject, rows
<1> QED
  BY <1>1, <1>2, <1>3, <1>4 DEF Discard

\* The deletion of a submission or of the database keeps what an intent recorded.
LEMMA DeleteKeepsInvariant ==
    ASSUME IndInv, NEW c \in Calls, Delete(c)
    PROVE  IndInv'
<1> USE DEF IndInv
<1>1. ASSUME NEW s \in Submissions, StartDeleteSubmission(c, s) PROVE IndInv'
  <2> DEFINE args == [NoJob EXCEPT !.submission = s, !.keys = FilesOf(s)]
  <2>1. args \in Jobs /\ "r_commit" \in Steps /\ Fits("r_commit", args)
    BY <1>1 DEF StartDeleteSubmission, NoJob, Jobs, Steps, Fits, FilesOf
  <2>2. TypeOK'
    BY <1>1, <2>1, BeginTyped, NoReplyTyped DEF StartDeleteSubmission, TypeOK, rows, storage
  <2> QED
    BY <1>1, <2>1, <2>2, MoveKeepsInvariant DEF StartDeleteSubmission, Begin, rows
<1>2. CASE DeleteSubmission(c)
  <2> DEFINE s == job[c].submission
             i == submissions[s].intent
  <2>1. s \in Submissions /\ submissions[s].state # "unused" /\ i \in Intents
    BY <1>2 DEF DeleteSubmission, JobsFit, Fits, SubmissionsRecorded
  <2>2. intents' \in [Intents -> IntentRows]
    BY <1>2, <2>1 DEF DeleteSubmission, TypeOK, IntentRows
  <2>3. submissions' = [submissions EXCEPT ![s].state = "deleted"]
    BY <1>2 DEF DeleteSubmission
  <2>4. TypeOK'
    <3>1. submissions' \in [Submissions -> SubmissionRows]
      BY <2>3 DEF TypeOK, SubmissionRows
    <3>2. attachments' \in [Attachments -> AttachmentRows]
      BY <1>2 DEF DeleteSubmission, TypeOK, AttachmentRows
    <3>3. purgeQueue' \subseteq Attachments /\ deliveries' \subseteq Submissions
      BY <1>2 DEF DeleteSubmission, DeliveriesWithout, TypeOK, Jobs
    <3> QED
      BY <1>2, <2>2, <3>1, <3>2, <3>3, EndTyped, NoReplyTyped DEF DeleteSubmission, TypeOK
  <2>5. \A j \in Intents : /\ intents'[j].status = intents[j].status
                          /\ intents'[j].submission = intents[j].submission
    BY <1>2 DEF DeleteSubmission, TypeOK, IntentRows
  <2>6. \A t \in Submissions : /\ submissions'[t].state = "unused" <=> submissions[t].state = "unused"
                              /\ submissions'[t].intent = submissions[t].intent
    BY <2>1, <2>3 DEF TypeOK, SubmissionRows
  <2>7. JobsFit'
    BY <1>2, <2>6 DEF DeleteSubmission, End, NoJob, JobsFit, Fits, TypeOK
  <2>8. SubmissionsRecorded'
    BY <2>5, <2>6 DEF SubmissionsRecorded
  <2>9. \A d \in Calls : Finalizing(d)' => /\ Finalizing(d) /\ job'[d] = job[d]
                                          /\ job[d].intent \in Intents
    BY <1>2 DEF DeleteSubmission, End, Finalizing, TypeOK, JobsFit, Fits
  <2>10. LocksHeld'
    BY <2>5, <2>9 DEF LocksHeld
  <2> QED
    BY <2>4, <2>7, <2>8, <2>10
<1>3. CASE StartDeleteDatabase(c)
  <2> DEFINE args == [NoJob EXCEPT !.keys = {a \in Attachments : HasRow(a)}]
  <2>1. args \in Jobs /\ "x_lock" \in Steps /\ Fits("x_lock", args)
    BY DEF NoJob, Jobs, Steps, Fits
  <2>2. TypeOK'
    BY <1>3, <2>1, BeginTyped, NoReplyTyped DEF StartDeleteDatabase, TypeOK, rows, storage
  <2> QED
    BY <1>3, <2>1, <2>2, MoveKeepsInvariant DEF StartDeleteDatabase, Begin, rows
<1>4. CASE LockDatabase(c)
  <2>1. CASE Goto(c, "x_cascade")
    <3>1. job[c] \in Jobs /\ "x_cascade" \in Steps /\ Fits("x_cascade", job[c])
      BY DEF Steps, Fits, TypeOK
    <3>2. TypeOK'
      BY <1>4, <2>1, <3>1, GotoTyped, NoReplyTyped DEF LockDatabase, TypeOK, rows, storage
    <3>3. job' = [job EXCEPT ![c] = job[c]]
      BY <2>1 DEF Goto, TypeOK
    <3> QED
      BY <1>4, <2>1, <3>1, <3>2, <3>3, MoveKeepsInvariant DEF LockDatabase, Goto, rows
  <2>2. CASE End(c)
    <3>1. TypeOK'
      BY <1>4, <2>2, EndTyped, NoReplyTyped DEF LockDatabase, TypeOK, rows, storage
    <3> QED
      BY <1>4, <2>2, <3>1, EndKeepsInvariant DEF LockDatabase, rows
  <2> QED
    BY <1>4, <2>1, <2>2 DEF LockDatabase
<1>5. CASE DeleteDatabase(c)
  <2>1. \A i \in Intents : /\ intents'[i].status = "gone"
                          /\ intents'[i].submission = intents[i].submission
    BY <1>5 DEF DeleteDatabase, TypeOK, IntentRows
  <2>2. \A t \in Submissions : /\ submissions'[t].state = "unused" <=> submissions[t].state = "unused"
                              /\ submissions'[t].intent = submissions[t].intent
    BY <1>5 DEF DeleteDatabase, TypeOK, SubmissionRows
  <2>3. TypeOK'
    <3>1. intents' \in [Intents -> IntentRows]
      BY <1>5 DEF DeleteDatabase, TypeOK, IntentRows
    <3>2. submissions' \in [Submissions -> SubmissionRows]
      BY <1>5 DEF DeleteDatabase, TypeOK, SubmissionRows
    <3>3. attachments' \in [Attachments -> AttachmentRows]
      BY <1>5 DEF DeleteDatabase, AttachmentRows
    <3>4. purgeQueue' \subseteq Attachments
      BY <1>5 DEF DeleteDatabase, TypeOK, Jobs
    <3> QED
      BY <1>5, <3>1, <3>2, <3>3, <3>4, EndTyped, NoReplyTyped DEF DeleteDatabase, TypeOK
  <2>4. JobsFit'
    BY <1>5, <2>2 DEF DeleteDatabase, End, NoJob, JobsFit, Fits, TypeOK
  <2>5. SubmissionsRecorded'
    BY <2>1, <2>2 DEF SubmissionsRecorded
  <2>6. \A d \in Calls : ~Finalizing(d)'
    BY <1>5 DEF DeleteDatabase, IntentLocked, End, Finalizing, TypeOK, JobsFit, Fits
  <2>7. LocksHeld'
    BY <2>6 DEF LocksHeld
  <2> QED
    BY <2>3, <2>4, <2>5, <2>7
<1> QED
  BY <1>1, <1>2, <1>3, <1>4, <1>5 DEF Delete

\* A request that dies releases its locks and has written nothing more.
LEMMA DieKeepsInvariant ==
    ASSUME IndInv, NEW c \in Calls, Die(c)
    PROVE  IndInv'
<1>1. retags' \subseteq Attachments
  BY DEF Die, IndInv, TypeOK, Jobs
<1>2. TypeOK'
  BY <1>1, EndTyped, NoReplyTyped DEF Die, IndInv, TypeOK, rows
<1> QED
  BY <1>2, EndKeepsInvariant DEF Die, rows

\* Clocks, the store, the purge worker and new intents around the handlers.
LEMMA EnvironmentKeepsInvariant ==
    ASSUME IndInv, Environment
    PROVE  IndInv'
<1> USE DEF IndInv
<1>1. ASSUME NEW i \in Intents, CreateIntent(i) \/ Expire(i) PROVE IndInv'
  <2>0. intents \in [Intents -> IntentRows]
    BY DEF TypeOK
  <2>1. intents' \in [Intents -> IntentRows]
    <3>1. CASE CreateIntent(i)
      BY <2>0, <3>1 DEF CreateIntent, IntentRows
    <3>2. CASE Expire(i)
      BY <2>0, <3>2 DEF Expire, IntentRows
    <3> QED
      BY <1>1, <3>1, <3>2
  <2>2. TypeOK'
    BY <1>1, <2>1, NoReplyTyped DEF CreateIntent, Expire, TypeOK, storage
  <2>3. \A j \in Intents : /\ intents'[j].submission = intents[j].submission
                          /\ \/ intents'[j].status = intents[j].status
                             \/ intents[j].status = "none"
    BY <1>1 DEF CreateIntent, Expire, TypeOK, IntentRows
  <2> QED
    BY <1>1, <2>2, <2>3, RowsKeepInvariant DEF CreateIntent, Expire
<1>2. ASSUME NEW a \in Attachments, RetagEnds(a) \/ PurgeObject(a) \/ ExpirePending(a)
      PROVE  IndInv'
  <2>1. objects' \in [Attachments -> {"none", "pending", "bound", "gone"}]
    BY <1>2 DEF RetagEnds, PurgeObject, ExpirePending, Tag, TypeOK
  <2>2. TypeOK'
    BY <1>2, <2>1, NoReplyTyped DEF RetagEnds, PurgeObject, ExpirePending, TypeOK, rows
  <2> QED
    BY <1>2, <2>2, RowsKeepInvariant DEF RetagEnds, PurgeObject, ExpirePending, rows
<1>3. ASSUME NEW f \in Calls, NEW x \in Calls, BreakDeadlock(f, x) PROVE IndInv'
  <2>1. CASE FinalizeRefused(f)
    BY <1>3, <2>1, RefusalKeepsInvariant DEF BreakDeadlock, TypeOK, rows, storage
  <2>2. CASE End(x) /\ NoReply
    <3>1. TypeOK'
      BY <1>3, <2>2, EndTyped, NoReplyTyped DEF BreakDeadlock, TypeOK, rows, storage
    <3> QED
      BY <1>3, <2>2, <3>1, EndKeepsInvariant DEF BreakDeadlock, rows
  <2> QED
    BY <1>3, <2>1, <2>2 DEF BreakDeadlock
<1> QED
  BY <1>1, <1>2, <1>3 DEF Environment

\* A step that changes nothing.
LEMMA StutterKeepsInvariant ==
    ASSUME IndInv, UNCHANGED vars
    PROVE  IndInv'
BY DEF vars, IndInv, TypeOK, JobsFit, Fits, SubmissionsRecorded, LocksHeld, Finalizing

-----------------------------------------------------------------------------
\* IndInv holds throughout every behaviour of the handlers: rows and requests
\* stay well typed, locks exclude, and each stored submission is the one its
\* intent records.
THEOREM Invariance == Spec => []IndInv
<1>1. Init => IndInv
  BY InitInductive
<1>2. IndInv /\ [Next]_vars => IndInv'
  BY FinalizeKeepsInvariant, UploadKeepsInvariant, DiscardKeepsInvariant,
     DeleteKeepsInvariant, DieKeepsInvariant, EnvironmentKeepsInvariant,
     StutterKeepsInvariant
  DEF Next
<1> QED
  BY <1>1, <1>2, PTL DEF Spec

\* Rows, objects, queues and requests keep their types, the upload count of an
\* intent within IntentMaxUploads included.
THEOREM TypeCorrect == Spec => []TypeOK
<1>1. IndInv => TypeOK
  BY DEF IndInv
<1> QED
  BY <1>1, Invariance, PTL

\* However many clients retry, race, crash and delete, an intent never yields a
\* second submission.
THEOREM AtMostOneSubmission == Spec => []OneSubmissionPerIntent
<1>1. IndInv => OneSubmissionPerIntent
  BY DEF IndInv, SubmissionsRecorded, OneSubmissionPerIntent
<1> QED
  BY <1>1, Invariance, PTL

-----------------------------------------------------------------------------
(* The announcements, and the retry contract                               *)

\* Every step of the handlers and around them keeps IndInv.
LEMMA NextInductive == IndInv /\ [Next]_vars => IndInv'
BY FinalizeKeepsInvariant, UploadKeepsInvariant, DiscardKeepsInvariant,
   DeleteKeepsInvariant, DieKeepsInvariant, EnvironmentKeepsInvariant,
   StutterKeepsInvariant
DEF Next

\* The three transactions that write submissions.
Writes == \E c \in Calls :
    \/ \E s \in Submissions, queued \in BOOLEAN : CommitFinalize(c, s, queued)
    \/ DeleteSubmission(c)
    \/ DeleteDatabase(c)

\* Every other step leaves submissions and their announcements alone, and of an
\* intent it writes at most the upload count, the clock, and its creation.
LEMMA OthersKeepOutcomes ==
    ASSUME IndInv, [Next]_vars, ~Writes
    PROVE  /\ UNCHANGED <<submissions, deliveries, database>>
           /\ \A i \in Intents : /\ intents'[i].payload = intents[i].payload
                                 /\ intents'[i].submission = intents[i].submission
                                 /\ intents'[i].deleted = intents[i].deleted
                                 /\ \/ intents'[i].status = intents[i].status
                                    \/ /\ intents[i].status = "none"
                                       /\ intents'[i].status = "active"
<1> USE DEF rows, storage
<1>1. CASE \E i \in Intents : CreateIntent(i) \/ Expire(i)
  BY <1>1 DEF CreateIntent, Expire, IndInv, TypeOK, IntentRows
<1>2. CASE \E c \in Calls : ReserveUploadSlot(c)
  BY <1>2 DEF ReserveUploadSlot, IndInv, TypeOK, JobsFit, Fits, IntentRows
<1>3. ASSUME UNCHANGED <<submissions, deliveries, database, intents>>
      PROVE  /\ UNCHANGED <<submissions, deliveries, database>>
             /\ \A i \in Intents : /\ intents'[i].payload = intents[i].payload
                                   /\ intents'[i].submission = intents[i].submission
                                   /\ intents'[i].deleted = intents[i].deleted
                                   /\ intents'[i].status = intents[i].status
  BY <1>3
<1>4. ASSUME NEW c \in Calls, Finalize(c)
      PROVE  UNCHANGED <<submissions, deliveries, database, intents>>
  BY <1>4 DEF Writes, Finalize, StartFinalize, LockIntent, BindAttachments, MarkBound,
              MarkBoundFails
<1>5. ASSUME NEW c \in Calls, Upload(c), ~ReserveUploadSlot(c)
      PROVE  UNCHANGED <<submissions, deliveries, database, intents>>
  BY <1>5 DEF Upload, StartUpload, UploadRefused, PutPending, InsertAttachment
<1>6. ASSUME NEW c \in Calls, Discard(c) \/ Die(c)
      PROVE  UNCHANGED <<submissions, deliveries, database, intents>>
  BY <1>6 DEF Discard, StartDiscard, FindPending, DeleteAttachmentRow, DeleteObject, Die
<1>7. ASSUME NEW c \in Calls, Delete(c)
      PROVE  UNCHANGED <<submissions, deliveries, database, intents>>
  BY <1>7 DEF Writes, Delete, StartDeleteSubmission, StartDeleteDatabase, LockDatabase
<1>8. ASSUME Environment, ~\E i \in Intents : CreateIntent(i) \/ Expire(i)
      PROVE  UNCHANGED <<submissions, deliveries, database, intents>>
  BY <1>8 DEF Environment, RetagEnds, PurgeObject, ExpirePending, BreakDeadlock
<1>9. CASE UNCHANGED vars
  BY <1>3, <1>9 DEF vars
<1> QED
  BY <1>1, <1>2, <1>3, <1>4, <1>5, <1>6, <1>7, <1>8, <1>9 DEF Next

\* What the commit of a finalization writes: its intent was open, its submission
\* unused.
LEMMA CommitFacts ==
    ASSUME IndInv, NEW c \in Calls, NEW s \in Submissions, NEW queued \in BOOLEAN,
           CommitFinalize(c, s, queued)
    PROVE  /\ job[c].intent \in Intents /\ job[c].payload \in Payloads
           /\ intents[job[c].intent].status = "active"
           /\ submissions[s].state = "unused"
           /\ submissions' = [submissions EXCEPT ![s] =
                 [state |-> "live", intent |-> job[c].intent, payload |-> job[c].payload]]
           /\ \A i \in Intents : i # job[c].intent => intents'[i] = intents[i]
           /\ intents'[job[c].intent].status = "finalized"
           /\ intents'[job[c].intent].payload = job[c].payload
           /\ intents'[job[c].intent].submission = s
           /\ intents'[job[c].intent].deleted = intents[job[c].intent].deleted
<1>1. pc[c] = "f_tag" /\ Finalizing(c)
  BY DEF CommitFinalize, Finalizing
<1>2. /\ job[c].intent \in Intents /\ job[c].payload \in Payloads
      /\ intents[job[c].intent].status = "active"
  BY <1>1 DEF IndInv, JobsFit, Fits, LocksHeld
<1> QED
  BY <1>2 DEF CommitFinalize, IndInv, TypeOK, IntentRows

\* What the deletion of a submission writes: the submission and its own intent.
LEMMA DeleteFacts ==
    ASSUME IndInv, NEW c \in Calls, DeleteSubmission(c)
    PROVE  /\ job[c].submission \in Submissions
           /\ submissions[job[c].submission].state # "unused"
           /\ submissions[job[c].submission].intent \in Intents
           /\ intents[submissions[job[c].submission].intent].submission = job[c].submission
           /\ submissions' = [submissions EXCEPT ![job[c].submission].state = "deleted"]
           /\ \A i \in Intents :
                 /\ i # submissions[job[c].submission].intent => intents'[i] = intents[i]
                 /\ intents'[i].status = intents[i].status
                 /\ intents'[i].payload = intents[i].payload
                 /\ intents'[i].submission = intents[i].submission
                 /\ i = submissions[job[c].submission].intent =>
                       intents'[i].deleted = (RowExists(i) \/ intents[i].deleted)
<1> DEFINE s == job[c].submission
           j == submissions[s].intent
<1>1. /\ s \in Submissions /\ submissions[s].state # "unused" /\ j \in Intents
      /\ intents[j].submission = s
  BY DEF DeleteSubmission, IndInv, JobsFit, Fits, SubmissionsRecorded
<1>2. /\ intents' = IF RowExists(j) THEN [intents EXCEPT ![j].deleted = TRUE] ELSE intents
      /\ submissions' = [submissions EXCEPT ![s].state = "deleted"]
  BY DEF DeleteSubmission
<1>3. intents \in [Intents -> IntentRows]
  BY DEF IndInv, TypeOK
<1>4. \A i \in Intents :
         /\ i # j => intents'[i] = intents[i]
         /\ intents'[i].status = intents[i].status
         /\ intents'[i].payload = intents[i].payload
         /\ intents'[i].submission = intents[i].submission
         /\ i = j => intents'[i].deleted = (RowExists(i) \/ intents[i].deleted)
  <2>1. CASE RowExists(j)
    BY <1>1, <1>2, <1>3, <2>1 DEF IntentRows
  <2>2. CASE ~RowExists(j)
    BY <1>1, <1>2, <1>3, <2>2 DEF IntentRows
  <2> QED
    BY <2>1, <2>2
<1> QED
  BY <1>1, <1>2, <1>4

\* The queue of announcements loses what a deletion takes, and gains what a commit
\* has just stored.
LEMMA StepKeepsAnnouncements ==
    ASSUME IndInv, QueuedAnnounceLive, [Next]_vars
    PROVE  QueuedAnnounceLive'
<1>0. deliveries \subseteq Submissions /\ submissions \in [Submissions -> SubmissionRows]
  BY DEF IndInv, TypeOK
<1>1. ASSUME NEW c \in Calls, NEW s \in Submissions, NEW queued \in BOOLEAN,
             CommitFinalize(c, s, queued)
      PROVE  QueuedAnnounceLive'
  <2>1. submissions' = [submissions EXCEPT ![s] =
           [state |-> "live", intent |-> job[c].intent, payload |-> job[c].payload]]
    BY <1>1, CommitFacts
  <2>2. deliveries' \subseteq deliveries \cup {s}
    BY <1>1 DEF CommitFinalize
  <2> QED
    BY <1>0, <2>1, <2>2 DEF QueuedAnnounceLive
<1>2. ASSUME NEW c \in Calls, DeleteSubmission(c) PROVE QueuedAnnounceLive'
  <2>1. submissions' = [submissions EXCEPT ![job[c].submission].state = "deleted"]
    BY <1>2, DeleteFacts
  <2>2. deliveries' = deliveries \ {job[c].submission}
    BY <1>2 DEF DeleteSubmission, DeliveriesWithout
  <2> QED
    BY <1>0, <2>1, <2>2 DEF QueuedAnnounceLive
<1>3. ASSUME NEW c \in Calls, DeleteDatabase(c) PROVE QueuedAnnounceLive'
  BY <1>3 DEF DeleteDatabase, QueuedAnnounceLive
<1>4. CASE ~Writes
  BY <1>4, OthersKeepOutcomes DEF QueuedAnnounceLive
<1> QED
  BY <1>1, <1>2, <1>3, <1>4 DEF Writes

\* OutcomesAgree is kept: a submission is marked deleted with its intent, and an
\* intent is marked deleted only when it was finalized.
LEMMA StepKeepsOutcomes ==
    ASSUME IndInv, OutcomesAgree, [Next]_vars
    PROVE  OutcomesAgree'
<1>0. /\ submissions \in [Submissions -> SubmissionRows] /\ intents \in [Intents -> IntentRows]
      /\ None \notin Submissions
  BY NoneAssumption DEF IndInv, TypeOK
<1>a. \A i \in Intents : intents[i].submission \in Submissions \cup {None}
  BY <1>0 DEF IntentRows
<1>1. ASSUME NEW c \in Calls, NEW s \in Submissions, NEW queued \in BOOLEAN,
             CommitFinalize(c, s, queued)
      PROVE  OutcomesAgree'
  <2> DEFINE j == job[c].intent
  <2>1. /\ j \in Intents /\ intents[j].status = "active" /\ submissions[s].state = "unused"
        /\ \A i \in Intents : i # j => intents'[i] = intents[i]
        /\ intents'[j].status = "finalized" /\ intents'[j].submission = s
        /\ intents'[j].deleted = intents[j].deleted
    BY <1>1, CommitFacts
  <2>2. /\ submissions'[s].state = "live" /\ submissions'[s].intent = j
        /\ \A t \in Submissions \ {s} : submissions'[t] = submissions[t]
    BY <1>0, <1>1, CommitFacts
  <2>3. ~intents[j].deleted
    BY <2>1 DEF OutcomesAgree
  <2>4. \A i \in Intents : i # j => intents[i].submission # s
    BY <1>0, <2>1 DEF OutcomesAgree
  <2> QED
    BY <1>0, <1>a, <2>1, <2>2, <2>3, <2>4 DEF OutcomesAgree
<1>2. ASSUME NEW c \in Calls, DeleteSubmission(c) PROVE OutcomesAgree'
  <2> DEFINE s == job[c].submission
             j == submissions[s].intent
  <2>1. /\ s \in Submissions /\ submissions[s].state # "unused" /\ j \in Intents
        /\ intents[j].submission = s
        /\ submissions' = [submissions EXCEPT ![s].state = "deleted"]
        /\ \A i \in Intents : i # j => intents'[i] = intents[i]
        /\ \A i \in Intents : /\ intents'[i].status = intents[i].status
                              /\ intents'[i].submission = intents[i].submission
        /\ intents'[j].deleted = (RowExists(j) \/ intents[j].deleted)
    BY <1>2, DeleteFacts
  <2>2. /\ submissions'[s].state = "deleted" /\ submissions'[s].intent = submissions[s].intent
        /\ \A t \in Submissions \ {s} : submissions'[t] = submissions[t]
    BY <1>0, <2>1 DEF SubmissionRows
  <2>3. intents[j].status \in {"finalized", "gone"}
    BY <2>1 DEF IndInv, SubmissionsRecorded
  <2>4. \A i \in Intents : i # j => intents[i].submission # s
    BY <1>0, <2>1 DEF OutcomesAgree
  <2> SUFFICES ASSUME NEW i \in Intents
               PROVE  /\ intents'[i].status \in {"none", "active"} => ~intents'[i].deleted
                      /\ intents'[i].submission # None =>
                            /\ submissions'[intents'[i].submission].state # "unused"
                            /\ submissions'[intents'[i].submission].intent = i
                      /\ intents'[i].status = "finalized" =>
                            /\ intents'[i].submission \in Submissions
                            /\ submissions'[intents'[i].submission].state =
                                  IF intents'[i].deleted THEN "deleted" ELSE "live"
    BY DEF OutcomesAgree
  <2>5. CASE i = j
    BY <2>1, <2>2, <2>3, <2>5 DEF OutcomesAgree, RowExists
  <2>6. CASE i # j
    <3>1. intents[i].submission # None => intents[i].submission \in Submissions \ {s}
      BY <1>a, <2>4, <2>6
    <3> QED
      BY <2>1, <2>2, <2>6, <3>1, <1>0, <1>a DEF OutcomesAgree
  <2> QED
    BY <2>5, <2>6
<1>3. ASSUME NEW c \in Calls, DeleteDatabase(c) PROVE OutcomesAgree'
  <2>1. \A i \in Intents : /\ intents'[i].status = "gone"
                           /\ intents'[i].submission = intents[i].submission
    BY <1>0, <1>3 DEF DeleteDatabase, IntentRows
  <2>2. \A t \in Submissions : /\ submissions'[t].state = "unused" <=> submissions[t].state = "unused"
                              /\ submissions'[t].intent = submissions[t].intent
    BY <1>0, <1>3 DEF DeleteDatabase, SubmissionRows
  <2> QED
    BY <1>a, <2>1, <2>2 DEF OutcomesAgree
<1>4. CASE ~Writes
  BY <1>4, OthersKeepOutcomes DEF OutcomesAgree
<1> QED
  BY <1>1, <1>2, <1>3, <1>4 DEF Writes

\* A step that says nothing and keeps what became of every intent.
LEMMA SilentImplements ==
    ASSUME NoReply,
           \A i \in Intents : OutcomeOf(i)' = OutcomeOf(i)
    PROVE  Contract!BeSilent
BY DEF Contract!BeSilent, Contract!Silent, NoReply, NoAnswer

\* A step that leaves the intents' rows keeps what became of them.
LEMMA SameOutcomes ==
    ASSUME UNCHANGED intents
    PROVE  \A i \in Intents : OutcomeOf(i)' = OutcomeOf(i)
BY DEF OutcomeOf

\* A refusal of an intent that is open, or went with its database.
LEMMA RefusalImplements ==
    ASSUME NEW c \in Calls, Reply(c, "refused", None), UNCHANGED intents,
           job[c].intent \in Intents, job[c].payload \in Payloads,
           intents[job[c].intent].status \in {"active", "gone"}
    PROVE  Contract!Next
<1> DEFINE i == job[c].intent
<1>1. OutcomeOf(i).state \in {"open", "dropped"}
  BY DEF OutcomeOf
<1>2. \A j \in Intents : OutcomeOf(j)' = OutcomeOf(j)
  BY SameOutcomes
<1>3. Contract!Refuse(i, job[c].payload)
  BY <1>1, <1>2 DEF Contract!Refuse, Contract!Answer, Reply
<1> QED
  BY <1>3 DEF Contract!Next

\* The decision under the row lock answers as the contract does.
LEMMA LockImplements ==
    ASSUME IndInv, OutcomesAgree, NEW c \in Calls, LockIntent(c)
    PROVE  Contract!Next
<1> DEFINE i == job[c].intent
           p == job[c].payload
<1>1. i \in Intents /\ p \in Payloads /\ UNCHANGED intents
  BY DEF LockIntent, IndInv, JobsFit, Fits, rows
<1>2. CASE intents[i].status = "finalized" /\ ReplayFinalized(c, i)
  <2>1. \A j \in Intents : OutcomeOf(j)' = OutcomeOf(j)
    BY <1>1, SameOutcomes
  <2>2. /\ OutcomeOf(i).state = (IF intents[i].deleted THEN "deleted" ELSE "stored")
        /\ OutcomeOf(i).payload = intents[i].payload
        /\ OutcomeOf(i).submission = intents[i].submission
    BY <1>2 DEF OutcomeOf
  <2>3. /\ intents[i].submission \in Submissions /\ intents[i].submission # None
        /\ intents[i].deleted \in BOOLEAN
        /\ submissions[intents[i].submission].state =
              IF intents[i].deleted THEN "deleted" ELSE "live"
    BY <1>1, <1>2, NoneAssumption DEF OutcomesAgree, IndInv, TypeOK, IntentRows
  <2>4. CASE intents[i].payload # p
    <3>1. Reply(c, "conflict", None)
      BY <1>2, <2>4 DEF ReplayFinalized
    <3>2. Contract!Repeat(i, p)
      BY <1>1, <2>1, <2>2, <2>4, <3>1 DEF Contract!Repeat, Contract!Decided, Contract!Answer, Reply
    <3> QED
      BY <1>1, <3>2 DEF Contract!Next
  <2>5. CASE intents[i].payload = p /\ intents[i].deleted
    <3>1. Reply(c, "deleted", None)
      BY <1>2, <2>5 DEF ReplayFinalized
    <3>2. Contract!Repeat(i, p)
      BY <1>1, <2>1, <2>2, <2>5, <3>1 DEF Contract!Repeat, Contract!Decided, Contract!Answer, Reply
    <3> QED
      BY <1>1, <3>2 DEF Contract!Next
  <2>6. CASE intents[i].payload = p /\ ~intents[i].deleted
    <3>1. Reply(c, "duplicate", intents[i].submission)
      BY <1>2, <2>3, <2>6 DEF ReplayFinalized
    <3>2. Contract!Repeat(i, p)
      BY <1>1, <2>1, <2>2, <2>6, <3>1 DEF Contract!Repeat, Contract!Decided, Contract!Answer, Reply
    <3> QED
      BY <1>1, <3>2 DEF Contract!Next
  <2> QED
    BY <2>4, <2>5, <2>6
<1>3. CASE intents[i].status \in {"active", "gone"} /\ FinalizeRefused(c)
  BY <1>1, <1>3, RefusalImplements DEF FinalizeRefused
<1>4. CASE NoReply
  BY <1>1, <1>4, SameOutcomes, SilentImplements DEF Contract!Next
<1> QED
  BY <1>2, <1>3, <1>4 DEF LockIntent

\* A commit accepts: nothing was decided, and nobody had the submission's name.
LEMMA CommitImplements ==
    ASSUME IndInv, OutcomesAgree, NEW c \in Calls, NEW s \in Submissions,
           NEW queued \in BOOLEAN, CommitFinalize(c, s, queued)
    PROVE  Contract!Next
<1>0. job[c].intent \in Intents /\ job[c].payload \in Payloads
  BY CommitFacts
<1> PICK i \in Intents, p \in Payloads : i = job[c].intent /\ p = job[c].payload
  BY <1>0
<1>1. /\ intents[i].status = "active"
      /\ submissions[s].state = "unused"
      /\ \A j \in Intents : j # i => intents'[j] = intents[j]
      /\ intents'[i].status = "finalized" /\ intents'[i].payload = p
      /\ intents'[i].submission = s /\ intents'[i].deleted = intents[i].deleted
  BY CommitFacts
<1>2. ~intents[i].deleted
  BY <1>1 DEF OutcomesAgree
<1>3. /\ OutcomeOf(i).state = "open"
      /\ OutcomeOf(i)' = [state |-> "stored", payload |-> p, submission |-> s]
      /\ \A j \in Intents : j # i => OutcomeOf(j)' = OutcomeOf(j)
  BY <1>1, <1>2 DEF OutcomeOf
<1>4. \A j \in Intents : OutcomeOf(j).submission # s
  BY <1>1, NoneAssumption DEF OutcomeOf, OutcomesAgree
<1>5. Reply(c, "accepted", s)
  BY DEF CommitFinalize
<1>6. Contract!Accept(i, p, s)
  BY <1>1, <1>3, <1>4, <1>5 DEF Contract!Accept, Contract!Open, Contract!Answer, Reply
<1> QED
  BY <1>1, <1>6 DEF Contract!Next

\* A deletion marks the intent of its submission, once; after the database's it
\* finds no intent to mark.
LEMMA DeletionImplements ==
    ASSUME IndInv, OutcomesAgree, NEW c \in Calls, DeleteSubmission(c)
    PROVE  Contract!Next
<1>0. job[c].submission \in Submissions /\ submissions[job[c].submission].intent \in Intents
  BY DeleteFacts
<1> PICK s \in Submissions, j \in Intents : s = job[c].submission /\ j = submissions[s].intent
  BY <1>0
<1>1. /\ submissions[s].state # "unused"
      /\ \A i \in Intents : i # j => intents'[i] = intents[i]
      /\ intents'[j].status = intents[j].status /\ intents'[j].payload = intents[j].payload
      /\ intents'[j].submission = intents[j].submission
      /\ intents'[j].deleted = (RowExists(j) \/ intents[j].deleted)
  BY DeleteFacts
<1>2. NoReply
  BY DEF DeleteSubmission
<1>3. \A i \in Intents : i # j => OutcomeOf(i)' = OutcomeOf(i)
  BY <1>1 DEF OutcomeOf
<1>4. CASE intents[j].status = "gone" \/ intents[j].deleted
  <2>1. OutcomeOf(j)' = OutcomeOf(j)
    BY <1>1, <1>4 DEF OutcomeOf
  <2> QED
    BY <1>2, <1>3, <2>1, SilentImplements DEF Contract!Next
<1>5. CASE intents[j].status # "gone" /\ ~intents[j].deleted
  <2>1. intents[j].status = "finalized"
    BY <1>1, <1>5 DEF IndInv, SubmissionsRecorded
  <2>a. intents'[j].deleted /\ intents'[j].status = "finalized"
    BY <1>1, <2>1 DEF RowExists
  <2>b. OutcomeOf(j) = [state |-> "stored", payload |-> intents[j].payload,
                        submission |-> intents[j].submission]
    BY <1>5, <2>1 DEF OutcomeOf
  <2>c. OutcomeOf(j)' = [state |-> "deleted", payload |-> intents[j].payload,
                         submission |-> intents[j].submission]
    BY <1>1, <2>a DEF OutcomeOf
  <2>2. /\ OutcomeOf(j).state = "stored"
        /\ OutcomeOf(j)' = [OutcomeOf(j) EXCEPT !.state = "deleted"]
    BY <2>b, <2>c
  <2>3. Contract!Delete(j)
    BY <1>1, <1>2, <1>3, <2>2 DEF Contract!Delete, Contract!Silent, NoReply, NoAnswer
  <2> QED
    BY <1>1, <2>3 DEF Contract!Next
<1> QED
  BY <1>4, <1>5

\* The database takes every intent along.
LEMMA DropImplements ==
    ASSUME IndInv, NEW c \in Calls, DeleteDatabase(c)
    PROVE  Contract!Next
<1>1. \A i \in Intents : /\ intents'[i].status = "gone"
                         /\ intents'[i].payload = intents[i].payload
                         /\ intents'[i].submission = intents[i].submission
  BY DEF DeleteDatabase, IndInv, TypeOK, IntentRows
<1>2. \A i \in Intents : OutcomeOf(i)' = [OutcomeOf(i) EXCEPT !.state = "dropped"]
  BY <1>1 DEF OutcomeOf
<1>3. Contract!Drop
  BY <1>2 DEF DeleteDatabase, Contract!Drop, Contract!Silent, NoReply, NoAnswer
<1> QED
  BY <1>3 DEF Contract!Next

\* Creating and expiring intents, and reserving their slots.
LEMMA IntentImplements ==
    ASSUME IndInv,
           \/ \E i \in Intents : CreateIntent(i) \/ Expire(i)
           \/ \E c \in Calls : ReserveUploadSlot(c)
    PROVE  Contract!Next
<1>0. intents \in [Intents -> IntentRows]
  BY DEF IndInv, TypeOK
<1>1. ASSUME NEW i \in Intents, CreateIntent(i) PROVE Contract!Next
  <2>1. /\ OutcomeOf(i).state = "unissued"
        /\ OutcomeOf(i)' = [OutcomeOf(i) EXCEPT !.state = "open"]
        /\ \A j \in Intents : j # i => OutcomeOf(j)' = OutcomeOf(j)
    BY <1>0, <1>1 DEF CreateIntent, OutcomeOf, IntentRows
  <2>2. Contract!Issue(i)
    BY <1>1, <2>1 DEF CreateIntent, Contract!Issue, Contract!Silent, NoReply, NoAnswer
  <2> QED
    BY <2>2 DEF Contract!Next
<1>2. ASSUME NEW i \in Intents, Expire(i) PROVE Contract!Next
  <2>1. \A j \in Intents : OutcomeOf(j)' = OutcomeOf(j)
    BY <1>0, <1>2 DEF Expire, OutcomeOf, IntentRows
  <2> QED
    BY <1>2, <2>1, SilentImplements DEF Expire, Contract!Next
<1>3. ASSUME NEW c \in Calls, ReserveUploadSlot(c) PROVE Contract!Next
  <2>1. \A j \in Intents : OutcomeOf(j)' = OutcomeOf(j)
    BY <1>0, <1>3 DEF ReserveUploadSlot, IndInv, JobsFit, Fits, OutcomeOf, IntentRows
  <2> QED
    BY <1>3, <2>1, SilentImplements DEF ReserveUploadSlot, Contract!Next
<1> QED
  BY <1>1, <1>2, <1>3

\* A finalization that is refused before its commit: its intent is still open.
LEMMA OpenRefused ==
    ASSUME IndInv, NEW c \in Calls, Finalizing(c), FinalizeRefused(c), UNCHANGED intents
    PROVE  Contract!Next
<1>1. /\ job[c].intent \in Intents /\ job[c].payload \in Payloads
      /\ intents[job[c].intent].status = "active"
  BY DEF IndInv, JobsFit, Fits, LocksHeld, Finalizing
<1> QED
  BY <1>1, RefusalImplements DEF FinalizeRefused

\* Every step is a step of the contract, or none of it.
LEMMA StepImplements ==
    ASSUME IndInv, OutcomesAgree, [Next]_vars
    PROVE  [Contract!Next]_<<[i \in Intents |-> OutcomeOf(i)], answer>>
<1> USE DEF rows
<1>1. ASSUME NoReply, UNCHANGED intents PROVE Contract!Next
  BY <1>1, SameOutcomes, SilentImplements DEF Contract!Next
<1>2. ASSUME NEW c \in Calls, Finalize(c) PROVE Contract!Next
  <2>1. CASE \E i \in Intents, p \in Payloads : StartFinalize(c, i, p)
    BY <1>1, <2>1 DEF StartFinalize
  <2>2. CASE LockIntent(c)
    BY <2>2, LockImplements
  <2>3. CASE BindAttachments(c)
    BY <1>1, <2>3, OpenRefused DEF BindAttachments, Finalizing
  <2>4. CASE \E a \in Attachments : MarkBound(c, a)
    BY <1>1, <2>4 DEF MarkBound
  <2>5. CASE MarkBoundFails(c)
    BY <2>5, OpenRefused DEF MarkBoundFails, Finalizing
  <2>6. CASE \E s \in Submissions, queued \in BOOLEAN : CommitFinalize(c, s, queued)
    BY <2>6, CommitImplements
  <2> QED
    BY <1>2, <2>1, <2>2, <2>3, <2>4, <2>5, <2>6 DEF Finalize
<1>3. ASSUME NEW c \in Calls, Upload(c) PROVE Contract!Next
  BY <1>1, <1>3, IntentImplements
  DEF Upload, StartUpload, UploadRefused, PutPending, InsertAttachment
<1>4. ASSUME NEW c \in Calls, Discard(c) \/ Die(c) PROVE Contract!Next
  BY <1>1, <1>4
  DEF Discard, StartDiscard, FindPending, DeleteAttachmentRow, DeleteObject, Die
<1>5. ASSUME NEW c \in Calls, Delete(c) PROVE Contract!Next
  BY <1>1, <1>5, DeletionImplements, DropImplements
  DEF Delete, StartDeleteSubmission, StartDeleteDatabase, LockDatabase
<1>6. ASSUME Environment PROVE Contract!Next
  BY <1>1, <1>6, IntentImplements, OpenRefused
  DEF Environment, RetagEnds, PurgeObject, ExpirePending, BreakDeadlock, Deadlocked, Finalizing
<1>7. CASE UNCHANGED vars
  <2>1. [i \in Intents |-> OutcomeOf(i)]' = [i \in Intents |-> OutcomeOf(i)] /\ UNCHANGED answer
    BY <1>7 DEF vars, OutcomeOf
  <2> QED
    BY <2>1
<1> QED
  BY <1>2, <1>3, <1>4, <1>5, <1>6, <1>7 DEF Next

\* Nothing is decided, or asked, at first.
LEMMA InitImplements == Init => Contract!Init /\ OutcomesAgree /\ QueuedAnnounceLive
<1> SUFFICES ASSUME Init PROVE Contract!Init /\ OutcomesAgree /\ QueuedAnnounceLive
  OBVIOUS
<1>1. \A i \in Intents : OutcomeOf(i) = [state |-> "unissued", payload |-> None, submission |-> None]
  BY DEF Init, OutcomeOf
<1>2. Contract!Init
  BY <1>1 DEF Init, Contract!Init, NoAnswer
<1>3. OutcomesAgree /\ QueuedAnnounceLive
  BY DEF Init, OutcomesAgree, QueuedAnnounceLive
<1> QED
  BY <1>2, <1>3

-----------------------------------------------------------------------------
(* The upload slots                                                        *)

\* Rows and uploads that only become fewer stay within their slots.
LEMMA FewerKeepSlots ==
    ASSUME TypeOK, TypeOK', SlotsCounted, UploadsWithinSlots,
           \A i \in Intents : /\ RowsOf(i)' \subseteq RowsOf(i)
                              /\ UnderWay(i)' \subseteq UnderWay(i)
                              /\ intents'[i].uploads = intents[i].uploads
    PROVE  SlotsCounted' /\ UploadsWithinSlots'
<1> SUFFICES ASSUME NEW i \in Intents
             PROVE  /\ IsFiniteSet(RowsOf(i)') /\ IsFiniteSet(UnderWay(i)')
                    /\ Cardinality(RowsOf(i)') + Cardinality(UnderWay(i)') <= intents'[i].uploads
  BY DEF SlotsCounted, UploadsWithinSlots
<1> DEFINE R == RowsOf(i)
           U == UnderWay(i)
           R1 == RowsOf(i)'
           U1 == UnderWay(i)'
           n == intents[i].uploads
<1>1. IsFiniteSet(R) /\ IsFiniteSet(U) /\ R1 \subseteq R /\ U1 \subseteq U
  BY DEF SlotsCounted
<1>2. Cardinality(R) + Cardinality(U) <= n /\ n \in Nat /\ intents'[i].uploads = n
  BY MaxUploadsAssumption DEF UploadsWithinSlots, TypeOK, IntentRows
<1> HIDE DEF R, U, R1, U1, n
<1>3. /\ IsFiniteSet(R1) /\ IsFiniteSet(U1)
      /\ Cardinality(R1) <= Cardinality(R) /\ Cardinality(U1) <= Cardinality(U)
  BY <1>1, FS_Subset
<1>4. /\ Cardinality(R1) \in Nat /\ Cardinality(U1) \in Nat
      /\ Cardinality(R) \in Nat /\ Cardinality(U) \in Nat
  BY <1>1, <1>3, FS_CardinalityType
<1>5. Cardinality(R1) + Cardinality(U1) <= n
  BY <1>2, <1>3, <1>4
<1> QED
  BY <1>2, <1>3, <1>5 DEF R1, U1

\* Reserving a slot counts one upload more, and starts one at most.
LEMMA ReserveKeepsSlots ==
    ASSUME IndInv, IndInv', SlotsCounted, UploadsWithinSlots, NEW c \in Calls, ReserveUploadSlot(c)
    PROVE  SlotsCounted' /\ UploadsWithinSlots'
<1> USE DEF IndInv
<1> DEFINE j == job[c].intent
<1>0. /\ pc[c] = "u_slot" /\ j \in Intents /\ intents \in [Intents -> IntentRows]
      /\ attachments' = attachments
  BY DEF ReserveUploadSlot, JobsFit, Fits, TypeOK
<1>1. CASE End(c) /\ UNCHANGED intents
  <2>1. \A i \in Intents : RowsOf(i)' = RowsOf(i) /\ UnderWay(i)' \subseteq UnderWay(i)
    BY <1>0, <1>1 DEF RowsOf, UnderWay, End, TypeOK
  <2> QED
    BY <1>1, <2>1, FewerKeepSlots
<1>2. CASE intents' = [intents EXCEPT ![j].uploads = @ + 1] /\ Goto(c, "u_put")
  <2> SUFFICES ASSUME NEW i \in Intents
               PROVE  /\ IsFiniteSet(RowsOf(i)') /\ IsFiniteSet(UnderWay(i)')
                      /\ Cardinality(RowsOf(i)') + Cardinality(UnderWay(i)') <= intents'[i].uploads
    BY DEF SlotsCounted, UploadsWithinSlots
  <2> DEFINE R == RowsOf(i)
             U == UnderWay(i)
             U1 == UnderWay(i)'
             n == intents[i].uploads
             m == intents'[i].uploads
  <2>1. /\ IsFiniteSet(R) /\ IsFiniteSet(U) /\ Cardinality(R) + Cardinality(U) <= n /\ n \in Nat
        /\ RowsOf(i)' = R
    BY <1>0, MaxUploadsAssumption DEF SlotsCounted, UploadsWithinSlots, IntentRows, RowsOf
  <2>2. CASE i = j
    <3>1. U1 = U \cup {c} /\ c \notin U
      BY <1>0, <1>2, <2>2 DEF UnderWay, Goto, TypeOK
    <3>2. m = n + 1
      BY <1>0, <1>2, <2>2 DEF IntentRows
    <3> HIDE DEF R, U, U1, n, m
    <3>3. IsFiniteSet(U1) /\ Cardinality(U1) = Cardinality(U) + 1
      BY <2>1, <3>1, FS_AddElement
    <3>4. Cardinality(R) \in Nat /\ Cardinality(U) \in Nat
      BY <2>1, FS_CardinalityType
    <3>5. Cardinality(R) + Cardinality(U1) <= m
      BY <2>1, <3>2, <3>3, <3>4
    <3> QED
      BY <2>1, <3>3, <3>5 DEF U1, m
  <2>3. CASE i # j
    <3>1. U1 = U /\ m = n
      BY <1>0, <1>2, <2>3 DEF UnderWay, Goto, TypeOK
    <3> QED
      BY <2>1, <3>1
  <2> QED
    BY <2>2, <2>3
<1> QED
  BY <1>1, <1>2 DEF ReserveUploadSlot

\* The insert turns an upload under way into a row.
LEMMA InsertKeepsSlots ==
    ASSUME IndInv, IndInv', SlotsCounted, UploadsWithinSlots, NEW c \in Calls, InsertAttachment(c)
    PROVE  SlotsCounted' /\ UploadsWithinSlots'
<1> USE DEF IndInv
<1> DEFINE j == job[c].intent
           a == job[c].attachment
<1>0. /\ pc[c] = "u_row" /\ j \in Intents /\ a \in Attachments /\ intents' = intents
      /\ intents \in [Intents -> IntentRows] /\ End(c)
      /\ \/ attachments' = [attachments EXCEPT ![a] = [intent |-> j, submission |-> None]]
         \/ attachments' = attachments
  BY DEF InsertAttachment, JobsFit, Fits, TypeOK
<1> SUFFICES ASSUME NEW i \in Intents
             PROVE  /\ IsFiniteSet(RowsOf(i)') /\ IsFiniteSet(UnderWay(i)')
                    /\ Cardinality(RowsOf(i)') + Cardinality(UnderWay(i)') <= intents'[i].uploads
  BY DEF SlotsCounted, UploadsWithinSlots
<1> DEFINE R == RowsOf(i)
           U == UnderWay(i)
           R1 == RowsOf(i)'
           U1 == UnderWay(i)'
           n == intents[i].uploads
<1>1. /\ IsFiniteSet(R) /\ IsFiniteSet(U) /\ Cardinality(R) + Cardinality(U) <= n /\ n \in Nat
      /\ intents'[i].uploads = n
  BY <1>0, MaxUploadsAssumption DEF SlotsCounted, UploadsWithinSlots, IntentRows
<1>2. U1 = U \ {c}
  BY <1>0 DEF UnderWay, End, TypeOK
<1>3. (i = j => c \in U) /\ R1 \subseteq (IF i = j THEN R \cup {a} ELSE R)
  BY <1>0 DEF UnderWay, RowsOf, TypeOK
<1> HIDE DEF R, U, R1, U1, n
<1>4. Cardinality(R) \in Nat /\ Cardinality(U) \in Nat
  BY <1>1, FS_CardinalityType
<1>5. CASE i = j
  <2>1. /\ IsFiniteSet(R \cup {a})
        /\ Cardinality(R \cup {a}) = IF a \in R THEN Cardinality(R) ELSE Cardinality(R) + 1
    BY <1>1, FS_AddElement
  <2>2. IsFiniteSet(R1) /\ Cardinality(R1) <= Cardinality(R \cup {a}) /\ Cardinality(R1) \in Nat
    BY <1>3, <1>5, <2>1, FS_Subset, FS_CardinalityType
  <2>3. IsFiniteSet(U1) /\ Cardinality(U1) = Cardinality(U) - 1
    BY <1>1, <1>2, <1>3, <1>5, FS_RemoveElement
  <2>4. Cardinality(R1) + Cardinality(U1) <= n
    BY <1>1, <1>4, <2>1, <2>2, <2>3
  <2> QED
    BY <1>1, <2>2, <2>3, <2>4 DEF R1, U1, n
<1>6. CASE i # j
  <2>1. R1 \subseteq R /\ U1 \subseteq U
    BY <1>2, <1>3, <1>6
  <2>2. /\ IsFiniteSet(R1) /\ IsFiniteSet(U1)
        /\ Cardinality(R1) <= Cardinality(R) /\ Cardinality(U1) <= Cardinality(U)
    BY <1>1, <2>1, FS_Subset
  <2>3. Cardinality(R1) \in Nat /\ Cardinality(U1) \in Nat
    BY <2>2, FS_CardinalityType
  <2>4. Cardinality(R1) + Cardinality(U1) <= n
    BY <1>1, <1>4, <2>2, <2>3
  <2> QED
    BY <1>1, <2>2, <2>4 DEF R1, U1, n
<1> QED
  BY <1>5, <1>6

\* No other step starts an upload, inserts a row or gives a slot back.
LEMMA OthersKeepSlots ==
    ASSUME IndInv, [Next]_vars,
           \A c \in Calls : ~ReserveUploadSlot(c) /\ ~InsertAttachment(c)
    PROVE  \A i \in Intents : /\ RowsOf(i)' \subseteq RowsOf(i)
                              /\ UnderWay(i)' \subseteq UnderWay(i)
                              /\ intents'[i].uploads = intents[i].uploads
<1> USE DEF IndInv, rows, storage
<1> DEFINE Up == {"u_put", "u_row"}
<1>0. /\ pc \in [Calls -> Steps] /\ job \in [Calls -> Jobs] /\ intents \in [Intents -> IntentRows]
      /\ attachments \in [Attachments -> AttachmentRows] /\ None \notin Intents
  BY NoneAssumption DEF TypeOK
<1>1. SUFFICES /\ \A a \in Attachments : attachments'[a].intent \in {attachments[a].intent, None}
               /\ \A d \in Calls : pc'[d] \in Up => pc[d] \in Up /\ job'[d].intent = job[d].intent
               /\ \A i \in Intents : intents'[i].uploads = intents[i].uploads
  BY <1>0 DEF RowsOf, UnderWay
<1>2. ASSUME UNCHANGED attachments
      PROVE  \A a \in Attachments : attachments'[a].intent \in {attachments[a].intent, None}
  BY <1>2
<1>3. ASSUME NEW c \in Calls,
             \/ End(c)
             \/ \E step \in Steps \ Up, args \in Jobs : Begin(c, step, args)
             \/ \E step \in Steps \ Up : Goto(c, step)
      PROVE  \A d \in Calls : pc'[d] \in Up => pc[d] \in Up /\ job'[d].intent = job[d].intent
  BY <1>0, <1>3 DEF End, Begin, Goto
<1> DEFINE Quiet == /\ \A a \in Attachments : attachments'[a].intent \in {attachments[a].intent, None}
                    /\ \A d \in Calls : pc'[d] \in Up => pc[d] \in Up /\ job'[d].intent = job[d].intent
                    /\ \A i \in Intents : intents'[i].uploads = intents[i].uploads
<1>4. ASSUME NEW c \in Calls, Finalize(c) PROVE Quiet
  <2>1. CASE \E i \in Intents, p \in Payloads : StartFinalize(c, i, p)
    BY <1>0, <2>1 DEF StartFinalize, Begin
  <2>2. CASE LockIntent(c)
    BY <1>0, <2>2 DEF LockIntent, ReplayFinalized, FinalizeRefused, End, Goto
  <2>3. CASE BindAttachments(c)
    BY <1>0, <2>3 DEF BindAttachments, FinalizeRefused, End
  <2>4. CASE \E a \in Attachments : MarkBound(c, a)
    BY <1>0, <2>4 DEF MarkBound, Jobs
  <2>5. CASE MarkBoundFails(c)
    BY <1>0, <2>5 DEF MarkBoundFails, FinalizeRefused, End
  <2>6. ASSUME NEW s \in Submissions, NEW queued \in BOOLEAN, CommitFinalize(c, s, queued)
        PROVE  Quiet
    <3>1. \A a \in Attachments : attachments'[a].intent = attachments[a].intent
      BY <1>0, <2>6 DEF CommitFinalize, AttachmentRows, NoRow, HasRow
    <3>2. \A i \in Intents : intents'[i].uploads = intents[i].uploads
      BY <1>0, <2>6 DEF CommitFinalize, IntentRows
    <3> QED
      BY <1>3, <2>6, <3>1, <3>2 DEF CommitFinalize
  <2> QED
    BY <1>4, <2>1, <2>2, <2>3, <2>4, <2>5, <2>6 DEF Finalize
<1>5. ASSUME NEW c \in Calls, Upload(c) PROVE Quiet
  <2>1. CASE \E i \in Intents : StartUpload(c, i)
    BY <1>0, <2>1 DEF StartUpload, Begin
  <2>2. CASE UploadRefused(c)
    BY <1>0, <2>2 DEF UploadRefused, End
  <2>3. CASE \E a \in Attachments : PutPending(c, a)
    BY <1>0, <2>3 DEF PutPending, Jobs
  <2> QED
    BY <1>5, <2>1, <2>2, <2>3 DEF Upload
<1>6. ASSUME NEW c \in Calls, Discard(c) \/ Die(c) PROVE Quiet
  <2>1. CASE \E i \in Intents, a \in Attachments : StartDiscard(c, i, a)
    BY <1>0, <2>1 DEF StartDiscard, Begin
  <2>2. CASE FindPending(c)
    BY <1>0, <2>2 DEF FindPending, Goto, End
  <2>3. CASE DeleteAttachmentRow(c)
    BY <1>0, <2>3 DEF DeleteAttachmentRow, Goto, NoRow
  <2>4. CASE DeleteObject(c) \/ Die(c)
    BY <1>0, <2>4 DEF DeleteObject, Die, End
  <2> QED
    BY <1>6, <2>1, <2>2, <2>3, <2>4 DEF Discard
<1>7. ASSUME NEW c \in Calls, Delete(c) PROVE Quiet
  <2>1. CASE \E s \in Submissions : StartDeleteSubmission(c, s)
    BY <1>0, <2>1 DEF StartDeleteSubmission, Begin
  <2>2. CASE DeleteSubmission(c)
    <3>1. \A a \in Attachments : attachments'[a].intent \in {attachments[a].intent, None}
      BY <2>2 DEF DeleteSubmission, NoRow
    <3>2. \A i \in Intents : intents'[i].uploads = intents[i].uploads
      BY <1>0, <2>2 DEF DeleteSubmission, IntentRows
    <3> QED
      BY <1>3, <2>2, <3>1, <3>2 DEF DeleteSubmission
  <2>3. CASE StartDeleteDatabase(c)
    BY <1>0, <2>3 DEF StartDeleteDatabase, Begin
  <2>4. CASE LockDatabase(c)
    BY <1>0, <2>4 DEF LockDatabase, Goto, End
  <2>5. CASE DeleteDatabase(c)
    <3>1. \A a \in Attachments : attachments'[a].intent \in {attachments[a].intent, None}
      BY <2>5 DEF DeleteDatabase, NoRow
    <3>2. \A i \in Intents : intents'[i].uploads = intents[i].uploads
      BY <1>0, <2>5 DEF DeleteDatabase, IntentRows
    <3> QED
      BY <1>3, <2>5, <3>1, <3>2 DEF DeleteDatabase
  <2> QED
    BY <1>7, <2>1, <2>2, <2>3, <2>4, <2>5 DEF Delete
<1>8. ASSUME Environment PROVE Quiet
  <2>1. ASSUME NEW i \in Intents, CreateIntent(i) \/ Expire(i) PROVE Quiet
    BY <1>0, <2>1 DEF CreateIntent, Expire, IntentRows
  <2>2. ASSUME NEW a \in Attachments, RetagEnds(a) \/ PurgeObject(a) \/ ExpirePending(a)
        PROVE  Quiet
    BY <2>2 DEF RetagEnds, PurgeObject, ExpirePending
  <2>3. ASSUME NEW f \in Calls, NEW x \in Calls, BreakDeadlock(f, x) PROVE Quiet
    BY <1>0, <2>3 DEF BreakDeadlock, FinalizeRefused, End
  <2> QED
    BY <1>8, <2>1, <2>2, <2>3 DEF Environment
<1>9. CASE UNCHANGED vars
  BY <1>9 DEF vars
<1> QED
  BY <1>4, <1>5, <1>6, <1>7, <1>8, <1>9 DEF Next

\* Every step keeps rows and uploads under way within the slots reserved.
LEMMA StepKeepsSlots ==
    ASSUME IndInv, IndInv', SlotsCounted, UploadsWithinSlots, [Next]_vars
    PROVE  SlotsCounted' /\ UploadsWithinSlots'
<1>1. CASE \E c \in Calls : ReserveUploadSlot(c)
  BY <1>1, ReserveKeepsSlots
<1>2. CASE \E c \in Calls : InsertAttachment(c)
  BY <1>2, InsertKeepsSlots
<1>3. CASE \A c \in Calls : ~ReserveUploadSlot(c) /\ ~InsertAttachment(c)
  BY <1>3, OthersKeepSlots, FewerKeepSlots DEF IndInv
<1> QED
  BY <1>1, <1>2, <1>3

\* No row and no upload, no slot.
LEMMA InitSlots == Init => SlotsCounted /\ UploadsWithinSlots
<1> SUFFICES ASSUME Init PROVE SlotsCounted /\ UploadsWithinSlots
  OBVIOUS
<1>1. \A i \in Intents : RowsOf(i) = {} /\ UnderWay(i) = {} /\ intents[i].uploads = 0
  BY NoneAssumption DEF Init, RowsOf, UnderWay, NoRow
<1>2. IsFiniteSet({}) /\ Cardinality({}) + Cardinality({}) <= 0
  BY FS_EmptySet
<1> QED
  BY <1>1, <1>2 DEF SlotsCounted, UploadsWithinSlots

-----------------------------------------------------------------------------
(* The bytes                                                               *)

\* Types and arguments in the form the lemmas below use them.
LEMMA BytesTypes ==
    ASSUME IndInv
    PROVE  /\ attachments \in [Attachments -> AttachmentRows]
           /\ objects \in [Attachments -> {"none", "pending", "bound", "gone"}]
           /\ submissions \in [Submissions -> SubmissionRows]
           /\ pc \in [Calls -> Steps] /\ job \in [Calls -> Jobs]
           /\ retags \subseteq Attachments /\ purgeQueue \subseteq Attachments
           /\ discarded \subseteq Attachments
           /\ \A a \in Attachments :
                 /\ ~HasRow(a) => attachments[a].intent = None /\ attachments[a].submission = None
                 /\ HasRow(a) => attachments[a].intent \in Intents
           /\ None \notin Intents /\ None \notin Submissions
<1>1. /\ attachments \in [Attachments -> AttachmentRows]
      /\ objects \in [Attachments -> {"none", "pending", "bound", "gone"}]
      /\ submissions \in [Submissions -> SubmissionRows]
      /\ pc \in [Calls -> Steps] /\ job \in [Calls -> Jobs]
      /\ retags \subseteq Attachments /\ purgeQueue \subseteq Attachments
      /\ discarded \subseteq Attachments
  BY DEF IndInv, TypeOK
<1>2. None \notin Intents /\ None \notin Submissions
  BY NoneAssumption
<1>3. \A a \in Attachments :
         /\ ~HasRow(a) => attachments[a].intent = None /\ attachments[a].submission = None
         /\ HasRow(a) => attachments[a].intent \in Intents
  BY <1>1 DEF HasRow, AttachmentRows, NoRow
<1> QED
  BY <1>1, <1>2, <1>3

\* What a finalization past its checks waits for is an attachment.
LEMMA KeysAreAttachments ==
    ASSUME IndInv, NEW c \in Calls
    PROVE  /\ job[c].keys \subseteq Attachments
           /\ pc[c] = "f_tag" => /\ job[c].intent \in Intents /\ job[c].payload \in Payloads
                                 /\ Screenshots[job[c].payload] \subseteq Attachments
           /\ pc[c] \in {"u_row", "d_find", "d_row", "d_object"} => job[c].attachment \in Attachments
<1>1. job[c] \in Jobs
  BY DEF IndInv, TypeOK
<1>2. pc[c] = "f_tag" => job[c].intent \in Intents /\ job[c].payload \in Payloads
  BY DEF IndInv, JobsFit, Fits
<1>3. pc[c] \in {"u_row", "d_find", "d_row", "d_object"} => job[c].attachment \in Attachments
  BY DEF IndInv, JobsFit, Fits
<1> QED
  BY <1>1, <1>2, <1>3, ScreenshotsAssumption DEF Jobs

\* The screenshots of a stored submission are attachments.
LEMMA StoredScreenshots ==
    ASSUME PayloadsStored, NEW s \in Submissions, submissions[s].state # "unused"
    PROVE  Screenshots[submissions[s].payload] \subseteq Attachments
BY ScreenshotsAssumption DEF PayloadsStored

\* A request moves on, or begins, and neither rows nor bytes change.
LEMMA MoveKeepsBytes ==
    ASSUME BytesInv, IndInv', NEW c \in Calls, NEW step \in Steps \ {"u_row", "d_object"},
           NEW args \in Jobs,
           pc' = [pc EXCEPT ![c] = step],
           job' = [job EXCEPT ![c] = args],
           UNCHANGED <<database, attachments, submissions, objects, retags, purgeQueue, discarded>>,
           step = "d_row" => Uploaded(args.attachment),
           step = "r_commit" => /\ args.keys = FilesOf(args.submission)
                                /\ args.submission \in Submissions,
           step \in {"x_lock", "x_cascade"} => \A a \in args.keys : Uploaded(a),
           step = "f_tag" =>
              /\ args.keys = Screenshots[args.payload]
              /\ \A a \in Screenshots[args.payload] : attachments[a].intent = args.intent /\ ~IsBound(a)
    PROVE  BytesInv'
<1> USE DEF BytesInv
<1>0. /\ \A d \in Calls : d # c => pc'[d] = pc[d] /\ job'[d] = job[d]
      /\ pc'[c] = step /\ job'[c] = args
  BY DEF IndInv, TypeOK
<1>1. \A d \in Calls, a \in Attachments : Uploading(d, a)' => d # c /\ Uploading(d, a)
  BY <1>0 DEF Uploading
<1>2. UploadsAlone'
  BY <1>1 DEF UploadsAlone, HasRow
<1>3. \A a : Uploaded(a) => Uploaded(a)'
  BY <1>0 DEF Uploaded, Uploading
<1>4. OnlyUploaded'
  <2>1. \A a \in Attachments : (HasRow(a) \/ a \in retags \cup purgeQueue \cup discarded)' => Uploaded(a)'
    BY <1>3 DEF OnlyUploaded, HasRow
  <2>2. ASSUME NEW d \in Calls
        PROVE  /\ pc'[d] \in {"d_row", "d_object"} => Uploaded(job[d].attachment)'
               /\ pc'[d] \in {"r_commit", "x_lock", "x_cascade"} => \A a \in job'[d].keys : Uploaded(a)'
    <3>1. CASE d # c
      <4>1. pc'[d] = pc[d] /\ job'[d] = job[d]
        BY <1>0, <3>1
      <4>2. /\ pc[d] \in {"d_row", "d_object"} => Uploaded(job[d].attachment)
            /\ pc[d] \in {"r_commit", "x_lock", "x_cascade"} => \A a \in job[d].keys : Uploaded(a)
        BY DEF OnlyUploaded
      <4>3. Uploaded(job[d].attachment) => objects'[job'[d].attachment] # "none"
                   /\ \A e \in Calls : ~(Uploading(e, job[d].attachment)')
        BY <4>1, <1>3, <1>0 DEF Uploaded, Uploading
      <4> QED
        BY <1>3, <4>1, <4>2, <4>3 DEF Uploaded
    <3>2. CASE d = c
      <4>1. step = "r_commit" => \A a \in args.keys : Uploaded(a)
        <5> SUFFICES ASSUME step = "r_commit", NEW a \in args.keys PROVE Uploaded(a)
          OBVIOUS
        <5>1. a \in Attachments /\ attachments[a].submission = args.submission /\ args.submission # None
          BY NoneAssumption DEF FilesOf
        <5>2. HasRow(a)
          BY <5>1 DEF HasRow, NoRow
        <5> QED
          BY <5>1, <5>2 DEF OnlyUploaded
      <4> QED
        BY <1>0, <1>3, <3>2, <4>1
    <3> QED
      BY <3>1, <3>2
  <2> QED
    BY <2>1, <2>2 DEF OnlyUploaded
<1>5. RemovedHaveNoRow'
  BY <1>0 DEF RemovedHaveNoRow, HasRow
<1>6. KeysOfSubmission'
  BY <1>0 DEF KeysOfSubmission, FilesOf, HasRow
<1>7. ScreenshotsHeld'
  BY <1>0 DEF ScreenshotsHeld, IsBound
<1>8. PayloadsStored' /\ BytesOwned' /\ OnlyDiscardsLoseScreenshots'
  BY DEF PayloadsStored, BytesOwned, OnlyDiscardsLoseScreenshots, HasRow
<1> QED
  BY <1>2, <1>4, <1>5, <1>6, <1>7, <1>8

\* A request that ends.
LEMMA EndKeepsBytes ==
    ASSUME BytesInv, IndInv', NEW c \in Calls, End(c),
           UNCHANGED <<database, attachments, submissions, objects, retags, purgeQueue, discarded>>
    PROVE  BytesInv'
<1>1. NoJob \in Jobs /\ "idle" \in Steps \ {"u_row", "d_object"}
  BY DEF NoJob, Jobs, Steps
<1> QED
  BY <1>1, MoveKeepsBytes DEF End

\* A request that goes on with the arguments it has.
LEMMA GotoKeepsBytes ==
    ASSUME BytesInv, IndInv', NEW c \in Calls,
           NEW step \in {"f_bind", "u_put", "d_row", "x_cascade"}, Goto(c, step),
           UNCHANGED <<database, attachments, submissions, objects, retags, purgeQueue, discarded>>,
           step = "d_row" => Uploaded(job[c].attachment),
           step = "x_cascade" => pc[c] = "x_lock"
    PROVE  BytesInv'
<1>1. job[c] \in Jobs /\ job' = [job EXCEPT ![c] = job[c]] /\ step \in Steps \ {"u_row", "d_object"}
  BY DEF Goto, BytesInv, IndInv, TypeOK, Steps
<1>2. step = "x_cascade" => \A a \in job[c].keys : Uploaded(a)
  BY DEF BytesInv, OnlyUploaded
<1> QED
  BY <1>1, <1>2, MoveKeepsBytes DEF Goto

\* Requests end or stay where they are; objects go or are bound as the store, the
\* purge worker and the lifecycle rule may; retags are of rows.
LEMMA StoreKeepsBytes ==
    ASSUME BytesInv, IndInv',
           UNCHANGED <<database, attachments, submissions, discarded>>,
           \A d \in Calls : pc'[d] # "idle" => pc'[d] = pc[d] /\ job'[d] = job[d],
           \A a \in retags' : a \in retags \/ (a \in Attachments /\ HasRow(a)),
           purgeQueue' \subseteq purgeQueue,
           \A a \in purgeQueue \ purgeQueue' : objects'[a] = "gone",
           \A a \in Attachments :
              \/ objects'[a] = objects[a]
              \/ /\ objects'[a] = "gone"
                 /\ a \in discarded \cup purgeQueue \/ objects[a] = "pending"
              \/ objects'[a] = "bound" /\ a \in retags /\ objects[a] \in {"pending", "bound"}
    PROVE  BytesInv'
<1> USE DEF BytesInv
<1>0. /\ purgeQueue \subseteq Attachments /\ discarded \subseteq Attachments
      /\ retags \subseteq Attachments
      /\ \A d \in Calls : /\ job[d].keys \subseteq Attachments
                          /\ pc[d] = "f_tag" => Screenshots[job[d].payload] \subseteq Attachments
                          /\ pc[d] \in {"u_row", "d_find", "d_row", "d_object"} =>
                                job[d].attachment \in Attachments
  BY BytesTypes, KeysAreAttachments
<1>a. \A a \in Attachments : HasRow(a)' <=> HasRow(a)
  BY DEF HasRow
<1>b. \A a \in Attachments : objects[a] # "none" => objects'[a] # "none"
  BY DEF OnlyUploaded, Uploaded
<1>1. \A d \in Calls, a \in Attachments : Uploading(d, a)' => Uploading(d, a)
  BY DEF Uploading
<1>2. UploadsAlone'
  BY <1>1, <1>a, <1>b DEF UploadsAlone
<1>3. \A a \in Attachments : Uploaded(a) => Uploaded(a)'
  BY <1>1, <1>b DEF Uploaded
<1>4. OnlyUploaded'
  <2>1. \A a \in Attachments : (HasRow(a) \/ a \in retags \cup purgeQueue \cup discarded)' => Uploaded(a)'
    BY <1>3, <1>a DEF OnlyUploaded
  <2>2. ASSUME NEW d \in Calls
        PROVE  /\ pc'[d] \in {"d_row", "d_object"} => Uploaded(job[d].attachment)'
               /\ pc'[d] \in {"r_commit", "x_lock", "x_cascade"} => \A a \in job'[d].keys : Uploaded(a)'
    <3>1. CASE pc'[d] = "idle"
      BY <3>1
    <3>2. CASE pc'[d] # "idle"
      <4>1. pc'[d] = pc[d] /\ job'[d] = job[d]
        BY <3>2
      <4>2. /\ pc[d] \in {"d_row", "d_object"} => Uploaded(job[d].attachment)
            /\ pc[d] \in {"r_commit", "x_lock", "x_cascade"} => \A a \in job[d].keys : Uploaded(a)
        BY DEF OnlyUploaded
      <4>3. ASSUME pc[d] \in {"d_row", "d_object"} PROVE Uploaded(job[d].attachment)'
        <5>1. PICK a \in Attachments : a = job[d].attachment
          BY <1>0, <4>3
        <5>2. Uploaded(a)'
          BY <1>3, <4>2, <4>3, <5>1
        <5> QED
          BY <4>1, <5>1, <5>2 DEF Uploaded, Uploading
      <4> QED
        BY <1>0, <1>3, <4>1, <4>2, <4>3
    <3> QED
      BY <3>1, <3>2
  <2> QED
    BY <2>1, <2>2 DEF OnlyUploaded
<1>5. RemovedHaveNoRow'
  BY <1>0, <1>a DEF RemovedHaveNoRow
<1>6. KeysOfSubmission'
  BY <1>0, <1>a DEF KeysOfSubmission, FilesOf
<1>7. ScreenshotsHeld'
  <2> SUFFICES ASSUME NEW d \in Calls, pc'[d] = "f_tag"
               PROVE  /\ job'[d].keys \subseteq Screenshots[job'[d].payload]
                      /\ \A a \in Screenshots[job'[d].payload] :
                            /\ attachments'[a].intent = job'[d].intent
                            /\ ~IsBound(a)'
                            /\ a \in job'[d].keys \/ objects'[a] = "bound"
    BY DEF ScreenshotsHeld
  <2>1. pc[d] = "f_tag" /\ job'[d] = job[d]
    OBVIOUS
  <2>2. /\ job[d].keys \subseteq Screenshots[job[d].payload]
        /\ \A a \in Screenshots[job[d].payload] :
              /\ a \in Attachments /\ attachments[a].intent = job[d].intent /\ ~IsBound(a)
              /\ a \in job[d].keys \/ objects[a] = "bound"
    BY <1>0, <2>1 DEF ScreenshotsHeld
  <2>3. ASSUME NEW a \in Screenshots[job[d].payload]
        PROVE  a \notin discarded \cup purgeQueue
    <3>1. job[d].intent # None /\ a \in Attachments /\ attachments[a].intent = job[d].intent
      BY <2>1, <2>2, BytesTypes, KeysAreAttachments
    <3>2. HasRow(a)
      BY <3>1 DEF HasRow, NoRow
    <3> QED
      BY <3>1, <3>2 DEF RemovedHaveNoRow
  <2> QED
    BY <2>1, <2>2, <2>3 DEF IsBound
<1>8. PayloadsStored'
  BY DEF PayloadsStored
<1>9. BytesOwned'
  <2> SUFFICES ASSUME database = "live", NEW a \in Attachments \ discarded,
                      objects'[a] = "bound" \/ (a \in retags' /\ objects'[a] = "pending")
               PROVE  HasRow(a) \/ a \in purgeQueue'
    BY <1>a DEF BytesOwned
  <2>1. CASE a \in retags' \ retags
    BY <2>1
  <2>2. CASE a \notin retags' \ retags
    <3>1. objects[a] = "bound" \/ (a \in retags /\ objects[a] = "pending")
      BY <2>2
    <3>2. HasRow(a) \/ a \in purgeQueue
      BY <3>1 DEF BytesOwned
    <3> QED
      BY <3>2
  <2> QED
    BY <2>1, <2>2
<1>10. OnlyDiscardsLoseScreenshots'
  <2> SUFFICES ASSUME NEW s \in Submissions, submissions[s].state = "live",
                      NEW a \in Screenshots[submissions[s].payload] \ discarded
               PROVE  attachments[a].submission = s /\ objects'[a] = "bound"
    BY DEF OnlyDiscardsLoseScreenshots
  <2>1. attachments[a].submission = s /\ objects[a] = "bound" /\ a \in Attachments
    BY StoredScreenshots DEF OnlyDiscardsLoseScreenshots
  <2>2. HasRow(a)
    BY <2>1, BytesTypes
  <2>3. a \notin purgeQueue
    BY <2>1, <2>2 DEF RemovedHaveNoRow
  <2> QED
    BY <2>1, <2>3
<1> QED
  BY <1>2, <1>4, <1>5, <1>6, <1>7, <1>8, <1>9, <1>10

\* What RemovedHaveNoRow and BytesTypes say of a screenshot a finalization holds.
LEMMA HeldScreenshots ==
    ASSUME BytesInv, NEW c \in Calls, pc[c] = "f_tag"
    PROVE  /\ job[c].intent \in Intents /\ job[c].payload \in Payloads
           /\ \A a \in Screenshots[job[c].payload] :
                 /\ a \in Attachments /\ HasRow(a) /\ ~IsBound(a)
                 /\ attachments[a].intent = job[c].intent
                 /\ a \notin discarded \cup purgeQueue
                 /\ a \in job[c].keys \/ objects[a] = "bound"
<1>1. /\ job[c].intent \in Intents /\ job[c].payload \in Payloads
      /\ Screenshots[job[c].payload] \subseteq Attachments
      /\ None \notin Intents
  BY KeysAreAttachments, BytesTypes DEF BytesInv
<1>2. ASSUME NEW a \in Screenshots[job[c].payload]
      PROVE  /\ a \in Attachments /\ HasRow(a) /\ ~IsBound(a)
             /\ attachments[a].intent = job[c].intent
             /\ a \notin discarded \cup purgeQueue
             /\ a \in job[c].keys \/ objects[a] = "bound"
  <2>1. /\ a \in Attachments /\ ~IsBound(a) /\ attachments[a].intent = job[c].intent
        /\ a \in job[c].keys \/ objects[a] = "bound"
    BY <1>1 DEF BytesInv, ScreenshotsHeld
  <2>2. HasRow(a)
    BY <1>1, <2>1 DEF HasRow, NoRow
  <2>3. a \notin discarded \cup purgeQueue
    BY <2>2 DEF BytesInv, RemovedHaveNoRow
  <2> QED
    BY <2>1, <2>2, <2>3
<1> QED
  BY <1>1, <1>2

\* A screenshot of a live submission that nobody discarded.
LEMMA LiveScreenshots ==
    ASSUME BytesInv, NEW s \in Submissions, submissions[s].state = "live",
           NEW a \in Screenshots[submissions[s].payload] \ discarded
    PROVE  /\ a \in Attachments /\ HasRow(a) /\ a \notin purgeQueue
           /\ attachments[a].submission = s /\ objects[a] = "bound"
<1>1. a \in Attachments /\ attachments[a].submission = s /\ objects[a] = "bound"
  BY StoredScreenshots DEF BytesInv, OnlyDiscardsLoseScreenshots
<1>2. HasRow(a)
  BY <1>1, BytesTypes DEF BytesInv
<1> QED
  BY <1>1, <1>2 DEF BytesInv, RemovedHaveNoRow

\* A retag the finalization waits for.
LEMMA MarkBoundKeepsBytes ==
    ASSUME BytesInv, IndInv', NEW c \in Calls, NEW b \in Attachments, MarkBound(c, b)
    PROVE  BytesInv'
<1> USE DEF BytesInv
<1>0. /\ pc[c] = "f_tag" /\ b \in job[c].keys /\ pc' = pc
      /\ UNCHANGED <<database, attachments, submissions, retags, purgeQueue, discarded>>
      /\ objects[b] \in {"pending", "bound"} /\ objects' = [objects EXCEPT ![b] = "bound"]
      /\ job' = [job EXCEPT ![c].keys = @ \ {b}]
  BY DEF MarkBound, Tag, rows
<1>1. /\ \A d \in Calls : /\ d # c => job'[d] = job[d]
                          /\ job'[d].intent = job[d].intent /\ job'[d].payload = job[d].payload
                          /\ job'[d].attachment = job[d].attachment
                          /\ job'[d].submission = job[d].submission
      /\ job'[c].keys = job[c].keys \ {b}
      /\ \A a \in Attachments : objects'[a] = IF a = b THEN "bound" ELSE objects[a]
  BY <1>0, BytesTypes DEF Jobs
<1>2. \A a \in Attachments : HasRow(a)' <=> HasRow(a)
  BY <1>0 DEF HasRow
<1>3. \A d \in Calls, a \in Attachments : Uploading(d, a)' <=> Uploading(d, a)
  BY <1>0, <1>1 DEF Uploading
<1>4. UploadsAlone'
  BY <1>0, <1>1, <1>2, <1>3 DEF UploadsAlone
<1>5. \A a \in Attachments : Uploaded(a) => Uploaded(a)'
  BY <1>0, <1>1, <1>3 DEF Uploaded
<1>6. OnlyUploaded'
  <2>1. \A a \in Attachments : (HasRow(a) \/ a \in retags \cup purgeQueue \cup discarded)' => Uploaded(a)'
    BY <1>0, <1>2, <1>5 DEF OnlyUploaded
  <2>2. ASSUME NEW d \in Calls, pc'[d] \in {"d_row", "d_object"}
        PROVE  Uploaded(job[d].attachment)'
    <3>1. PICK a \in Attachments : a = job[d].attachment
      BY <1>0, <2>2, KeysAreAttachments
    <3>2. Uploaded(a)'
      BY <1>0, <1>5, <2>2, <3>1 DEF OnlyUploaded
    <3> QED
      BY <1>1, <3>1, <3>2 DEF Uploaded, Uploading
  <2>3. ASSUME NEW d \in Calls, pc'[d] \in {"r_commit", "x_lock", "x_cascade"},
               NEW a \in job'[d].keys
        PROVE  Uploaded(a)'
    <3>1. d # c /\ a \in job[d].keys /\ a \in Attachments
      BY <1>0, <1>1, <2>3, KeysAreAttachments
    <3> QED
      BY <1>0, <1>5, <2>3, <3>1 DEF OnlyUploaded
  <2> QED
    BY <2>1, <2>2, <2>3 DEF OnlyUploaded
<1>7. RemovedHaveNoRow'
  BY <1>0, <1>1, <1>2, BytesTypes DEF RemovedHaveNoRow
<1>8. KeysOfSubmission'
  <2> SUFFICES ASSUME NEW d \in Calls, pc[d] = "r_commit"
               PROVE  /\ FilesOf(job[d].submission)' \subseteq job'[d].keys
                      /\ \A a \in job'[d].keys :
                            attachments'[a].submission = job'[d].submission \/ ~HasRow(a)'
    BY <1>0 DEF KeysOfSubmission
  <2>1. d # c /\ job'[d] = job[d]
    BY <1>0, <1>1
  <2> QED
    BY <1>0, <2>1 DEF KeysOfSubmission, FilesOf, HasRow
<1>9. ScreenshotsHeld'
  <2> SUFFICES ASSUME NEW d \in Calls, pc[d] = "f_tag"
               PROVE  /\ job'[d].keys \subseteq Screenshots[job'[d].payload]
                      /\ \A a \in Screenshots[job'[d].payload] :
                            /\ attachments'[a].intent = job'[d].intent
                            /\ ~IsBound(a)'
                            /\ a \in job'[d].keys \/ objects'[a] = "bound"
    BY <1>0 DEF ScreenshotsHeld
  <2>1. \A a \in Screenshots[job[d].payload] :
           /\ a \in Attachments /\ ~IsBound(a) /\ attachments[a].intent = job[d].intent
           /\ a \in job[d].keys \/ objects[a] = "bound"
    BY HeldScreenshots
  <2>2. job[d].keys \subseteq Screenshots[job[d].payload]
    BY DEF ScreenshotsHeld
  <2> QED
    BY <1>0, <1>1, <2>1, <2>2 DEF IsBound
<1>10. PayloadsStored'
  BY <1>0 DEF PayloadsStored
<1>11. BytesOwned'
  <2>1. HasRow(b)
    BY <1>0, HeldScreenshots DEF ScreenshotsHeld
  <2> QED
    BY <1>0, <1>1, <1>2, <2>1 DEF BytesOwned
<1>12. OnlyDiscardsLoseScreenshots'
  BY <1>0, <1>1, LiveScreenshots DEF OnlyDiscardsLoseScreenshots
<1> QED
  BY <1>4, <1>6, <1>7, <1>8, <1>9, <1>10, <1>11, <1>12

\* An upload puts its object under a key nobody has used.
LEMMA PutKeepsBytes ==
    ASSUME BytesInv, IndInv', NEW c \in Calls, NEW b \in Attachments, PutPending(c, b)
    PROVE  BytesInv'
<1> USE DEF BytesInv
<1>0. /\ pc[c] = "u_put" /\ objects[b] = "none"
      /\ UNCHANGED <<database, attachments, submissions, retags, purgeQueue, discarded>>
      /\ objects' = [objects EXCEPT ![b] = "pending"]
      /\ pc' = [pc EXCEPT ![c] = "u_row"] /\ job' = [job EXCEPT ![c].attachment = b]
  BY DEF PutPending, rows
<1>1. /\ pc'[c] = "u_row" /\ job'[c].attachment = b
      /\ \A d \in Calls : d # c => pc'[d] = pc[d] /\ job'[d] = job[d]
      /\ \A a \in Attachments : objects'[a] = IF a = b THEN "pending" ELSE objects[a]
  BY <1>0, BytesTypes DEF Jobs
<1>2. \A a \in Attachments : HasRow(a)' <=> HasRow(a)
  BY <1>0 DEF HasRow
<1>3. \A d \in Calls, a \in Attachments : Uploading(d, a)' <=> Uploading(d, a) \/ (d = c /\ a = b)
  BY <1>0, <1>1 DEF Uploading
<1>4. ~Uploaded(b) /\ ~HasRow(b) /\ b \notin retags \cup purgeQueue \cup discarded
      /\ \A d \in Calls : ~Uploading(d, b)
  BY <1>0 DEF Uploaded, OnlyUploaded, UploadsAlone
<1>5. UploadsAlone'
  BY <1>1, <1>2, <1>3, <1>4 DEF UploadsAlone
<1>6. \A a \in Attachments : Uploaded(a) => Uploaded(a)'
  BY <1>1, <1>3, <1>4 DEF Uploaded
<1>7. OnlyUploaded'
  <2>1. \A a \in Attachments : (HasRow(a) \/ a \in retags \cup purgeQueue \cup discarded)' => Uploaded(a)'
    BY <1>0, <1>2, <1>6 DEF OnlyUploaded
  <2>2. ASSUME NEW d \in Calls, pc'[d] \in {"d_row", "d_object"}
        PROVE  Uploaded(job[d].attachment)'
    <3>1. d # c /\ pc'[d] = pc[d] /\ job'[d] = job[d]
      BY <1>1, <2>2
    <3>2. PICK a \in Attachments : a = job[d].attachment
      BY <2>2, <3>1, KeysAreAttachments
    <3>3. Uploaded(a)'
      BY <1>6, <2>2, <3>1, <3>2 DEF OnlyUploaded
    <3> QED
      BY <3>1, <3>2, <3>3 DEF Uploaded, Uploading
  <2>3. ASSUME NEW d \in Calls, pc'[d] \in {"r_commit", "x_lock", "x_cascade"},
               NEW a \in job'[d].keys
        PROVE  Uploaded(a)'
    <3>1. d # c /\ pc'[d] = pc[d] /\ a \in job[d].keys /\ a \in Attachments
      BY <1>1, <2>3, KeysAreAttachments
    <3> QED
      BY <1>6, <2>3, <3>1 DEF OnlyUploaded
  <2> QED
    BY <2>1, <2>2, <2>3 DEF OnlyUploaded
<1>8. RemovedHaveNoRow'
  BY <1>0, <1>1, <1>2, BytesTypes DEF RemovedHaveNoRow
<1>9. KeysOfSubmission'
  BY <1>0, <1>1 DEF KeysOfSubmission, FilesOf, HasRow
<1>10. ScreenshotsHeld'
  <2> SUFFICES ASSUME NEW d \in Calls, pc'[d] = "f_tag"
               PROVE  /\ job'[d].keys \subseteq Screenshots[job'[d].payload]
                      /\ \A a \in Screenshots[job'[d].payload] :
                            /\ attachments'[a].intent = job'[d].intent
                            /\ ~IsBound(a)'
                            /\ a \in job'[d].keys \/ objects'[a] = "bound"
    BY DEF ScreenshotsHeld
  <2>1. pc[d] = "f_tag" /\ job'[d] = job[d]
    BY <1>1
  <2>2. \A a \in Screenshots[job[d].payload] :
           /\ a \in Attachments /\ HasRow(a) /\ ~IsBound(a) /\ attachments[a].intent = job[d].intent
           /\ a \in job[d].keys \/ objects[a] = "bound"
    BY <2>1, HeldScreenshots
  <2>3. job[d].keys \subseteq Screenshots[job[d].payload]
    BY <2>1 DEF ScreenshotsHeld
  <2> QED
    BY <1>0, <1>1, <1>4, <2>1, <2>2, <2>3 DEF IsBound
<1>11. PayloadsStored' /\ BytesOwned'
  BY <1>0, <1>1, <1>2, <1>4 DEF PayloadsStored, BytesOwned
<1>12. OnlyDiscardsLoseScreenshots'
  BY <1>0, <1>1, LiveScreenshots DEF OnlyDiscardsLoseScreenshots
<1> QED
  BY <1>5, <1>7, <1>8, <1>9, <1>10, <1>11, <1>12

\* The row an upload inserts is the first of its attachment.
LEMMA InsertKeepsBytes ==
    ASSUME BytesInv, IndInv', NEW c \in Calls, InsertAttachment(c)
    PROVE  BytesInv'
<1> USE DEF BytesInv
<1>0. /\ pc[c] = "u_row" /\ job[c].attachment \in Attachments /\ job[c].intent \in Intents
      /\ UNCHANGED <<database, submissions, objects, retags, purgeQueue, discarded>>
      /\ pc' = [pc EXCEPT ![c] = "idle"] /\ job' = [job EXCEPT ![c] = NoJob]
  BY DEF InsertAttachment, storage, End, IndInv, JobsFit, Fits
<1> PICK b \in Attachments : b = job[c].attachment
  BY <1>0
<1>1. /\ pc'[c] = "idle"
      /\ \A d \in Calls : d # c => pc'[d] = pc[d] /\ job'[d] = job[d]
  BY <1>0, BytesTypes
<1>2. /\ \A a \in Attachments : a # b => attachments'[a] = attachments[a]
      /\ \/ attachments'[b] = attachments[b]
         \/ attachments'[b].submission = None
  BY BytesTypes DEF InsertAttachment
<1>3. /\ Uploading(c, b) /\ ~HasRow(b) /\ objects[b] # "none" /\ ~Uploaded(b)
      /\ \A d \in Calls : Uploading(d, b) => d = c
  BY <1>0 DEF Uploading, Uploaded, UploadsAlone
<1>4. b \notin retags \cup purgeQueue \cup discarded
  BY <1>3 DEF OnlyUploaded
<1>5. \A a \in Attachments : a # b => (HasRow(a)' <=> HasRow(a))
  BY <1>2 DEF HasRow
<1>6. \A d \in Calls, a \in Attachments : Uploading(d, a)' => d # c /\ a # b /\ Uploading(d, a)
  BY <1>1, <1>3 DEF Uploading
<1>7. UploadsAlone'
  BY <1>0, <1>5, <1>6 DEF UploadsAlone
<1>8. \A a \in Attachments : Uploaded(a) \/ a = b => Uploaded(a)'
  BY <1>0, <1>3, <1>6 DEF Uploaded
<1>9. OnlyUploaded'
  <2>1. \A a \in Attachments : (HasRow(a) \/ a \in retags \cup purgeQueue \cup discarded)' => Uploaded(a)'
    BY <1>0, <1>5, <1>8 DEF OnlyUploaded
  <2>2. ASSUME NEW d \in Calls, pc'[d] \in {"d_row", "d_object"}
        PROVE  Uploaded(job[d].attachment)'
    <3>1. d # c /\ pc'[d] = pc[d] /\ job'[d] = job[d]
      BY <1>1, <2>2
    <3>2. PICK a \in Attachments : a = job[d].attachment
      BY <2>2, <3>1, KeysAreAttachments
    <3>3. Uploaded(a)'
      BY <1>8, <2>2, <3>1, <3>2 DEF OnlyUploaded
    <3> QED
      BY <3>1, <3>2, <3>3 DEF Uploaded, Uploading
  <2>3. ASSUME NEW d \in Calls, pc'[d] \in {"r_commit", "x_lock", "x_cascade"},
               NEW a \in job'[d].keys
        PROVE  Uploaded(a)'
    <3>1. d # c /\ pc'[d] = pc[d] /\ a \in job[d].keys /\ a \in Attachments
      BY <1>1, <2>3, KeysAreAttachments
    <3> QED
      BY <1>8, <2>3, <3>1 DEF OnlyUploaded
  <2> QED
    BY <2>1, <2>2, <2>3 DEF OnlyUploaded
<1>10. RemovedHaveNoRow'
  <2>1. \A a \in purgeQueue' \cup discarded' : ~HasRow(a)'
    BY <1>0, <1>4, <1>5, BytesTypes DEF RemovedHaveNoRow
  <2> QED
    BY <1>0, <1>1, <2>1 DEF RemovedHaveNoRow
<1>11. KeysOfSubmission'
  <2> SUFFICES ASSUME NEW d \in Calls, pc'[d] = "r_commit"
               PROVE  /\ FilesOf(job[d].submission)' \subseteq job'[d].keys
                      /\ \A a \in job'[d].keys :
                            attachments'[a].submission = job'[d].submission \/ ~HasRow(a)'
    BY DEF KeysOfSubmission
  <2>1. pc[d] = "r_commit" /\ job'[d] = job[d] /\ job[d].keys \subseteq Attachments
        /\ job[d].submission \in Submissions
    BY <1>1, KeysAreAttachments DEF IndInv, JobsFit, Fits
  <2>2. b \notin job[d].keys
    BY <1>3, <2>1 DEF OnlyUploaded
  <2>3. attachments'[b].submission = None
    BY <1>2, <1>3, BytesTypes
  <2> QED
    BY <1>2, <1>5, <2>1, <2>2, <2>3, BytesTypes DEF KeysOfSubmission, FilesOf
<1>12. \A d \in Calls : pc'[d] = "f_tag" =>
          pc[d] = "f_tag" /\ job'[d] = job[d] /\ b \notin Screenshots[job[d].payload]
  BY <1>1, <1>3, HeldScreenshots
<1>13. ScreenshotsHeld'
  <2> SUFFICES ASSUME NEW d \in Calls, pc'[d] = "f_tag"
               PROVE  /\ job'[d].keys \subseteq Screenshots[job'[d].payload]
                      /\ \A a \in Screenshots[job'[d].payload] :
                            /\ attachments'[a].intent = job'[d].intent
                            /\ ~IsBound(a)'
                            /\ a \in job'[d].keys \/ objects'[a] = "bound"
    BY DEF ScreenshotsHeld
  <2>1. \A a \in Screenshots[job[d].payload] :
           /\ a \in Attachments /\ ~IsBound(a) /\ attachments[a].intent = job[d].intent
           /\ a \in job[d].keys \/ objects[a] = "bound"
    BY <1>12, HeldScreenshots
  <2>2. job[d].keys \subseteq Screenshots[job[d].payload]
    BY <1>12 DEF ScreenshotsHeld
  <2> QED
    BY <1>0, <1>2, <1>12, <2>1, <2>2 DEF IsBound
<1>14. PayloadsStored'
  BY <1>0 DEF PayloadsStored
<1>15. BytesOwned'
  <2>1. ASSUME database = "live", objects[b] = "bound" \/ (b \in retags /\ objects[b] = "pending")
        PROVE  FALSE
    BY <1>3, <1>4, <2>1 DEF BytesOwned
  <2> QED
    BY <1>0, <1>5, <2>1 DEF BytesOwned
<1>16. OnlyDiscardsLoseScreenshots'
  <2> SUFFICES ASSUME NEW s \in Submissions, submissions[s].state = "live",
                      NEW a \in Screenshots[submissions[s].payload] \ discarded
               PROVE  attachments'[a].submission = s /\ objects[a] = "bound"
    BY <1>0 DEF OnlyDiscardsLoseScreenshots
  <2>1. a \in Attachments /\ HasRow(a) /\ attachments[a].submission = s /\ objects[a] = "bound"
    BY LiveScreenshots
  <2> QED
    BY <1>2, <1>3, <2>1
<1> QED
  BY <1>7, <1>9, <1>10, <1>11, <1>13, <1>14, <1>15, <1>16

\* A discard takes a row nobody has locked, and remembers it.
LEMMA DiscardRowKeepsBytes ==
    ASSUME BytesInv, IndInv', NEW c \in Calls, DeleteAttachmentRow(c)
    PROVE  BytesInv'
<1> USE DEF BytesInv
<1>0. /\ pc[c] = "d_row" /\ job[c].attachment \in Attachments
      /\ UNCHANGED <<database, submissions, objects, retags, purgeQueue, job>>
      /\ pc' = [pc EXCEPT ![c] = "d_object"]
  BY DEF DeleteAttachmentRow, storage, Goto, IndInv, JobsFit, Fits
<1> PICK b \in Attachments : b = job[c].attachment
  BY <1>0
<1>1. /\ pc'[c] = "d_object"
      /\ \A d \in Calls : d # c => pc'[d] = pc[d]
      /\ discarded' = discarded \cup {b}
      /\ \A a \in Attachments : attachments'[a] = IF a = b THEN NoRow ELSE attachments[a]
  BY <1>0, BytesTypes DEF DeleteAttachmentRow
<1>2. \A d \in Calls : pc[d] = "f_tag" => b \notin Screenshots[job[d].payload]
  BY DEF DeleteAttachmentRow, RowLocked
<1>3. /\ ~HasRow(b)' /\ attachments'[b].submission = None
      /\ \A a \in Attachments : a # b => (HasRow(a)' <=> HasRow(a))
  BY <1>1 DEF HasRow, NoRow
<1>4. Uploaded(b)
  BY <1>0 DEF OnlyUploaded
<1>5. \A d \in Calls, a \in Attachments : Uploading(d, a)' <=> Uploading(d, a)
  BY <1>0, <1>1 DEF Uploading
<1>6. UploadsAlone'
  BY <1>0, <1>3, <1>5 DEF UploadsAlone
<1>7. \A a \in Attachments : Uploaded(a) => Uploaded(a)'
  BY <1>0, <1>5 DEF Uploaded
<1>8. OnlyUploaded'
  <2>1. \A a \in Attachments : (HasRow(a) \/ a \in retags \cup purgeQueue \cup discarded)' => Uploaded(a)'
    BY <1>0, <1>1, <1>3, <1>4, <1>7 DEF OnlyUploaded
  <2>2. ASSUME NEW d \in Calls, pc'[d] \in {"d_row", "d_object"}
        PROVE  Uploaded(job[d].attachment)'
    <3>1. pc[d] \in {"d_row", "d_object"}
      BY <1>0, <1>1, <2>2
    <3>2. PICK a \in Attachments : a = job[d].attachment
      BY <3>1, KeysAreAttachments
    <3>3. Uploaded(a)'
      BY <1>7, <3>1, <3>2 DEF OnlyUploaded
    <3> QED
      BY <1>0, <3>2, <3>3 DEF Uploaded, Uploading
  <2>3. ASSUME NEW d \in Calls, pc'[d] \in {"r_commit", "x_lock", "x_cascade"},
               NEW a \in job'[d].keys
        PROVE  Uploaded(a)'
    <3>1. pc'[d] = pc[d] /\ a \in job[d].keys /\ a \in Attachments
      BY <1>0, <1>1, <2>3, KeysAreAttachments
    <3> QED
      BY <1>7, <2>3, <3>1 DEF OnlyUploaded
  <2> QED
    BY <2>1, <2>2, <2>3 DEF OnlyUploaded
<1>9. RemovedHaveNoRow'
  BY <1>0, <1>1, <1>3, BytesTypes DEF RemovedHaveNoRow
<1>10. KeysOfSubmission'
  <2> SUFFICES ASSUME NEW d \in Calls, pc'[d] = "r_commit"
               PROVE  /\ FilesOf(job[d].submission)' \subseteq job'[d].keys
                      /\ \A a \in job'[d].keys :
                            attachments'[a].submission = job'[d].submission \/ ~HasRow(a)'
    BY DEF KeysOfSubmission
  <2>1. pc[d] = "r_commit" /\ job'[d] = job[d] /\ job[d].keys \subseteq Attachments
        /\ job[d].submission \in Submissions
    BY <1>0, <1>1, KeysAreAttachments DEF IndInv, JobsFit, Fits
  <2> QED
    BY <1>1, <1>3, <2>1, BytesTypes DEF KeysOfSubmission, FilesOf
<1>11. ScreenshotsHeld'
  <2> SUFFICES ASSUME NEW d \in Calls, pc'[d] = "f_tag"
               PROVE  /\ job'[d].keys \subseteq Screenshots[job'[d].payload]
                      /\ \A a \in Screenshots[job'[d].payload] :
                            /\ attachments'[a].intent = job'[d].intent
                            /\ ~IsBound(a)'
                            /\ a \in job'[d].keys \/ objects'[a] = "bound"
    BY DEF ScreenshotsHeld
  <2>1. pc[d] = "f_tag" /\ job'[d] = job[d]
    BY <1>0, <1>1
  <2>2. \A a \in Screenshots[job[d].payload] :
           /\ a \in Attachments /\ ~IsBound(a) /\ attachments[a].intent = job[d].intent
           /\ a \in job[d].keys \/ objects[a] = "bound"
    BY <2>1, HeldScreenshots
  <2>3. job[d].keys \subseteq Screenshots[job[d].payload]
    BY <2>1 DEF ScreenshotsHeld
  <2> QED
    BY <1>0, <1>1, <1>2, <2>1, <2>2, <2>3 DEF IsBound
<1>12. PayloadsStored' /\ BytesOwned'
  BY <1>0, <1>1, <1>3 DEF PayloadsStored, BytesOwned
<1>13. OnlyDiscardsLoseScreenshots'
  BY <1>0, <1>1, LiveScreenshots DEF OnlyDiscardsLoseScreenshots
<1> QED
  BY <1>6, <1>8, <1>9, <1>10, <1>11, <1>12, <1>13

\* A commit binds rows that only its intent has, whose objects are all bound.
LEMMA CommitKeepsBytes ==
    ASSUME BytesInv, IndInv', NEW c \in Calls, NEW s \in Submissions, NEW queued \in BOOLEAN,
           CommitFinalize(c, s, queued)
    PROVE  BytesInv'
<1> USE DEF BytesInv
<1>0. /\ pc[c] = "f_tag" /\ job[c].keys = {} /\ submissions[s].state = "unused"
      /\ UNCHANGED <<database, objects, retags, purgeQueue, discarded>>
      /\ pc' = [pc EXCEPT ![c] = "idle"] /\ job' = [job EXCEPT ![c] = NoJob]
      /\ job[c].payload \in Payloads
  BY HeldScreenshots DEF CommitFinalize, storage, End
<1> PICK p \in Payloads : p = job[c].payload
  BY <1>0
<1>a. \A a \in Screenshots[p] :
         /\ a \in Attachments /\ HasRow(a) /\ ~IsBound(a) /\ objects[a] = "bound"
         /\ attachments[a].intent = job[c].intent
  BY <1>0, HeldScreenshots
<1>1. /\ pc'[c] = "idle"
      /\ \A d \in Calls : d # c => pc'[d] = pc[d] /\ job'[d] = job[d]
  BY <1>0, BytesTypes
<1>2. /\ \A a \in Attachments : a \notin Screenshots[p] => attachments'[a] = attachments[a]
      /\ \A a \in Screenshots[p] : attachments'[a] = [attachments[a] EXCEPT !.submission = s]
  BY <1>a DEF CommitFinalize
<1>3. \A a \in Screenshots[p] : attachments'[a].submission = s /\ HasRow(a)'
  <2> SUFFICES ASSUME NEW a \in Screenshots[p]
               PROVE  attachments'[a].submission = s /\ HasRow(a)'
    OBVIOUS
  <2>1. attachments[a] \in [intent : Intents, submission : Submissions \cup {None}]
    BY <1>a, BytesTypes DEF AttachmentRows, HasRow
  <2>2. attachments'[a].submission = s
    BY <1>2, <2>1
  <2> QED
    BY <2>2, BytesTypes DEF HasRow, NoRow
<1>4. \A a \in Attachments : HasRow(a)' <=> HasRow(a)
  BY <1>a, <1>2, <1>3 DEF HasRow
<1>5. /\ submissions'[s] = [state |-> "live", intent |-> job[c].intent, payload |-> p]
      /\ \A t \in Submissions : t # s => submissions'[t] = submissions[t]
  BY BytesTypes DEF CommitFinalize
<1>6. \A d \in Calls, a \in Attachments : Uploading(d, a)' => d # c /\ Uploading(d, a)
  BY <1>1 DEF Uploading
<1>7. UploadsAlone'
  BY <1>0, <1>4, <1>6 DEF UploadsAlone
<1>8. \A a \in Attachments : Uploaded(a) => Uploaded(a)'
  BY <1>0, <1>6 DEF Uploaded
<1>9. OnlyUploaded'
  <2>1. \A a \in Attachments : (HasRow(a) \/ a \in retags \cup purgeQueue \cup discarded)' => Uploaded(a)'
    BY <1>0, <1>4, <1>8 DEF OnlyUploaded
  <2>2. ASSUME NEW d \in Calls, pc'[d] \in {"d_row", "d_object"}
        PROVE  Uploaded(job[d].attachment)'
    <3>1. pc'[d] = pc[d] /\ job'[d] = job[d]
      BY <1>1, <2>2
    <3>2. PICK a \in Attachments : a = job[d].attachment
      BY <2>2, <3>1, KeysAreAttachments
    <3>3. Uploaded(a)'
      BY <1>8, <2>2, <3>1, <3>2 DEF OnlyUploaded
    <3> QED
      BY <3>1, <3>2, <3>3 DEF Uploaded, Uploading
  <2>3. ASSUME NEW d \in Calls, pc'[d] \in {"r_commit", "x_lock", "x_cascade"},
               NEW a \in job'[d].keys
        PROVE  Uploaded(a)'
    <3>1. pc'[d] = pc[d] /\ a \in job[d].keys /\ a \in Attachments
      BY <1>1, <2>3, KeysAreAttachments
    <3> QED
      BY <1>8, <2>3, <3>1 DEF OnlyUploaded
  <2> QED
    BY <2>1, <2>2, <2>3 DEF OnlyUploaded
<1>10. RemovedHaveNoRow'
  BY <1>0, <1>1, <1>4, BytesTypes DEF RemovedHaveNoRow
<1>11. KeysOfSubmission'
  <2> SUFFICES ASSUME NEW d \in Calls, pc'[d] = "r_commit"
               PROVE  /\ FilesOf(job[d].submission)' \subseteq job'[d].keys
                      /\ \A a \in job'[d].keys :
                            attachments'[a].submission = job'[d].submission \/ ~HasRow(a)'
    BY DEF KeysOfSubmission
  <2>1. pc[d] = "r_commit" /\ job'[d] = job[d] /\ job[d].keys \subseteq Attachments
        /\ job[d].submission \in Submissions /\ job[d].submission # s
    BY <1>0, <1>1, KeysAreAttachments DEF IndInv, JobsFit, Fits
  <2>2. FilesOf(job[d].submission)' \subseteq FilesOf(job[d].submission)
    BY <1>2, <1>3, <2>1 DEF FilesOf
  <2>3. ASSUME NEW a \in job[d].keys
        PROVE  attachments'[a].submission = job[d].submission \/ ~HasRow(a)'
    <3>1. attachments[a].submission = job[d].submission \/ ~HasRow(a)
      BY <2>1 DEF KeysOfSubmission
    <3>2. CASE a \in Screenshots[p]
      BY <1>a, <2>1, <3>1, <3>2, BytesTypes DEF IsBound
    <3>3. CASE a \notin Screenshots[p]
      BY <1>2, <1>4, <2>1, <3>1, <3>3
    <3> QED
      BY <3>2, <3>3
  <2> QED
    BY <2>1, <2>2, <2>3 DEF KeysOfSubmission
<1>12. ScreenshotsHeld'
  <2> SUFFICES ASSUME NEW d \in Calls, pc'[d] = "f_tag"
               PROVE  /\ job'[d].keys \subseteq Screenshots[job'[d].payload]
                      /\ \A a \in Screenshots[job'[d].payload] :
                            /\ attachments'[a].intent = job'[d].intent
                            /\ ~IsBound(a)'
                            /\ a \in job'[d].keys \/ objects'[a] = "bound"
    BY DEF ScreenshotsHeld
  <2>1. d # c /\ pc[d] = "f_tag" /\ job'[d] = job[d]
    BY <1>1
  <2>2. job[d].intent # job[c].intent
    BY <1>0, <2>1 DEF IndInv, LocksHeld, Finalizing
  <2>3. \A a \in Screenshots[job[d].payload] :
           /\ a \in Attachments /\ ~IsBound(a) /\ attachments[a].intent = job[d].intent
           /\ a \in job[d].keys \/ objects[a] = "bound"
    BY <2>1, HeldScreenshots
  <2>4. \A a \in Screenshots[job[d].payload] : attachments'[a] = attachments[a]
    BY <1>a, <1>2, <2>2, <2>3
  <2>5. job[d].keys \subseteq Screenshots[job[d].payload]
    BY <2>1 DEF ScreenshotsHeld
  <2> QED
    BY <1>0, <2>1, <2>3, <2>4, <2>5 DEF IsBound
<1>13. PayloadsStored' /\ BytesOwned'
  BY <1>0, <1>4, <1>5 DEF PayloadsStored, BytesOwned
<1>14. OnlyDiscardsLoseScreenshots'
  <2> SUFFICES ASSUME NEW t \in Submissions, submissions'[t].state = "live",
                      NEW a \in Screenshots[submissions'[t].payload] \ discarded
               PROVE  attachments'[a].submission = t /\ objects[a] = "bound"
    BY <1>0 DEF OnlyDiscardsLoseScreenshots
  <2>1. CASE t = s
    BY <1>a, <1>3, <1>5, <2>1
  <2>2. CASE t # s
    <3>1. submissions'[t] = submissions[t]
      BY <1>5, <2>2
    <3>2. a \in Attachments /\ attachments[a].submission = t /\ objects[a] = "bound"
      BY <3>1, LiveScreenshots
    <3>3. a \notin Screenshots[p]
      BY <1>a, <3>2, BytesTypes DEF IsBound
    <3> QED
      BY <1>2, <3>2, <3>3
  <2> QED
    BY <2>1, <2>2
<1> QED
  BY <1>7, <1>9, <1>10, <1>11, <1>12, <1>13, <1>14

\* Deleting a submission queues every row it takes: the keys were read while it
\* had no fewer rows than now.
LEMMA DeleteKeepsBytes ==
    ASSUME BytesInv, IndInv', NEW c \in Calls, DeleteSubmission(c)
    PROVE  BytesInv'
<1> USE DEF BytesInv
<1>0. /\ pc[c] = "r_commit" /\ job[c].submission \in Submissions
      /\ UNCHANGED <<database, objects, retags, discarded>>
      /\ pc' = [pc EXCEPT ![c] = "idle"] /\ job' = [job EXCEPT ![c] = NoJob]
      /\ purgeQueue' = purgeQueue \cup job[c].keys
  BY DeleteFacts DEF DeleteSubmission, End
<1> PICK s \in Submissions : s = job[c].submission
  BY <1>0
<1>1. /\ pc'[c] = "idle"
      /\ \A d \in Calls : d # c => pc'[d] = pc[d] /\ job'[d] = job[d]
  BY <1>0, BytesTypes
<1>2. /\ \A a \in Attachments :
            attachments'[a] = IF attachments[a].submission = s THEN NoRow ELSE attachments[a]
      /\ \A a \in Attachments :
            HasRow(a)' => HasRow(a) /\ attachments'[a] = attachments[a] /\ attachments[a].submission # s
  BY DEF DeleteSubmission, HasRow
<1>3. /\ submissions'[s].state = "deleted"
      /\ \A t \in Submissions : /\ submissions'[t].payload = submissions[t].payload
                                /\ t # s => submissions'[t] = submissions[t]
      /\ submissions[s].state # "unused"
  <2>1. /\ submissions' = [submissions EXCEPT ![s].state = "deleted"]
        /\ submissions[s].state # "unused"
    BY DeleteFacts
  <2>2. submissions \in [Submissions -> SubmissionRows]
    BY BytesTypes
  <2> QED
    BY <2>1, <2>2 DEF SubmissionRows
<1>4. /\ job[c].keys \subseteq Attachments
      /\ FilesOf(s) \subseteq job[c].keys
      /\ \A a \in job[c].keys : attachments[a].submission = s \/ ~HasRow(a)
      /\ \A a \in job[c].keys : Uploaded(a)
  BY <1>0, KeysAreAttachments DEF KeysOfSubmission, OnlyUploaded
<1>5. \A d \in Calls, a \in Attachments : Uploading(d, a)' => Uploading(d, a)
  BY <1>1 DEF Uploading
<1>6. UploadsAlone'
  BY <1>0, <1>2, <1>5 DEF UploadsAlone
<1>7. \A a \in Attachments : Uploaded(a) => Uploaded(a)'
  BY <1>0, <1>5 DEF Uploaded
<1>8. OnlyUploaded'
  <2>1. \A a \in Attachments : (HasRow(a) \/ a \in retags \cup purgeQueue \cup discarded)' => Uploaded(a)'
    BY <1>0, <1>2, <1>4, <1>7 DEF OnlyUploaded
  <2>2. ASSUME NEW d \in Calls, pc'[d] \in {"d_row", "d_object"}
        PROVE  Uploaded(job[d].attachment)'
    <3>1. pc'[d] = pc[d] /\ job'[d] = job[d]
      BY <1>1, <2>2
    <3>2. PICK a \in Attachments : a = job[d].attachment
      BY <2>2, <3>1, KeysAreAttachments
    <3>3. Uploaded(a)'
      BY <1>7, <2>2, <3>1, <3>2 DEF OnlyUploaded
    <3> QED
      BY <3>1, <3>2, <3>3 DEF Uploaded, Uploading
  <2>3. ASSUME NEW d \in Calls, pc'[d] \in {"r_commit", "x_lock", "x_cascade"},
               NEW a \in job'[d].keys
        PROVE  Uploaded(a)'
    <3>1. pc'[d] = pc[d] /\ a \in job[d].keys /\ a \in Attachments
      BY <1>1, <2>3, KeysAreAttachments
    <3> QED
      BY <1>7, <2>3, <3>1 DEF OnlyUploaded
  <2> QED
    BY <2>1, <2>2, <2>3 DEF OnlyUploaded
<1>9. RemovedHaveNoRow'
  <2>1. \A a \in purgeQueue' \cup discarded' : ~HasRow(a)'
    BY <1>0, <1>2, <1>4, BytesTypes DEF RemovedHaveNoRow
  <2> QED
    BY <1>0, <1>1, <2>1 DEF RemovedHaveNoRow
<1>10. KeysOfSubmission'
  <2> SUFFICES ASSUME NEW d \in Calls, pc'[d] = "r_commit"
               PROVE  /\ FilesOf(job[d].submission)' \subseteq job'[d].keys
                      /\ \A a \in job'[d].keys :
                            attachments'[a].submission = job'[d].submission \/ ~HasRow(a)'
    BY DEF KeysOfSubmission
  <2>1. pc[d] = "r_commit" /\ job'[d] = job[d] /\ job[d].keys \subseteq Attachments
        /\ job[d].submission \in Submissions
    BY <1>1, KeysAreAttachments DEF IndInv, JobsFit, Fits
  <2>2. FilesOf(job[d].submission)' \subseteq FilesOf(job[d].submission)
    BY <1>2, <2>1, BytesTypes DEF FilesOf, NoRow
  <2> QED
    BY <1>2, <2>1, <2>2 DEF KeysOfSubmission
<1>11. ScreenshotsHeld'
  <2> SUFFICES ASSUME NEW d \in Calls, pc'[d] = "f_tag"
               PROVE  /\ job'[d].keys \subseteq Screenshots[job'[d].payload]
                      /\ \A a \in Screenshots[job'[d].payload] :
                            /\ attachments'[a].intent = job'[d].intent
                            /\ ~IsBound(a)'
                            /\ a \in job'[d].keys \/ objects'[a] = "bound"
    BY DEF ScreenshotsHeld
  <2>1. pc[d] = "f_tag" /\ job'[d] = job[d]
    BY <1>1
  <2>2. \A a \in Screenshots[job[d].payload] :
           /\ a \in Attachments /\ ~IsBound(a) /\ attachments[a].intent = job[d].intent
           /\ a \in job[d].keys \/ objects[a] = "bound"
    BY <2>1, HeldScreenshots
  <2>3. \A a \in Screenshots[job[d].payload] : attachments'[a] = attachments[a]
    BY <1>2, <2>2, BytesTypes DEF IsBound
  <2>4. job[d].keys \subseteq Screenshots[job[d].payload]
    BY <2>1 DEF ScreenshotsHeld
  <2> QED
    BY <1>0, <2>1, <2>2, <2>3, <2>4 DEF IsBound
<1>12. PayloadsStored'
  BY <1>3 DEF PayloadsStored
<1>13. BytesOwned'
  <2>1. \A a \in Attachments : HasRow(a) => HasRow(a)' \/ a \in job[c].keys
    BY <1>2, <1>4 DEF FilesOf, HasRow
  <2> QED
    BY <1>0, <2>1 DEF BytesOwned
<1>14. OnlyDiscardsLoseScreenshots'
  <2> SUFFICES ASSUME NEW t \in Submissions, submissions'[t].state = "live",
                      NEW a \in Screenshots[submissions'[t].payload] \ discarded
               PROVE  attachments'[a].submission = t /\ objects[a] = "bound"
    BY <1>0 DEF OnlyDiscardsLoseScreenshots
  <2>1. t # s /\ submissions'[t] = submissions[t]
    BY <1>3
  <2>2. a \in Attachments /\ attachments[a].submission = t /\ objects[a] = "bound"
    BY <2>1, LiveScreenshots
  <2> QED
    BY <1>2, <2>1, <2>2
<1> QED
  BY <1>6, <1>8, <1>9, <1>10, <1>11, <1>12, <1>13, <1>14

\* Deleting the database leaves no row, no live submission and no finalization.
LEMMA DropKeepsBytes ==
    ASSUME BytesInv, IndInv', NEW c \in Calls, DeleteDatabase(c)
    PROVE  BytesInv'
<1> USE DEF BytesInv
<1>0. /\ pc[c] = "x_cascade" /\ database' = "gone"
      /\ UNCHANGED <<objects, retags, discarded>>
      /\ pc' = [pc EXCEPT ![c] = "idle"] /\ job' = [job EXCEPT ![c] = NoJob]
      /\ purgeQueue' = purgeQueue \cup job[c].keys
      /\ attachments' = [a \in Attachments |-> NoRow]
  BY DEF DeleteDatabase, End
<1>1. /\ pc'[c] = "idle"
      /\ \A d \in Calls : d # c => pc'[d] = pc[d] /\ job'[d] = job[d]
  BY <1>0, BytesTypes
<1>2. \A a \in Attachments : ~HasRow(a)' /\ attachments'[a].submission = None
  BY <1>0 DEF HasRow, NoRow
<1>3. \A t \in Submissions : /\ submissions'[t].state # "live"
                             /\ submissions'[t].payload = submissions[t].payload
                             /\ submissions'[t].state # "unused" => submissions[t].state # "unused"
  BY BytesTypes DEF DeleteDatabase, SubmissionRows
<1>4. job[c].keys \subseteq Attachments /\ \A a \in job[c].keys : Uploaded(a)
  BY <1>0, KeysAreAttachments DEF OnlyUploaded
<1>5. \A d \in Calls : pc'[d] # "f_tag"
  <2> SUFFICES ASSUME NEW d \in Calls, pc'[d] = "f_tag" PROVE FALSE
    OBVIOUS
  <2>1. pc[d] = "f_tag"
    BY <1>1
  <2>2. job[d].intent \in Intents
    BY <2>1, HeldScreenshots
  <2> QED
    BY <2>1, <2>2 DEF DeleteDatabase, IntentLocked, Finalizing
<1>6. \A d \in Calls, a \in Attachments : Uploading(d, a)' => Uploading(d, a)
  BY <1>1 DEF Uploading
<1>7. UploadsAlone'
  BY <1>0, <1>2, <1>6 DEF UploadsAlone
<1>8. \A a \in Attachments : Uploaded(a) => Uploaded(a)'
  BY <1>0, <1>6 DEF Uploaded
<1>9. OnlyUploaded'
  <2>1. \A a \in Attachments : (HasRow(a) \/ a \in retags \cup purgeQueue \cup discarded)' => Uploaded(a)'
    BY <1>0, <1>2, <1>4, <1>8 DEF OnlyUploaded
  <2>2. ASSUME NEW d \in Calls, pc'[d] \in {"d_row", "d_object"}
        PROVE  Uploaded(job[d].attachment)'
    <3>1. pc'[d] = pc[d] /\ job'[d] = job[d]
      BY <1>1, <2>2
    <3>2. PICK a \in Attachments : a = job[d].attachment
      BY <2>2, <3>1, KeysAreAttachments
    <3>3. Uploaded(a)'
      BY <1>8, <2>2, <3>1, <3>2 DEF OnlyUploaded
    <3> QED
      BY <3>1, <3>2, <3>3 DEF Uploaded, Uploading
  <2>3. ASSUME NEW d \in Calls, pc'[d] \in {"r_commit", "x_lock", "x_cascade"},
               NEW a \in job'[d].keys
        PROVE  Uploaded(a)'
    <3>1. pc'[d] = pc[d] /\ a \in job[d].keys /\ a \in Attachments
      BY <1>1, <2>3, KeysAreAttachments
    <3> QED
      BY <1>8, <2>3, <3>1 DEF OnlyUploaded
  <2> QED
    BY <2>1, <2>2, <2>3 DEF OnlyUploaded
<1>10. RemovedHaveNoRow'
  <2>1. \A a \in purgeQueue' \cup discarded' : ~HasRow(a)'
    BY <1>0, <1>2, <1>4, BytesTypes
  <2> QED
    BY <1>0, <1>1, <2>1 DEF RemovedHaveNoRow
<1>11. KeysOfSubmission'
  <2> SUFFICES ASSUME NEW d \in Calls, pc'[d] = "r_commit"
               PROVE  /\ FilesOf(job[d].submission)' \subseteq job'[d].keys
                      /\ \A a \in job'[d].keys : ~HasRow(a)'
    BY DEF KeysOfSubmission
  <2>1. job'[d] = job[d] /\ job[d].keys \subseteq Attachments /\ job[d].submission # None
    BY <1>1, KeysAreAttachments, BytesTypes DEF IndInv, JobsFit, Fits
  <2>2. FilesOf(job[d].submission)' = {}
    BY <1>2, <2>1 DEF FilesOf
  <2> QED
    BY <1>2, <2>1, <2>2
<1>12. ScreenshotsHeld' /\ BytesOwned' /\ OnlyDiscardsLoseScreenshots' /\ PayloadsStored'
  BY <1>0, <1>3, <1>5 DEF ScreenshotsHeld, BytesOwned, OnlyDiscardsLoseScreenshots, PayloadsStored
<1> QED
  BY <1>7, <1>9, <1>10, <1>11, <1>12

\* Every step keeps BytesInv, one case per action.
LEMMA StepKeepsBytes ==
    ASSUME BytesInv, IndInv', [Next]_vars
    PROVE  BytesInv'
<1> USE DEF BytesInv, rows, storage
<1>0. /\ pc \in [Calls -> Steps] /\ job \in [Calls -> Jobs] /\ None \notin Intents
      /\ objects \in [Attachments -> {"none", "pending", "bound", "gone"}]
  BY BytesTypes
<1>a. ASSUME NEW c \in Calls, End(c)
      PROVE  \A d \in Calls : pc'[d] # "idle" => pc'[d] = pc[d] /\ job'[d] = job[d]
  BY <1>0, <1>a DEF End
<1>1. ASSUME NEW c \in Calls, Finalize(c) PROVE BytesInv'
  <2>1. ASSUME NEW i \in Intents, NEW p \in Payloads, StartFinalize(c, i, p) PROVE BytesInv'
    <3>1. [NoJob EXCEPT !.intent = i, !.payload = p] \in Jobs
          /\ "f_lock" \in Steps \ {"u_row", "d_object"}
      BY DEF NoJob, Jobs, Steps
    <3> QED
      BY <2>1, <3>1, MoveKeepsBytes DEF StartFinalize, Begin
  <2>2. CASE LockIntent(c)
    <3>1. End(c) \/ Goto(c, "f_bind")
      BY <2>2 DEF LockIntent, ReplayFinalized, FinalizeRefused
    <3> QED
      BY <2>2, <3>1, EndKeepsBytes, GotoKeepsBytes DEF LockIntent
  <2>3. CASE BindAttachments(c)
    <3> DEFINE wanted == Screenshots[job[c].payload]
               args == [job[c] EXCEPT !.keys = wanted]
    <3>1. CASE FinalizeRefused(c)
      BY <2>3, <3>1, EndKeepsBytes DEF BindAttachments, FinalizeRefused
    <3>2. CASE /\ \A a \in wanted : Bindable(a, job[c].intent, job[c].payload)
               /\ pc' = [pc EXCEPT ![c] = "f_tag"]
               /\ job' = [job EXCEPT ![c].keys = wanted]
      <4>1. wanted \subseteq Attachments
        BY <2>3, ScreenshotsAssumption DEF BindAttachments, IndInv, JobsFit, Fits
      <4>2. /\ args \in Jobs /\ job' = [job EXCEPT ![c] = args]
            /\ args.keys = wanted /\ args.payload = job[c].payload /\ args.intent = job[c].intent
            /\ "f_tag" \in Steps \ {"u_row", "d_object"}
        BY <1>0, <3>2, <4>1 DEF Jobs, Steps
      <4>3. \A a \in wanted : attachments[a].intent = job[c].intent /\ ~IsBound(a)
        BY <3>2 DEF Bindable
      <4> HIDE DEF args
      <4> QED
        BY <2>3, <3>2, <4>2, <4>3, MoveKeepsBytes DEF BindAttachments
    <3> QED
      BY <2>3, <3>1, <3>2 DEF BindAttachments
  <2>4. CASE \E a \in Attachments : MarkBound(c, a)
    BY <2>4, MarkBoundKeepsBytes
  <2>5. CASE MarkBoundFails(c)
    <3>1. \A a \in job[c].keys : a \in Attachments /\ HasRow(a)
      BY <2>5, HeldScreenshots DEF MarkBoundFails, ScreenshotsHeld
    <3> QED
      BY <1>a, <2>5, <3>1, StoreKeepsBytes DEF MarkBoundFails, FinalizeRefused
  <2>6. CASE \E s \in Submissions, queued \in BOOLEAN : CommitFinalize(c, s, queued)
    BY <2>6, CommitKeepsBytes
  <2> QED
    BY <1>1, <2>1, <2>2, <2>3, <2>4, <2>5, <2>6 DEF Finalize
<1>2. ASSUME NEW c \in Calls, Upload(c) PROVE BytesInv'
  <2>1. ASSUME NEW i \in Intents, StartUpload(c, i) PROVE BytesInv'
    <3>1. [NoJob EXCEPT !.intent = i] \in Jobs /\ "u_slot" \in Steps \ {"u_row", "d_object"}
      BY DEF NoJob, Jobs, Steps
    <3> QED
      BY <2>1, <3>1, MoveKeepsBytes DEF StartUpload, Begin
  <2>2. CASE ReserveUploadSlot(c)
    BY <2>2, EndKeepsBytes, GotoKeepsBytes DEF ReserveUploadSlot
  <2>3. CASE UploadRefused(c)
    BY <2>3, EndKeepsBytes DEF UploadRefused
  <2> QED
    BY <1>2, <2>1, <2>2, <2>3, PutKeepsBytes, InsertKeepsBytes DEF Upload
<1>3. ASSUME NEW c \in Calls, Discard(c) PROVE BytesInv'
  <2>1. ASSUME NEW i \in Intents, NEW a \in Attachments, StartDiscard(c, i, a) PROVE BytesInv'
    <3>1. [NoJob EXCEPT !.intent = i, !.attachment = a] \in Jobs
          /\ "d_find" \in Steps \ {"u_row", "d_object"}
      BY DEF NoJob, Jobs, Steps
    <3> QED
      BY <2>1, <3>1, MoveKeepsBytes DEF StartDiscard, Begin
  <2>2. CASE FindPending(c)
    <3>1. CASE Goto(c, "d_row") /\ attachments[job[c].attachment].intent = job[c].intent
      <4>1. job[c].intent \in Intents /\ job[c].attachment \in Attachments
        BY <2>2 DEF FindPending, IndInv, JobsFit, Fits
      <4>2. HasRow(job[c].attachment)
        BY <1>0, <3>1, <4>1 DEF HasRow, NoRow
      <4>3. Uploaded(job[c].attachment)
        BY <4>1, <4>2 DEF OnlyUploaded
      <4> QED
        BY <2>2, <3>1, <4>3, GotoKeepsBytes DEF FindPending
    <3> QED
      BY <2>2, <3>1, EndKeepsBytes DEF FindPending
  <2>3. CASE DeleteObject(c)
    <3>1. job[c].attachment \in discarded
      BY <2>3 DEF DeleteObject, RemovedHaveNoRow
    <3> QED
      BY <1>0, <1>a, <2>3, <3>1, StoreKeepsBytes DEF DeleteObject
  <2> QED
    BY <1>3, <2>1, <2>2, <2>3, DiscardRowKeepsBytes DEF Discard
<1>4. ASSUME NEW c \in Calls, Delete(c) PROVE BytesInv'
  <2>1. ASSUME NEW s \in Submissions, StartDeleteSubmission(c, s) PROVE BytesInv'
    <3> DEFINE args == [NoJob EXCEPT !.submission = s, !.keys = FilesOf(s)]
    <3>1. /\ args \in Jobs /\ args.keys = FilesOf(s) /\ args.submission = s
          /\ "r_commit" \in Steps \ {"u_row", "d_object"}
      BY DEF NoJob, Jobs, Steps, FilesOf
    <3> HIDE DEF args
    <3>2. pc' = [pc EXCEPT ![c] = "r_commit"] /\ job' = [job EXCEPT ![c] = args]
      BY <2>1 DEF StartDeleteSubmission, Begin, args
    <3> QED
      BY <2>1, <3>1, <3>2, MoveKeepsBytes DEF StartDeleteSubmission
  <2>2. CASE StartDeleteDatabase(c)
    <3> DEFINE args == [NoJob EXCEPT !.keys = {a \in Attachments : HasRow(a)}]
    <3>1. /\ args \in Jobs /\ args.keys = {a \in Attachments : HasRow(a)}
          /\ "x_lock" \in Steps \ {"u_row", "d_object"}
      BY DEF NoJob, Jobs, Steps
    <3>2. \A a \in args.keys : Uploaded(a)
      BY <3>1 DEF OnlyUploaded
    <3> HIDE DEF args
    <3>3. pc' = [pc EXCEPT ![c] = "x_lock"] /\ job' = [job EXCEPT ![c] = args]
      BY <2>2 DEF StartDeleteDatabase, Begin, args
    <3> QED
      BY <2>2, <3>1, <3>2, <3>3, MoveKeepsBytes DEF StartDeleteDatabase
  <2>3. CASE LockDatabase(c)
    BY <2>3, EndKeepsBytes, GotoKeepsBytes DEF LockDatabase
  <2> QED
    BY <1>4, <2>1, <2>2, <2>3, DeleteKeepsBytes, DropKeepsBytes DEF Delete
<1>5. ASSUME NEW c \in Calls, Die(c) PROVE BytesInv'
  <2>1. pc[c] = "f_tag" => \A a \in job[c].keys : a \in Attachments /\ HasRow(a)
    BY HeldScreenshots DEF ScreenshotsHeld
  <2> QED
    BY <1>a, <1>5, <2>1, StoreKeepsBytes DEF Die
<1>6. CASE Environment
  <2>1. CASE \E i \in Intents : CreateIntent(i) \/ Expire(i)
    BY <2>1, StoreKeepsBytes DEF CreateIntent, Expire
  <2>2. ASSUME NEW a \in Attachments, RetagEnds(a) PROVE BytesInv'
    BY <1>0, <2>2, StoreKeepsBytes DEF RetagEnds, Tag
  <2>3. ASSUME NEW a \in Attachments, PurgeObject(a) PROVE BytesInv'
    BY <1>0, <2>3, StoreKeepsBytes DEF PurgeObject
  <2>4. ASSUME NEW a \in Attachments, ExpirePending(a) PROVE BytesInv'
    BY <1>0, <2>4, StoreKeepsBytes DEF ExpirePending
  <2>5. CASE \E f, x \in Calls : BreakDeadlock(f, x)
    BY <2>5, EndKeepsBytes DEF BreakDeadlock, FinalizeRefused
  <2> QED
    BY <1>6, <2>1, <2>2, <2>3, <2>4, <2>5 DEF Environment
<1>7. CASE UNCHANGED vars
  BY <1>7, StoreKeepsBytes DEF vars
<1> QED
  BY <1>1, <1>2, <1>3, <1>4, <1>5, <1>6, <1>7 DEF Next

\* No object, no row and no request.
LEMMA InitBytes == Init => BytesInv
<1> SUFFICES ASSUME Init PROVE BytesInv
  OBVIOUS
<1>1. IndInv
  BY InitInductive
<1>2. /\ \A a \in Attachments : objects[a] = "none" /\ ~HasRow(a)
      /\ retags = {} /\ purgeQueue = {} /\ discarded = {}
      /\ \A c \in Calls : pc[c] = "idle"
      /\ \A s \in Submissions : submissions[s].state = "unused"
  BY DEF Init, HasRow
<1>3. UploadsAlone /\ OnlyUploaded /\ RemovedHaveNoRow
  BY <1>2 DEF UploadsAlone, Uploading, OnlyUploaded, RemovedHaveNoRow
<1>4. KeysOfSubmission /\ ScreenshotsHeld /\ PayloadsStored
  BY <1>2 DEF KeysOfSubmission, ScreenshotsHeld, PayloadsStored
<1>5. BytesOwned /\ OnlyDiscardsLoseScreenshots
  BY <1>2 DEF BytesOwned, OnlyDiscardsLoseScreenshots
<1> QED
  BY <1>1, <1>3, <1>4, <1>5 DEF BytesInv

-----------------------------------------------------------------------------
(* The theorems                                                            *)

\* A queued notification is about a submission that is there (FR-158): the commit
\* that queues it stores the submission, each deletion takes it away.
THEOREM AnnouncementsLive == Spec => []QueuedAnnounceLive
<1>1. Init => QueuedAnnounceLive
  BY InitImplements
<1>2. IndInv /\ QueuedAnnounceLive /\ [Next]_vars => QueuedAnnounceLive'
  BY StepKeepsAnnouncements
<1> QED
  BY <1>1, <1>2, Invariance, PTL DEF Spec

\* What a replay reads of an intent and of its submission agrees, in every state.
THEOREM OutcomeInvariance == Spec => []OutcomesAgree
<1>1. Init => OutcomesAgree
  BY InitImplements
<1>2. IndInv /\ OutcomesAgree /\ [Next]_vars => OutcomesAgree'
  BY StepKeepsOutcomes
<1> QED
  BY <1>1, <1>2, Invariance, PTL DEF Spec

\* The handlers of finalizeIntent and of the deletions implement the retry contract:
\* whatever clients retry and race and whoever dies, an intent is decided once and
\* every later answer is the one its decision and its deletion call for.
THEOREM RetryContractHolds == Spec => RetryContract
<1>1. Init => Contract!Init
  BY InitImplements
<1>2. IndInv /\ OutcomesAgree /\ [Next]_vars
         => [Contract!Next]_<<[i \in Intents |-> OutcomeOf(i)], answer>>
  BY StepImplements
<1> QED
  BY <1>1, <1>2, Invariance, OutcomeInvariance, PTL DEF Spec, RetryContract, Contract!Spec

\* However many uploads race, an intent never has more rows and uploads under way
\* than the slots it reserved (FR-099A).
THEOREM UploadsBounded == Spec => []UploadsWithinSlots
<1>1. Init => SlotsCounted /\ UploadsWithinSlots
  BY InitSlots
<1>2. IndInv /\ IndInv' /\ SlotsCounted /\ UploadsWithinSlots /\ [Next]_vars
         => SlotsCounted' /\ UploadsWithinSlots'
  BY StepKeepsSlots
<1> QED
  BY <1>1, <1>2, Invariance, PTL DEF Spec

\* The bytes' inductive invariant holds throughout.
THEOREM BytesInvariance == Spec => []BytesInv
<1>1. Init => BytesInv
  BY InitBytes
<1>2. BytesInv /\ IndInv' /\ [Next]_vars => BytesInv'
  BY StepKeepsBytes
<1> QED
  BY <1>1, <1>2, Invariance, PTL DEF Spec

\* Nothing but a discard takes a screenshot from a live submission: not a failed
\* retag, a late one, a rollback, a death, the lifecycle rule or a purge.
THEOREM OnlyDiscardsLose == Spec => []OnlyDiscardsLoseScreenshots
<1>1. BytesInv => OnlyDiscardsLoseScreenshots
  BY DEF BytesInv
<1> QED
  BY <1>1, BytesInvariance, PTL

\* While the database lives, bound bytes have a row or are queued for purge (FR-027),
\* unless a discard removed their row.
THEOREM BoundBytesHaveOwners == Spec => []BoundBytesOwned
<1>1. BytesInv => BoundBytesOwned
  BY DEF BytesInv, BytesOwned, BoundBytesOwned
<1> QED
  BY <1>1, BytesInvariance, PTL
=============================================================================
