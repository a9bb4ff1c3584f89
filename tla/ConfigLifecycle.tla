-------------------------- MODULE ConfigLifecycle --------------------------
(***************************************************************************)
(* A config database: its draft, its versions and which is active.  Every  *)
(* change runs in one transaction that holds the draft row's lock, so each *)
(* is one action; what a caller read before its transaction may be stale   *)
(* in it.  A template is the set of the parts it holds.                    *)
(***************************************************************************)
EXTENDS Naturals, Sequences

CONSTANTS
    Editor,
    Part,        \* what a template holds: parameters, and rules naming an ID
    Erasable,    \* the rules naming an ID, which an erasure removes
    MaxRevision, MaxLog,   \* bounds: changes of the draft, of the active version
    None

ASSUME LifecycleAssumption ==
    /\ Erasable \subseteq Part
    /\ MaxRevision \in Nat /\ MaxLog \in Nat

Template == SUBSET Part

VARIABLES
    draft,     \* its revision and its template
    versions,  \* number -> its template, the draft's revision, the version it rolls back to or 0
    active,    \* the active version's number, 0 when there is none
    log,       \* the activity: each publish, rollback and unpublish
    seen,      \* editor -> the draft as the editor reviewed it, or None
    copying    \* editor -> the template of a version read to be copied, or None

lifecycle == <<draft, versions, active, log, seen, copying>>

Draft == [revision : 0 .. MaxRevision, template : Template]
Version == [template : Template, revision : 0 .. MaxRevision, from : Nat]
Activity == [kind : {"publish", "rollback", "unpublish"}, version : Nat]

LifecycleTypeOK ==
    /\ draft \in Draft
    /\ versions \in Seq(Version)
    /\ active \in 0 .. Len(versions)
    /\ log \in Seq(Activity)
    /\ seen \in [Editor -> Draft \cup {None}] /\ copying \in [Editor -> Template \cup {None}]

LifecycleInit ==
    /\ draft = [revision |-> 0, template |-> {}]
    /\ versions = <<>> /\ active = 0 /\ log = <<>>
    /\ seen = [e \in Editor |-> None] /\ copying = [e \in Editor |-> None]

-----------------------------------------------------------------------------
(* The draft                                                                  *)

(* Mutant: the revision stays. *)
RewrittenInPlace(template) == [draft EXCEPT !.template = template]

Rewritten(template) == [revision |-> draft.revision + 1, template |-> template]

ChangeDraft(template) ==
    /\ draft.revision < MaxRevision
    /\ draft' = Rewritten(template)

(* One part set or deleted, whatever the editor had read. *)
SetPart(p) ==
    /\ ChangeDraft(draft.template \cup {p})
    /\ UNCHANGED <<versions, active, log, seen, copying>>

DeletePart(p) ==
    /\ p \in draft.template
    /\ ChangeDraft(draft.template \ {p})
    /\ UNCHANGED <<versions, active, log, seen, copying>>

(* A whole replacement that names the revision it read. *)
ReplaceDraft(e, template) ==
    /\ seen[e] # None /\ seen[e].revision = draft.revision
    /\ ChangeDraft(template)
    /\ UNCHANGED <<versions, active, log, seen, copying>>

(* A copy reads the version before it takes the lock. *)
CopyRead(e, n) ==
    /\ copying[e] = None
    /\ copying' = [copying EXCEPT ![e] = versions[n].template]
    /\ UNCHANGED <<draft, versions, active, log, seen>>

CopyWrite(e) ==
    /\ copying[e] # None
    /\ ChangeDraft(copying[e])
    /\ copying' = [copying EXCEPT ![e] = None]
    /\ UNCHANGED <<versions, active, log, seen>>

Review(e) ==
    /\ seen' = [seen EXCEPT ![e] = draft]
    /\ UNCHANGED <<draft, versions, active, log, copying>>

-----------------------------------------------------------------------------
(* What is active                                                             *)

Record(kind, n) ==
    /\ Len(log) < MaxLog
    /\ log' = Append(log, [kind |-> kind, version |-> n])

(* Mutant: the version is created and not made active. *)
CreateVersionInactive(template, from) ==
    LET n == Len(versions) + 1
    IN  /\ versions' = Append(versions, [template |-> template, revision |-> draft.revision, from |-> from])
        /\ Record(IF from = 0 THEN "publish" ELSE "rollback", n)
        /\ UNCHANGED <<draft, active, seen, copying>>


CreateVersion(template, from) ==
    LET n == Len(versions) + 1
    IN  /\ versions' = Append(versions, [template |-> template, revision |-> draft.revision, from |-> from])
        /\ active' = n
        /\ Record(IF from = 0 THEN "publish" ELSE "rollback", n)
        /\ UNCHANGED <<draft, seen, copying>>

(* The active version is what that revision already published. *)
AlreadyPublished(revision) == active # 0 /\ versions[active].from = 0 /\ versions[active].revision = revision

(* A publish of the revision reviewed, retried as often as its answer is lost; *)
(* it changes nothing when that revision published the active version, or when *)
(* the draft equals it.                                                        *)
PublishDraft(e) ==
    /\ seen[e] # None /\ ~AlreadyPublished(seen[e].revision)
    /\ draft.revision = seen[e].revision
    /\ active # 0 => versions[active].template # draft.template
    /\ CreateVersion(draft.template, 0)

RollbackTo(n) ==
    /\ active # 0 => versions[active].template # versions[n].template
    /\ CreateVersion(versions[n].template, n)

Unpublish ==
    /\ active # 0
    /\ active' = 0
    /\ Record("unpublish", 0)
    /\ UNCHANGED <<draft, versions, seen, copying>>

(* The project's erasure of an ID: out of the draft, whose revision moves on   *)
(* when it held it, and of every version.                                      *)
Erase(p) ==
    /\ p \in draft.template \cup UNION {versions[n].template : n \in DOMAIN versions}
    /\ IF p \in draft.template THEN ChangeDraft(draft.template \ {p}) ELSE UNCHANGED draft
    /\ versions' = [n \in DOMAIN versions |-> [versions[n] EXCEPT !.template = @ \ {p}]]
    /\ UNCHANGED <<active, log, seen, copying>>

Edits ==
    \/ \E p \in Part : SetPart(p) \/ DeletePart(p)
    \/ \E e \in Editor : \/ Review(e) \/ CopyWrite(e)
                         \/ \E template \in Template : ReplaceDraft(e, template)
                         \/ \E n \in DOMAIN versions : CopyRead(e, n)

Publishes ==
    \/ \E e \in Editor : PublishDraft(e)
    \/ \E n \in DOMAIN versions : RollbackTo(n)
    \/ Unpublish

Erases == \E p \in Erasable : Erase(p)

-----------------------------------------------------------------------------
(* A publish makes the very template its editor reviewed active, not one that  *)
(* another editor, a copy or an erasure has since made of the draft.           *)
PublishedIsReviewed ==
    [][Len(versions') > Len(versions) /\ versions'[Len(versions')].from = 0 =>
          \E e \in Editor : seen[e] = [revision |-> versions'[Len(versions')].revision,
                                       template |-> versions'[Len(versions')].template]]_lifecycle

(* A publish retried, even once the draft has moved on, creates no second      *)
(* version of its revision: between two of one revision, a rollback or an      *)
(* unpublish took the first away.                                              *)
RevisionPublishedOnce == \A m, n \in DOMAIN log :
    /\ m < n /\ log[m].kind = "publish" /\ log[n].kind = "publish"
    /\ versions[log[m].version].revision = versions[log[n].version].revision
    => \E k \in m + 1 .. n - 1 : log[k].kind # "publish"

(* What makes it so: the log names versions by the revision they published, of *)
(* which the last is the active one, and in a row of publishes revisions rise. *)
RevisionPublished(n) == versions[log[n].version].revision

LogNamesVersions ==
    /\ \A n \in DOMAIN log : log[n].kind = "publish" =>
          /\ log[n].version \in DOMAIN versions
          /\ versions[log[n].version].from = 0
          /\ RevisionPublished(n) <= draft.revision
    /\ Len(log) # 0 /\ log[Len(log)].kind = "publish" => active = log[Len(log)].version

RevisionsRise == \A m, n \in DOMAIN log :
    m < n /\ (\A k \in m .. n : log[k].kind = "publish") => RevisionPublished(m) < RevisionPublished(n)
=============================================================================
