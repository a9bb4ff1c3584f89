---------------------------- MODULE ConfigClient ----------------------------
(***************************************************************************)
(* The SDK's remote configuration in a browser: the tabs of one origin,    *)
(* each with the answer its application reads and the one staged for the   *)
(* next launch, the record they share in localStorage, and the fetches     *)
(* that refresh them while the user changes and versions are published.    *)
(*                                                                         *)
(* A configuration is two values: "held", of the parameters that change at *)
(* activation and of the experiments, and "live", of those marked live.    *)
(* What the server resolves depends on the version and on the user.        *)
(***************************************************************************)
EXTENDS Naturals

CONSTANTS
    Tab, User,
    NoUser,       \* nobody is signed in; a member of User
    Group(_),     \* user -> who gets the same values
    LastVersion,  \* bound: what is active changes this often; its states are numbered
    Unpublished,  \* the states in which nothing is published
    MaxFaults,    \* bound: fetches that fail, pages that close
    MaxSwitches,  \* bound: changes of user
    Nothing

VARIABLES
    published,    \* the active version
    record,       \* localStorage: the answers the last tab to write held
    tab,          \* tab -> its client
    faults, switches,
    crossed       \* history: a "not modified" came to a fetch its user had left and come back to

clientVars == <<published, record, tab, faults, switches, crossed>>

ActiveVersion == 1 .. LastVersion

(* What version v resolves to for user u; nothing when nothing is published. *)
ValueOf(v, u) == IF v \in Unpublished THEN Nothing ELSE <<v, Group(u)>>
AnswerFor(v, u) == [version |-> v, etag |-> ValueOf(v, u), held |-> ValueOf(v, u),
                    live |-> ValueOf(v, u), user |-> u]
NoEtag == <<>>
Etag(a) == IF a = Nothing THEN NoEtag ELSE a.etag

Value == {Nothing} \cup {ValueOf(v, u) : v \in ActiveVersion, u \in User}
Answer == [version : ActiveVersion, etag : Value, held : Value, live : Value, user : User]
Request == [user : User, etag : Value \cup {NoEtag}, switched : BOOLEAN, since : ActiveVersion,
            left : BOOLEAN]

Shape ==
    /\ NoUser \in User /\ Nothing \notin User \cup Answer \cup Request
    /\ LastVersion \in Nat \ {0} /\ Unpublished \subseteq ActiveVersion
    /\ MaxFaults \in Nat /\ MaxSwitches \in Nat

ASSUME ShapeAssumption == Shape

(* A page closed, or a client just created. *)
Closed == [open |-> FALSE, user |-> NoUser, active |-> Nothing, staged |-> Nothing, read |-> FALSE,
           answered |-> FALSE, switched |-> FALSE, stopped |-> FALSE, told |-> FALSE, sent |-> Nothing]

Held(m) == IF m.active = Nothing THEN Nothing ELSE m.active.held

Client == [open : BOOLEAN, user : User, active : Answer \cup {Nothing}, staged : Answer \cup {Nothing},
           read : BOOLEAN, answered : BOOLEAN, switched : BOOLEAN, stopped : BOOLEAN,
           told : BOOLEAN, sent : Request \cup {Nothing}]

ClientTypeOK ==
    /\ published \in ActiveVersion
    /\ record \in [active : Answer \cup {Nothing}, staged : Answer \cup {Nothing}]
    /\ tab \in [Tab -> Client] /\ \A t \in Tab : ~tab[t].open => tab[t] = Closed
    /\ faults \in 0 .. MaxFaults /\ switches \in 0 .. MaxSwitches /\ crossed \in BOOLEAN

-----------------------------------------------------------------------------
Newest(r) == IF r.staged # Nothing THEN r.staged ELSE r.active

Put(t, m) == tab' = [tab EXCEPT ![t] = m]

(* Mutant: pages that are closed are told too. *)
PutAndTellAll(t, m) ==
    /\ tab' = [u \in Tab |-> IF u = t THEN m ELSE [tab[u] EXCEPT !.told = TRUE]]
    /\ record' = [active |-> m.active, staged |-> m.staged]

(* The tab writes its answers, and the other tabs are told. *)
PutAndPersist(t, m) ==
    /\ tab' = [u \in Tab |-> IF u = t THEN m ELSE [tab[u] EXCEPT !.told = tab[u].open]]
    /\ record' = [active |-> m.active, staged |-> m.staged]

(* Mutant: whoever it was fetched for. *)
AnybodysAnswer(a, u) == a # Nothing

(* An answer is for the user it was fetched for. *)
Bound(a, u) == a # Nothing /\ a.user = u

(* A fetch carries the user, and the etag of what is held. *)
Fetching(m) == [m EXCEPT !.sent = [user |-> m.user, etag |-> Etag(Newest(m)), switched |-> m.switched,
                                   since |-> published, left |-> FALSE]]

(* The server resolves it at some moment before its answer arrives. *)
Replies(r) == {AnswerFor(v, r.user) : v \in r.since .. published}

(* Mutant: the first answer of a launch is active at once, read or not. *)
ReceiveAtOnce(m, a, userChange) ==
    IF userChange \/ a.version \in Unpublished \/ ~m.answered
    THEN [m EXCEPT !.active = a, !.staged = Nothing, !.answered = TRUE]
    ELSE [m EXCEPT !.staged = a, !.answered = TRUE]

(* An answer that arrives is active at once for a changed user, when nothing   *)
(* is published, and at the launch before anything was read; otherwise its     *)
(* live values are, under the etag of what was active, and the rest is staged. *)
Receive(m, a, userChange) ==
    LET atOnce == userChange \/ a.version \in Unpublished \/ (~m.answered /\ ~m.read)
        patched == IF m.active = Nothing THEN [a EXCEPT !.held = Nothing] ELSE [m.active EXCEPT !.live = a.live]
    IN  IF atOnce \/ <<patched.held, patched.live>> = <<a.held, a.live>>
        THEN [m EXCEPT !.active = a, !.staged = Nothing, !.answered = TRUE]
        ELSE [m EXCEPT !.active = patched, !.staged = a, !.answered = TRUE]

(* The answer another tab stored, when it is not what this one holds. *)
Adopts(m) == Newest(record) # Nothing /\ Etag(Newest(record)) # Etag(Newest(m)) /\ Bound(Newest(record), m.user)

-----------------------------------------------------------------------------
ClientInit ==
    /\ published = 1
    /\ record = [active |-> Nothing, staged |-> Nothing]
    /\ tab = [t \in Tab |-> Closed]
    /\ faults = 0 /\ switches = 0 /\ crossed = FALSE

(* The launch: the staged answer, else the active one, when it is this user's, *)
(* or anybody's while nobody is signed in yet.                                 *)
Launch(t, u) ==
    LET Fits(a) == a # Nothing /\ (u = NoUser \/ a.user = u)
        chosen == IF Fits(record.staged) THEN record.staged
                  ELSE IF Fits(record.active) THEN record.active ELSE Nothing
        m == [Closed EXCEPT !.open = TRUE, !.user = u, !.active = chosen]
    IN  /\ ~tab[t].open
        /\ IF chosen # Nothing /\ chosen = record.staged
           THEN PutAndPersist(t, m)
           ELSE Put(t, m) /\ UNCHANGED record
        /\ UNCHANGED <<published, faults, switches, crossed>>

Close(t) ==
    /\ tab[t].open /\ faults < MaxFaults
    /\ faults' = faults + 1
    /\ Put(t, Closed)
    /\ UNCHANGED <<published, record, switches, crossed>>

(* The application reads its values. *)
Read(t) ==
    /\ tab[t].open /\ ~tab[t].read
    /\ Put(t, [tab[t] EXCEPT !.read = TRUE])
    /\ UNCHANGED <<published, record, faults, switches, crossed>>

Activated(m) == IF m.staged = Nothing THEN m ELSE [m EXCEPT !.active = m.staged, !.staged = Nothing]

Activate(t) ==
    /\ tab[t].open /\ tab[t].staged # Nothing
    /\ PutAndPersist(t, Activated(tab[t]))
    /\ UNCHANGED <<published, faults, switches, crossed>>

(* The user signs in, out, or is another: what is staged goes, and a fetch     *)
(* follows within a second.                                                    *)
SetUserId(t, u) ==
    LET m == [tab[t] EXCEPT !.user = u, !.switched = TRUE, !.staged = Nothing,
                            !.sent = IF @ = Nothing THEN Nothing ELSE [@ EXCEPT !.left = TRUE]]
    IN  /\ tab[t].open /\ u # tab[t].user /\ switches < MaxSwitches
        /\ switches' = switches + 1
        /\ IF tab[t].staged # Nothing THEN PutAndPersist(t, m) ELSE Put(t, m) /\ UNCHANGED record
        /\ UNCHANGED <<published, faults, crossed>>

(* localStorage changed: another tab's answer is taken as a fetch's. *)
StorageChanged(t) ==
    LET m == [tab[t] EXCEPT !.told = FALSE]
    IN  /\ tab[t].open /\ tab[t].told
        /\ IF Adopts(m)
           THEN PutAndPersist(t, Receive(m, Newest(record), FALSE))
           ELSE Put(t, m) /\ UNCHANGED record
        /\ UNCHANGED <<published, faults, switches, crossed>>

-----------------------------------------------------------------------------
(* Fetches                                                                    *)

(* A launch or a timer skips its fetch when another tab fetched within the    *)
(* interval for this user.                                                    *)
Skip(t) ==
    LET m == tab[t]
    IN  /\ tab[t].open /\ ~tab[t].stopped /\ Bound(Newest(record), tab[t].user)
        /\ IF Adopts(m)
           THEN PutAndPersist(t, Receive(m, Newest(record), FALSE))
           ELSE Put(t, [m EXCEPT !.answered = TRUE]) /\ UNCHANGED record
        /\ UNCHANGED <<published, faults, switches, crossed>>

(* A timer, a foreground, refresh(), or the second after a change of user, which *)
(* waits for the fetch in flight as that one carries the old user.              *)
FetchAfter(t) ==
    /\ tab[t].open /\ ~tab[t].stopped /\ tab[t].sent = Nothing
    /\ Put(t, Fetching(tab[t]))
    /\ UNCHANGED <<published, record, faults, switches, crossed>>

(* The answer for a user who has since changed is dropped, and the new user's *)
(* fetched at once.                                                           *)
Refetch(t) ==
    /\ tab[t].sent # Nothing /\ tab[t].sent.user # tab[t].user
    /\ Put(t, Fetching(tab[t]))
    /\ UNCHANGED <<published, record, faults, switches, crossed>>

(* The fetch has succeeded; a change of user it was sent after is over. *)
Ended(m) == [m EXCEPT !.sent = Nothing, !.switched = @ /\ ~m.sent.switched]

Arrives(t) ==
    LET m == tab[t]
    IN  /\ m.sent # Nothing /\ m.sent.user = m.user
        /\ \E a \in Replies(m.sent) :
              /\ Etag(a) # m.sent.etag
              /\ PutAndPersist(t, Receive(Ended(m), a, m.sent.switched))
        /\ UNCHANGED <<published, faults, switches, crossed>>

(* Not modified: what is held now is this context's answer. *)
NotModified(t) ==
    LET m == tab[t]
        named == IF m.staged # Nothing THEN [m EXCEPT !.staged.user = m.user]
                 ELSE IF m.active # Nothing THEN [m EXCEPT !.active.user = m.user] ELSE m
        next == IF m.sent.switched THEN Activated(named) ELSE named
    IN  /\ m.sent # Nothing /\ m.sent.user = m.user
        /\ \E a \in Replies(m.sent) : Etag(a) = m.sent.etag
        /\ PutAndPersist(t, Ended([next EXCEPT !.answered = TRUE]))
        /\ crossed' = (crossed \/ m.sent.left)
        /\ UNCHANGED <<published, faults, switches>>

(* A failure is retried later, a refusal stops the fetches of this launch. *)
Fails(t) ==
    /\ tab[t].sent # Nothing /\ faults < MaxFaults
    /\ faults' = faults + 1
    /\ \E stopped \in BOOLEAN : Put(t, [tab[t] EXCEPT !.sent = Nothing, !.stopped = stopped])
    /\ UNCHANGED <<published, record, switches, crossed>>

(* A publish, a rollback or an unpublish. *)
ActiveChanges ==
    /\ published < LastVersion
    /\ published' = published + 1
    /\ UNCHANGED <<record, tab, faults, switches, crossed>>

Fetches(t) == Refetch(t) \/ Arrives(t) \/ NotModified(t)

ClientNext ==
    \/ ActiveChanges
    \/ \E t \in Tab :
        \/ \E u \in User : Launch(t, u) \/ SetUserId(t, u)
        \/ Close(t) \/ Read(t) \/ Activate(t) \/ StorageChanged(t)
        \/ Skip(t) \/ FetchAfter(t) \/ Fetches(t) \/ Fails(t)

ClientSpec == ClientInit /\ [][ClientNext]_clientVars

-----------------------------------------------------------------------------
For(v, u) == v = Nothing \/ v[2] = Group(u)

OwnAnswers == \A t \in Tab :
    /\ tab[t].staged # Nothing => For(tab[t].staged.held, tab[t].user)
    /\ tab[t].user # NoUser /\ ~tab[t].switched => For(Held(tab[t]), tab[t].user)

(* What is staged was resolved for the user of its tab, and so is what is      *)
(* active for a user signed in, except between a change of user and the first  *)
(* answer after it: whatever the other tab stores for its own user. Until a    *)
(* user who comes back meets the "not modified" of a fetch sent before:        *)
(* fetchOnce compares users, not what is held with what was asked about.       *)
AnswersAreTheUsers == ~crossed => OwnAnswers

(* Once an application has read its values, those that are not live change     *)
(* only by an activation of what was staged, for another user, or by an        *)
(* unpublish; no fetch and no other tab changes them under it.                 *)
StableReads ==
    [][\A t \in Tab : tab[t].read /\ tab'[t].open /\ Held(tab'[t]) # Held(tab[t]) =>
          \/ tab[t].staged # Nothing /\ Held(tab'[t]) = tab[t].staged.held
          \/ tab[t].switched
          \/ tab'[t].active.version \in Unpublished]_clientVars

(* "An answer applies only to the app version, build and user ID it was        *)
(* fetched for" (ConfigClient.bound), its live values too.                     *)
LiveIsTheUsers == \A t \in Tab :
    tab[t].user # NoUser /\ ~tab[t].switched /\ tab[t].active # Nothing => For(tab[t].active.live, tab[t].user)

-----------------------------------------------------------------------------
(* The inductive invariants                                                   *)

OwnHeld(a)    == a # Nothing => For(a.held, a.user)
EtagOfHeld(a) == a # Nothing => a.held \in {Nothing, a.etag}

(* A fetch sent for a changed user is the one that ends the change. *)
SwitchAnswered(m) == m.sent # Nothing /\ m.sent.switched => m.switched

StagedForUser(m) == m.staged # Nothing => m.staged.user = m.user
ActiveForUser(m) == m.user # NoUser /\ ~m.switched => For(Held(m), m.user)

(* What a "not modified" would speak of: what is held is the user's, or it is  *)
(* what the fetch asked about.                                                 *)
AsksAbout(m) == \/ m.staged # Nothing
                \/ For(Held(m), m.user)
                \/ m.sent.etag = Etag(m.active)
AskedAbout(m) == m.sent # Nothing /\ ~m.sent.left => AsksAbout(m)

Consistent(m) == SwitchAnswered(m) /\ EtagOfHeld(m.active) /\ EtagOfHeld(m.staged)
Owned(m) == /\ OwnHeld(m.active) /\ OwnHeld(m.staged)
            /\ StagedForUser(m) /\ ActiveForUser(m) /\ AskedAbout(m)

ClientIndInv ==
    /\ ClientTypeOK
    /\ EtagOfHeld(record.active) /\ EtagOfHeld(record.staged)
    /\ \A t \in Tab : Consistent(tab[t])
    /\ ~crossed => /\ OwnHeld(record.active) /\ OwnHeld(record.staged)
                   /\ \A t \in Tab : Owned(tab[t])
=============================================================================
