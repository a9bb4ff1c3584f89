---------------------------- MODULE Memberships ----------------------------
(* The roles people hold in one project and on one of its databases, and   *)
(* the invitations that hand them out: services/memberships.ts and         *)
(* services/invitations.ts. Requests come from a server key, which always  *)
(* has the Admin's authority, or from whoever opens an invitation link.    *)
(* setProjectRole and its relatives are several SQL statements outside any *)
(* transaction, so each statement is a step; redeemInvitation is one       *)
(* transaction that locks the invitation row before it reads it.           *)
EXTENDS Naturals, FiniteSets

CONSTANTS
    People,
    Roles,           \* "admin" and the roles below it
    Invitations,
    Calls,           \* requests in flight at once
    None

ASSUME RolesAssumption == "admin" \in Roles
ASSUME PeopleAssumption == IsFiniteSet(People)
ASSUME NoneAssumption ==
    None \notin Roles \cup People \cup Invitations \cup {"project", "database"}

VARIABLES
    accounts,      \* people with a row in users
    role,          \* project_memberships.role
    override,      \* the role assigned on the database, which overrides the project's
    invitations,   \* rows of invitations
    redeemers,     \* everyone an invitation has given its role to
    pc, job,       \* the requests in flight and their arguments
    overtaken      \* history: writes whose reads another request has overtaken

vars == <<accounts, role, override, invitations, redeemers, pc, job, overtaken>>

Unissued == [scope |-> None, role |-> None, redeemedBy |-> None,
             revoked |-> FALSE, expired |-> FALSE]
InvitationRows == [scope : {"project", "database", None}, role : Roles \cup {None},
                   redeemedBy : People \cup {None}, revoked : BOOLEAN, expired : BOOLEAN]

Steps == {"idle", "count", "write", "clear", "assign", "revoke", "grant"}
NoJob == [user |-> None, role |-> None, invitation |-> None]
Jobs == [user : People \cup {None}, role : Roles \cup {None},
         invitation : Invitations \cup {None}]

Admins == {u \in People : role[u] = "admin"}

\* Any project that has an Admin, before anyone is invited.
Init ==
    /\ role \in {r \in [People -> Roles \cup {None}] : \E u \in People : r[u] = "admin"}
    /\ accounts = {u \in People : role[u] # None}
    /\ override = [u \in People |-> None]
    /\ invitations = [i \in Invitations |-> Unissued]
    /\ redeemers = [i \in Invitations |-> {}]
    /\ pc = [c \in Calls |-> "idle"]
    /\ job = [c \in Calls |-> NoJob]
    /\ overtaken = {}

-----------------------------------------------------------------------------
Begin(c, step, args) ==
    /\ pc[c] = "idle"
    /\ pc' = [pc EXCEPT ![c] = step]
    /\ job' = [job EXCEPT ![c] = args]

Goto(c, step) == pc' = [pc EXCEPT ![c] = step] /\ UNCHANGED job

End(c) == pc' = [pc EXCEPT ![c] = "idle"] /\ job' = [job EXCEPT ![c] = NoJob]

\* A write still to come, of whose reads this is no longer true: that nobody of
\* those counted has ceased to be an Admin, or that its member was none.
Overtaking(d) ==
    /\ pc[d] = "write"
    /\ Admins \ Admins' # {} \/ job[d].user \in Admins' \ Admins

OvertakeOthers(c) ==
    overtaken' = (overtaken \cup {d \in Calls : Overtaking(d)}) \ {c}

-----------------------------------------------------------------------------
(* setProjectRole and, with the role None, removeProjectMember: read the   *)
(* member, count the Admins when one is about to go, write, and drop the   *)
(* overrides that an Admin or a stranger must not have.                    *)

StartSetRole(c, u, r) ==
    /\ role[u] # None
    /\ Begin(c, IF role[u] = "admin" /\ r # "admin" THEN "count" ELSE "write",
             [NoJob EXCEPT !.user = u, !.role = r])
    /\ UNCHANGED <<accounts, role, override, invitations, redeemers, overtaken>>

LastAdminOffByOne == Cardinality(Admins) < 1  \* mutant: < for <=
LastAdmin == Cardinality(Admins) <= 1

AssertNotLastProjectAdmin(c) ==
    /\ pc[c] = "count"
    /\ IF LastAdmin THEN End(c) ELSE Goto(c, "write")
    /\ UNCHANGED <<accounts, role, override, invitations, redeemers, overtaken>>

\* An update of a row that has gone meanwhile changes nothing.
WriteRole(c) ==
    LET u == job[c].user  r == job[c].role IN
    /\ pc[c] = "write"
    /\ role' = IF role[u] = None THEN role ELSE [role EXCEPT ![u] = r]
    /\ IF r \in {"admin", None} THEN Goto(c, "clear") ELSE End(c)
    /\ OvertakeOthers(c)
    /\ UNCHANGED <<accounts, override, invitations, redeemers>>

ClearDatabaseOverrides(c) ==
    /\ pc[c] = "clear"
    /\ override' = [override EXCEPT ![job[c].user] = None]
    /\ End(c)
    /\ UNCHANGED <<accounts, role, invitations, redeemers, overtaken>>

-----------------------------------------------------------------------------
(* setDatabaseRole looks up the project role before it writes the          *)
(* override; clearDatabaseRole is one statement.                           *)

HasAccount(u) == u \in accounts

StartSetDatabaseRole(c, u, r) ==
    /\ role[u] # "admin"
    /\ HasAccount(u)
    /\ Begin(c, "assign", [NoJob EXCEPT !.user = u, !.role = r])
    /\ UNCHANGED <<accounts, role, override, invitations, redeemers, overtaken>>

SetDatabaseRole(c) ==
    /\ pc[c] = "assign"
    /\ override' = [override EXCEPT ![job[c].user] = job[c].role]
    /\ End(c)
    /\ UNCHANGED <<accounts, role, invitations, redeemers, overtaken>>

ClearDatabaseRole(u) ==
    /\ override[u] # None
    /\ override' = [override EXCEPT ![u] = None]
    /\ UNCHANGED <<accounts, role, invitations, redeemers, pc, job, overtaken>>

-----------------------------------------------------------------------------
CreateInvitation(i, scope, r) ==
    /\ invitations[i].scope = None
    /\ invitations' = [invitations EXCEPT ![i] = [@ EXCEPT !.scope = scope, !.role = r]]
    /\ UNCHANGED <<accounts, role, override, redeemers, pc, job, overtaken>>

Expire(i) ==
    /\ invitations[i].scope # None
    /\ ~invitations[i].expired
    /\ invitations' = [invitations EXCEPT ![i].expired = TRUE]
    /\ UNCHANGED <<accounts, role, override, redeemers, pc, job, overtaken>>

\* The row lock redeemInvitation takes with "for update" and keeps until it commits.
Redeeming(i) == \E c \in Calls : pc[c] = "grant" /\ job[c].invitation = i
NeverLocked(i) == FALSE  \* mutant: the row is read without `for update`
RowLocked(i) == Redeeming(i)

\* revokeInvitation reads the row, then updates it by id whatever it has become.
StartRevoke(c, i) ==
    /\ invitations[i].scope # None
    /\ invitations[i].redeemedBy = None
    /\ ~invitations[i].revoked
    /\ Begin(c, "revoke", [NoJob EXCEPT !.invitation = i])
    /\ UNCHANGED <<accounts, role, override, invitations, redeemers, overtaken>>

RevokeInvitation(c) ==
    LET i == job[c].invitation IN
    /\ pc[c] = "revoke"
    /\ ~RowLocked(i)
    /\ invitations' = [invitations EXCEPT ![i].revoked = TRUE]
    /\ End(c)
    /\ UNCHANGED <<accounts, role, override, redeemers, overtaken>>

Redeemable(i) ==
    /\ invitations[i].scope # None
    /\ invitations[i].redeemedBy = None
    /\ ~invitations[i].revoked
    /\ ~invitations[i].expired

LockInvitation(c, i, u) ==
    /\ ~RowLocked(i)
    /\ Redeemable(i)
    /\ Begin(c, "grant", [NoJob EXCEPT !.user = u, !.invitation = i])
    /\ UNCHANGED <<accounts, role, override, invitations, redeemers, overtaken>>

\* grantRole upserts the membership, at the invitation's own scope and role. A
\* redeemer who was not signed in gets an account in the same transaction.
GrantRole(c) ==
    LET i == job[c].invitation  u == job[c].user  row == invitations[i] IN
    /\ pc[c] = "grant"
    /\ accounts' = accounts \cup {u}
    /\ \/ /\ row.scope = "project"
          /\ role' = [role EXCEPT ![u] = row.role]
          /\ UNCHANGED override
       \/ /\ row.scope = "database"
          /\ override' = [override EXCEPT ![u] = row.role]
          /\ UNCHANGED role
    /\ invitations' = [invitations EXCEPT ![i].redeemedBy = u]
    /\ redeemers' = [redeemers EXCEPT ![i] = @ \cup {u}]
    /\ End(c)
    /\ OvertakeOthers(c)

-----------------------------------------------------------------------------
\* The process dies, or a statement fails: what was written stays written.
Die(c) ==
    /\ pc[c] # "idle"
    /\ End(c)
    /\ overtaken' = overtaken \ {c}
    /\ UNCHANGED <<accounts, role, override, invitations, redeemers>>

ChangeMembers(c) ==
    \/ \E u \in People, r \in Roles \cup {None} : StartSetRole(c, u, r)
    \/ AssertNotLastProjectAdmin(c)
    \/ WriteRole(c)
    \/ ClearDatabaseOverrides(c)
    \/ \E u \in People, r \in Roles : StartSetDatabaseRole(c, u, r)
    \/ SetDatabaseRole(c)

Invite(c) ==
    \/ \E i \in Invitations : StartRevoke(c, i)
    \/ RevokeInvitation(c)
    \/ \E i \in Invitations, u \in People : LockInvitation(c, i, u)
    \/ GrantRole(c)

Next ==
    \/ \E c \in Calls : ChangeMembers(c) \/ Invite(c) \/ Die(c)
    \/ \E u \in People : ClearDatabaseRole(u)
    \/ \E i \in Invitations, scope \in {"project", "database"}, r \in Roles :
          CreateInvitation(i, scope, r)
    \/ \E i \in Invitations : Expire(i)

Spec == Init /\ [][Next]_vars

-----------------------------------------------------------------------------
\* Types, and every member or assignee has an account.
TypeOK ==
    /\ accounts \in SUBSET People
    /\ role \in [People -> Roles \cup {None}]
    /\ override \in [People -> Roles \cup {None}]
    /\ invitations \in [Invitations -> InvitationRows]
    /\ redeemers \in [Invitations -> SUBSET People]
    /\ pc \in [Calls -> Steps]
    /\ job \in [Calls -> Jobs]
    /\ overtaken \in SUBSET Calls
    /\ \A u \in People : role[u] # None \/ override[u] # None => u \in accounts

(* redeemInvitation: two people opening the same link at the same moment   *)
(* cannot both redeem it, and the row names the one who did.               *)
InvitationUsedOnce ==
    \A i \in Invitations :
        redeemers[i] = (IF invitations[i].redeemedBy = None THEN {}
                                                 ELSE {invitations[i].redeemedBy})

(* FR-006: once the revocation of an unredeemed invitation is recorded,    *)
(* nobody gets its role any more, whatever they had open.                  *)
RevokedNeverGrants ==
    [][\A i \in Invitations :
         invitations[i].revoked => redeemers'[i] = redeemers[i]]_vars

(* FR-014, "a project always keeps at least one Admin" (memberships.ts), as *)
(* far as the code goes: the last Admin goes only by a change of roles that *)
(* another request has overtaken since it counted the Admins, or read that  *)
(* its member was none, or by redeeming an invitation to be less.           *)
AdminsRemain ==
    [][Admins # {} /\ Admins' = {} =>
         \E c \in Calls :
            \/ pc[c] = "write" /\ c \in overtaken
            \/ pc[c] = "grant" /\ job[c].user \in Admins]_vars

-----------------------------------------------------------------------------
(* The inductive invariant behind the promises about invitations           *)

\* Each request carries the arguments its step works on.
JobsFit ==
    \A c \in Calls :
        /\ pc[c] \in {"count", "write", "clear", "assign", "grant"} => job[c].user \in People
        /\ pc[c] = "assign" => job[c].role \in Roles /\ job[c].user \in accounts
        /\ pc[c] \in {"revoke", "grant"} =>
              /\ job[c].invitation \in Invitations
              /\ invitations[job[c].invitation].scope # None

\* An issued invitation offers a role at one of the two scopes.
InvitationsOffer ==
    \A i \in Invitations : invitations[i].scope # None => invitations[i].role \in Roles

\* One redemption at a time has an invitation, and finds it as it locked it.
RedemptionsExclusive ==
    /\ \A c \in Calls : pc[c] = "grant" =>
          /\ invitations[job[c].invitation].redeemedBy = None
          /\ ~invitations[job[c].invitation].revoked
    /\ \A c, d \in Calls :
          pc[c] = "grant" /\ pc[d] = "grant" /\ job[c].invitation = job[d].invitation => c = d

\* With these, every step of every request keeps them.
IndInv ==
    TypeOK /\ JobsFit /\ InvitationsOffer /\ RedemptionsExclusive /\ InvitationUsedOnce

-----------------------------------------------------------------------------
(* The inductive invariant behind AdminsRemain                             *)

\* A write that nobody has overtaken, and that leaves its member less than an
\* Admin, finds the member no Admin or leaves another one.
AnotherAdmin ==
    \A c \in Calls :
        /\ pc[c] = "write"
        /\ c \notin overtaken
        /\ job[c].role # "admin"
        /\ job[c].user \in Admins
        => \E u \in Admins : u # job[c].user

AdminInv == IndInv /\ AnotherAdmin
=============================================================================
