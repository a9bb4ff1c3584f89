------------------------- MODULE Memberships_proofs -------------------------
(* Theorems about Memberships, for every set of people, invitations and    *)
(* concurrent requests.                                                    *)
EXTENDS Memberships, FiniteSetTheorems, TLAPS

(* A request that only moves its counters on keeps the invariant: its next *)
(* step has its arguments, and it takes no invitation.                     *)
LEMMA MoveKeepsInvariant ==
    ASSUME IndInv, NEW c \in Calls, NEW step \in Steps \ {"grant"}, NEW args \in Jobs,
           pc' = [pc EXCEPT ![c] = step],
           job' = [job EXCEPT ![c] = args],
           UNCHANGED <<accounts, invitations, redeemers>>, overtaken' \in SUBSET Calls,
           role' \in [People -> Roles \cup {None}],
           override' \in [People -> Roles \cup {None}],
           \A u \in People : role'[u] # None \/ override'[u] # None => u \in accounts,
           step \in {"count", "write", "clear", "assign"} => args.user \in People,
           step = "assign" => args.role \in Roles /\ args.user \in accounts,
           step = "revoke" => /\ args.invitation \in Invitations
                              /\ invitations[args.invitation].scope # None
    PROVE  IndInv'
<1> USE DEF IndInv
<1>1. TypeOK'
  BY DEF TypeOK
<1>2. JobsFit'
  BY DEF JobsFit, TypeOK
<1>3. InvitationsOffer' /\ InvitationUsedOnce'
  BY DEF InvitationsOffer, InvitationUsedOnce
<1>4. RedemptionsExclusive'
  BY DEF RedemptionsExclusive, TypeOK
<1> QED
  BY <1>1, <1>2, <1>3, <1>4

\* A request that ends needs no arguments any more.
LEMMA EndKeepsInvariant ==
    ASSUME IndInv, NEW c \in Calls, End(c),
           UNCHANGED <<accounts, invitations, redeemers>>, overtaken' \in SUBSET Calls,
           role' \in [People -> Roles \cup {None}],
           override' \in [People -> Roles \cup {None}],
           \A u \in People : role'[u] # None \/ override'[u] # None => u \in accounts
    PROVE  IndInv'
<1>1. NoJob \in Jobs /\ "idle" \in Steps \ {"grant"}
  BY DEF NoJob, Jobs, Steps
<1> QED
  BY <1>1, MoveKeepsInvariant DEF End

\* The step after a count or a write, which works on the same person.
LEMMA GotoKeepsInvariant ==
    ASSUME IndInv, NEW c \in Calls, NEW step \in {"write", "clear"}, Goto(c, step),
           job[c].user \in People,
           UNCHANGED <<accounts, override, invitations, redeemers>>,
           overtaken' \in SUBSET Calls,
           role' \in [People -> Roles \cup {None}],
           \A u \in People : role'[u] # None \/ override'[u] # None => u \in accounts
    PROVE  IndInv'
<1>1. job[c] \in Jobs /\ step \in Steps \ {"grant"}
  BY DEF IndInv, TypeOK, Steps
<1>2. job' = [job EXCEPT ![c] = job[c]]
  BY DEF Goto, IndInv, TypeOK
<1>3. override' \in [People -> Roles \cup {None}]
  BY DEF IndInv, TypeOK
<1> QED
  BY <1>1, <1>2, <1>3, MoveKeepsInvariant DEF Goto

-----------------------------------------------------------------------------
(* Changing members touches no invitation.                                 *)
LEMMA ChangeMembersKeepsInvariant ==
    ASSUME IndInv, NEW c \in Calls, ChangeMembers(c)
    PROVE  IndInv'
<1> USE DEF IndInv
<1>1. ASSUME NEW u \in People, NEW r \in Roles \cup {None}, StartSetRole(c, u, r)
      PROVE  IndInv'
  <2> DEFINE args == [NoJob EXCEPT !.user = u, !.role = r]
             step == IF role[u] = "admin" /\ r # "admin" THEN "count" ELSE "write"
  <2>1. args \in Jobs /\ args.user \in People /\ step \in {"count", "write"}
    BY DEF NoJob, Jobs
  <2>2. step \in Steps \ {"grant"}
    BY <2>1 DEF Steps
  <2> QED
    BY <1>1, <2>1, <2>2, MoveKeepsInvariant DEF StartSetRole, Begin, TypeOK
<1>2. CASE AssertNotLastProjectAdmin(c)
  <2>1. CASE End(c)
    BY <1>2, <2>1, EndKeepsInvariant DEF AssertNotLastProjectAdmin, TypeOK
  <2>2. CASE Goto(c, "write")
    BY <1>2, <2>2, GotoKeepsInvariant DEF AssertNotLastProjectAdmin, TypeOK, JobsFit
  <2> QED
    BY <1>2, <2>1, <2>2 DEF AssertNotLastProjectAdmin
<1>3. CASE WriteRole(c)
  <2>1. /\ job[c].user \in People /\ job[c].role \in Roles \cup {None}
        /\ overtaken' \in SUBSET Calls
    BY <1>3 DEF WriteRole, OvertakeOthers, JobsFit, TypeOK, Jobs
  <2>2. /\ role' \in [People -> Roles \cup {None}]
        /\ \A u \in People : role'[u] # None \/ override'[u] # None => u \in accounts
    BY <1>3, <2>1 DEF WriteRole, TypeOK
  <2>3. CASE End(c)
    BY <1>3, <2>1, <2>2, <2>3, EndKeepsInvariant DEF WriteRole, TypeOK
  <2>4. CASE Goto(c, "clear")
    BY <1>3, <2>1, <2>2, <2>4, GotoKeepsInvariant DEF WriteRole
  <2> QED
    BY <1>3, <2>3, <2>4 DEF WriteRole
<1>4. CASE ClearDatabaseOverrides(c)
  <2>1. /\ override' \in [People -> Roles \cup {None}]
        /\ \A u \in People : role'[u] # None \/ override'[u] # None => u \in accounts
    BY <1>4 DEF ClearDatabaseOverrides, JobsFit, TypeOK
  <2> QED
    BY <1>4, <2>1, EndKeepsInvariant DEF ClearDatabaseOverrides, TypeOK
<1>5. ASSUME NEW u \in People, NEW r \in Roles, StartSetDatabaseRole(c, u, r)
      PROVE  IndInv'
  <2> DEFINE args == [NoJob EXCEPT !.user = u, !.role = r]
  <2>1. args \in Jobs /\ args.user = u /\ args.role = r
    BY DEF NoJob, Jobs
  <2>2. "assign" \in Steps \ {"grant"} /\ u \in accounts
    BY <1>5 DEF Steps, StartSetDatabaseRole, HasAccount
  <2> QED
    BY <1>5, <2>1, <2>2, MoveKeepsInvariant DEF StartSetDatabaseRole, Begin, TypeOK
<1>6. CASE SetDatabaseRole(c)
  <2>1. /\ override' \in [People -> Roles \cup {None}]
        /\ \A u \in People : role'[u] # None \/ override'[u] # None => u \in accounts
    BY <1>6 DEF SetDatabaseRole, JobsFit, TypeOK
  <2> QED
    BY <1>6, <2>1, EndKeepsInvariant DEF SetDatabaseRole, TypeOK
<1> QED
  BY <1>1, <1>2, <1>3, <1>4, <1>5, <1>6 DEF ChangeMembers

-----------------------------------------------------------------------------
(* Revoking and redeeming wait for the row lock of a redemption.           *)
LEMMA InviteKeepsInvariant ==
    ASSUME IndInv, NEW c \in Calls, Invite(c)
    PROVE  IndInv'
<1> USE DEF IndInv
<1>1. ASSUME NEW i \in Invitations, StartRevoke(c, i) PROVE IndInv'
  <2> DEFINE args == [NoJob EXCEPT !.invitation = i]
  <2>1. args \in Jobs /\ args.invitation = i /\ "revoke" \in Steps \ {"grant"}
    BY DEF NoJob, Jobs, Steps
  <2> QED
    BY <1>1, <2>1, MoveKeepsInvariant DEF StartRevoke, Begin, TypeOK
<1>2. CASE RevokeInvitation(c)
  <2> DEFINE i == job[c].invitation
  <2>1. i \in Invitations /\ \A d \in Calls : pc[d] = "grant" => job[d].invitation # i
    BY <1>2 DEF RevokeInvitation, JobsFit, RowLocked, Redeeming
  <2>2. \A j \in Invitations :
            /\ invitations'[j].scope = invitations[j].scope
            /\ invitations'[j].role = invitations[j].role
            /\ invitations'[j].redeemedBy = invitations[j].redeemedBy
            /\ j # i => invitations'[j] = invitations[j]
    BY <1>2, <2>1 DEF RevokeInvitation, TypeOK, InvitationRows
  <2>3. invitations' \in [Invitations -> InvitationRows]
    BY <1>2, <2>1 DEF RevokeInvitation, TypeOK, InvitationRows
  <2>4. /\ pc' = [pc EXCEPT ![c] = "idle"] /\ job' = [job EXCEPT ![c] = NoJob]
        /\ NoJob \in Jobs /\ "idle" \in Steps
    BY <1>2 DEF RevokeInvitation, End, NoJob, Jobs, Steps
  <2>5. TypeOK'
    BY <1>2, <2>3, <2>4 DEF RevokeInvitation, TypeOK
  <2>6. JobsFit'
    BY <1>2, <2>2, <2>4 DEF RevokeInvitation, JobsFit, TypeOK
  <2>7. InvitationsOffer' /\ InvitationUsedOnce'
    BY <1>2, <2>2 DEF RevokeInvitation, InvitationsOffer, InvitationUsedOnce
  <2>8. RedemptionsExclusive'
    BY <2>1, <2>2, <2>4 DEF RedemptionsExclusive, TypeOK, JobsFit
  <2> QED
    BY <2>5, <2>6, <2>7, <2>8
<1>3. ASSUME NEW i \in Invitations, NEW u \in People, LockInvitation(c, i, u)
      PROVE  IndInv'
  <2> DEFINE args == [NoJob EXCEPT !.user = u, !.invitation = i]
  <2>1. args \in Jobs /\ args.invitation = i /\ args.user = u /\ "grant" \in Steps
    BY DEF NoJob, Jobs, Steps
  <2>2. /\ pc' = [pc EXCEPT ![c] = "grant"] /\ job' = [job EXCEPT ![c] = args]
        /\ \A d \in Calls : pc[d] = "grant" => job[d].invitation # i
    BY <1>3 DEF LockInvitation, Begin, RowLocked, Redeeming
  <2>3. TypeOK'
    BY <1>3, <2>1, <2>2 DEF LockInvitation, TypeOK
  <2>4. JobsFit'
    BY <1>3, <2>1, <2>2 DEF LockInvitation, Redeemable, JobsFit, TypeOK
  <2>5. InvitationsOffer' /\ InvitationUsedOnce'
    BY <1>3 DEF LockInvitation, InvitationsOffer, InvitationUsedOnce
  <2>6. RedemptionsExclusive'
    BY <1>3, <2>1, <2>2 DEF LockInvitation, Redeemable, RedemptionsExclusive, TypeOK
  <2> QED
    BY <2>3, <2>4, <2>5, <2>6
<1>4. CASE GrantRole(c)
  <2> DEFINE i == job[c].invitation
             u == job[c].user
  <2>1. /\ i \in Invitations /\ u \in People /\ invitations[i].role \in Roles
        /\ invitations[i].redeemedBy = None
        /\ \A d \in Calls \ {c} : pc[d] = "grant" => job[d].invitation # i
    BY <1>4 DEF GrantRole, JobsFit, InvitationsOffer, RedemptionsExclusive
  <2>2. /\ pc' = [pc EXCEPT ![c] = "idle"] /\ job' = [job EXCEPT ![c] = NoJob]
        /\ NoJob \in Jobs /\ "idle" \in Steps
    BY <1>4 DEF GrantRole, End, NoJob, Jobs, Steps
  <2>3. /\ accounts' = accounts \cup {u}
        /\ invitations' = [invitations EXCEPT ![i].redeemedBy = u]
        /\ redeemers' = [redeemers EXCEPT ![i] = @ \cup {u}]
    BY <1>4 DEF GrantRole
  <2>4. /\ role' \in [People -> Roles \cup {None}]
        /\ override' \in [People -> Roles \cup {None}]
        /\ \A v \in People : role'[v] # None \/ override'[v] # None => v \in accounts'
    <3>1. CASE role' = [role EXCEPT ![u] = invitations[i].role] /\ UNCHANGED override
      BY <2>1, <2>3, <3>1 DEF TypeOK
    <3>2. CASE override' = [override EXCEPT ![u] = invitations[i].role] /\ UNCHANGED role
      BY <2>1, <2>3, <3>2 DEF TypeOK
    <3> QED
      BY <1>4, <3>1, <3>2 DEF GrantRole
  <2>5. invitations' \in [Invitations -> InvitationRows] /\ overtaken' \in SUBSET Calls
    <3>1. invitations' \in [Invitations -> InvitationRows]
      BY <2>1, <2>3 DEF TypeOK, InvitationRows
    <3>2. overtaken' \in SUBSET Calls
      BY <1>4 DEF GrantRole, OvertakeOthers, TypeOK
    <3> QED
      BY <3>1, <3>2
  <2>6. \A j \in Invitations :
            /\ invitations'[j].scope = invitations[j].scope
            /\ invitations'[j].role = invitations[j].role
            /\ j # i => invitations'[j] = invitations[j]
    BY <2>1, <2>3 DEF TypeOK, InvitationRows
  <2>7. TypeOK'
    BY <2>1, <2>2, <2>3, <2>4, <2>5 DEF TypeOK
  <2>8. JobsFit'
    BY <2>2, <2>3, <2>6 DEF JobsFit, TypeOK
  <2>9. InvitationsOffer'
    BY <2>6 DEF InvitationsOffer
  <2>10. RedemptionsExclusive'
    BY <2>1, <2>2, <2>6 DEF RedemptionsExclusive, JobsFit, TypeOK
  <2>11. InvitationUsedOnce'
    <3>1. invitations'[i].redeemedBy = u /\ redeemers'[i] = {u} /\ u # None
      BY <2>1, <2>3, NoneAssumption DEF InvitationUsedOnce, TypeOK, InvitationRows
    <3>2. \A j \in Invitations \ {i} : redeemers'[j] = redeemers[j]
      BY <2>3 DEF TypeOK
    <3> QED
      BY <2>6, <3>1, <3>2 DEF InvitationUsedOnce
  <2> QED
    BY <2>7, <2>8, <2>9, <2>10, <2>11
<1> QED
  BY <1>1, <1>2, <1>3, <1>4 DEF Invite

-----------------------------------------------------------------------------
(* The initial states, in which nobody has been invited, satisfy IndInv.   *)
LEMMA InitInductive == Init => IndInv
<1> SUFFICES ASSUME Init PROVE IndInv
  OBVIOUS
<1>1. TypeOK
  BY DEF Init, TypeOK, Unissued, InvitationRows, NoJob, Jobs, Steps
<1>2. JobsFit /\ InvitationsOffer /\ RedemptionsExclusive /\ InvitationUsedOnce
  BY DEF Init, JobsFit, InvitationsOffer, RedemptionsExclusive, InvitationUsedOnce, Unissued
<1> QED
  BY <1>1, <1>2 DEF IndInv

\* Every step of every request, and of nobody's request, keeps IndInv.
LEMMA NextInductive == IndInv /\ [Next]_vars => IndInv'
<1> SUFFICES ASSUME IndInv, [Next]_vars PROVE IndInv'
  OBVIOUS
<1>1. ASSUME NEW c \in Calls, ChangeMembers(c) PROVE IndInv'
  BY <1>1, ChangeMembersKeepsInvariant
<1>2. ASSUME NEW c \in Calls, Invite(c) PROVE IndInv'
  BY <1>2, InviteKeepsInvariant
<1>3. ASSUME NEW c \in Calls, Die(c) PROVE IndInv'
  BY <1>3, EndKeepsInvariant DEF Die, IndInv, TypeOK
<1>4. ASSUME NEW u \in People, ClearDatabaseRole(u) PROVE IndInv'
  BY <1>4 DEF ClearDatabaseRole, IndInv, TypeOK, JobsFit, InvitationsOffer,
              RedemptionsExclusive, InvitationUsedOnce
<1>5. ASSUME NEW i \in Invitations, NEW scope \in {"project", "database"}, NEW r \in Roles,
             CreateInvitation(i, scope, r)
      PROVE  IndInv'
  <2> DEFINE row == [invitations[i] EXCEPT !.scope = scope, !.role = r]
  <2>0. row \in InvitationRows /\ invitations' = [invitations EXCEPT ![i] = row]
    <3>1. invitations[i] \in InvitationRows
      BY DEF IndInv, TypeOK
    <3>2. row \in InvitationRows
      BY <3>1 DEF InvitationRows
    <3> QED
      BY <1>5, <3>2 DEF CreateInvitation
  <2>1. invitations' \in [Invitations -> InvitationRows]
    BY <2>0 DEF IndInv, TypeOK
  <2>2. /\ invitations'[i].scope = scope /\ invitations'[i].role = r
        /\ \A j \in Invitations \ {i} : invitations'[j] = invitations[j]
        /\ \A j \in Invitations : /\ invitations'[j].redeemedBy = invitations[j].redeemedBy
                                  /\ invitations'[j].revoked = invitations[j].revoked
    BY <1>5 DEF CreateInvitation, IndInv, TypeOK, InvitationRows
  <2>3. TypeOK'
    BY <1>5, <2>1 DEF CreateInvitation, IndInv, TypeOK
  <2>4. scope # None
    BY NoneAssumption
  <2>5. JobsFit'
    BY <1>5, <2>2, <2>4 DEF CreateInvitation, IndInv, JobsFit
  <2>6. InvitationsOffer' /\ InvitationUsedOnce'
    BY <1>5, <2>2 DEF CreateInvitation, IndInv, InvitationsOffer, InvitationUsedOnce
  <2>7. RedemptionsExclusive'
    BY <1>5, <2>2 DEF CreateInvitation, IndInv, JobsFit, RedemptionsExclusive
  <2> QED
    BY <2>3, <2>5, <2>6, <2>7 DEF IndInv
<1>6. ASSUME NEW i \in Invitations, Expire(i) PROVE IndInv'
  <2>1. invitations' \in [Invitations -> InvitationRows]
    BY <1>6 DEF Expire, IndInv, TypeOK, InvitationRows
  <2>2. \A j \in Invitations :
            /\ invitations'[j].scope = invitations[j].scope
            /\ invitations'[j].role = invitations[j].role
            /\ invitations'[j].redeemedBy = invitations[j].redeemedBy
            /\ invitations'[j].revoked = invitations[j].revoked
    BY <1>6 DEF Expire, IndInv, TypeOK, InvitationRows
  <2> QED
    BY <1>6, <2>1, <2>2 DEF Expire, IndInv, TypeOK, JobsFit, InvitationsOffer,
                            RedemptionsExclusive, InvitationUsedOnce
<1>7. CASE UNCHANGED vars
  BY <1>7 DEF vars, IndInv, TypeOK, JobsFit, InvitationsOffer, RedemptionsExclusive,
              InvitationUsedOnce
<1> QED
  BY <1>1, <1>2, <1>3, <1>4, <1>5, <1>6, <1>7 DEF Next

\* A revoked invitation is not the one a redemption holds, so no step grants it.
LEMMA StepSparesRevoked ==
    ASSUME IndInv, [Next]_vars, NEW i \in Invitations, invitations[i].revoked
    PROVE  redeemers'[i] = redeemers[i]
<1>1. CASE \E c \in Calls : GrantRole(c)
  <2>1. PICK c \in Calls : GrantRole(c)
    BY <1>1
  <2>2. job[c].invitation # i
    BY <2>1 DEF GrantRole, IndInv, RedemptionsExclusive
  <2> QED
    BY <2>1, <2>2 DEF GrantRole, IndInv, TypeOK
<1>2. CASE ~\E c \in Calls : GrantRole(c)
  BY <1>2 DEF Next, ChangeMembers, Invite, vars, StartSetRole, AssertNotLastProjectAdmin,
              WriteRole, ClearDatabaseOverrides, StartSetDatabaseRole, SetDatabaseRole,
              ClearDatabaseRole, CreateInvitation, Expire, StartRevoke, RevokeInvitation,
              LockInvitation, Die
<1> QED
  BY <1>1, <1>2

-----------------------------------------------------------------------------
\* The inductive invariant holds however many requests race.
THEOREM Invariance == Spec => []IndInv
BY InitInductive, NextInductive, PTL DEF Spec

\* Types, and an account behind every role: part of the inductive invariant.
THEOREM TypeCorrect == Spec => []TypeOK
<1>1. IndInv => TypeOK
  BY DEF IndInv
<1> QED
  BY <1>1, Invariance, PTL

\* An invitation link gives its role to one person at most, whoever races for it.
THEOREM SingleUse == Spec => []InvitationUsedOnce
<1>1. IndInv => InvitationUsedOnce
  BY DEF IndInv
<1> QED
  BY <1>1, Invariance, PTL

\* No redemption, begun before or after, grants anything once the revocation of
\* its invitation is recorded.
THEOREM RevocationHolds == Spec => RevokedNeverGrants
<1>1. IndInv /\ [Next]_vars =>
          [\A i \in Invitations :
             invitations[i].revoked => redeemers'[i] = redeemers[i]]_vars
  BY StepSparesRevoked
<1> QED
  BY <1>1, Invariance, PTL DEF Spec, RevokedNeverGrants

-----------------------------------------------------------------------------
(* The Admin who remains.                                                  *)

\* Two Admins are counted only when each has another besides.
LEMMA TwoAdmins ==
    ASSUME NEW u, ~LastAdmin
    PROVE  \E v \in Admins : v # u
<1>1. IsFiniteSet(Admins)
  BY PeopleAssumption, FS_Subset DEF Admins
<1> SUFFICES ASSUME \A v \in Admins : v = u PROVE FALSE
  OBVIOUS
<1>2. Admins \subseteq {u} /\ IsFiniteSet({u}) /\ Cardinality({u}) = 1
  BY FS_Singleton
<1>3. Cardinality(Admins) <= 1
  BY <1>2, FS_Subset
<1> QED
  BY <1>3 DEF LastAdmin

\* Requests that do not come to write, and Admins that stay the same.
LEMMA SameAdmins ==
    ASSUME AnotherAdmin, Admins' = Admins,
           \A d \in Calls : pc'[d] = "write" =>
               pc[d] = "write" /\ job'[d] = job[d] /\ (d \notin overtaken' => d \notin overtaken)
    PROVE  AnotherAdmin'
BY DEF AnotherAdmin

\* The request that moves away from its write, and the others.
LEMMA OthersWrite ==
    ASSUME TypeOK, NEW c \in Calls, NEW step \in Steps \ {"write"},
           pc' = [pc EXCEPT ![c] = step],
           \A d \in Calls \ {c} : job'[d] = job[d],
           NEW d \in Calls, pc'[d] = "write"
    PROVE  d # c /\ pc[d] = "write" /\ job'[d] = job[d]
BY DEF TypeOK

\* A write or a redemption changes who is an Admin, and overtakes every write
\* whose reads were otherwise.
LEMMA ChangedAdmins ==
    ASSUME AnotherAdmin, TypeOK, NEW c \in Calls, OvertakeOthers(c),
           NEW step \in Steps \ {"write"}, pc' = [pc EXCEPT ![c] = step],
           \A d \in Calls \ {c} : job'[d] = job[d]
    PROVE  AnotherAdmin'
<1> SUFFICES ASSUME NEW d \in Calls, pc'[d] = "write", d \notin overtaken',
                    job'[d].role # "admin", job'[d].user \in Admins'
             PROVE  \E u \in Admins' : u # job'[d].user
  BY DEF AnotherAdmin
<1>1. d # c /\ pc[d] = "write" /\ job'[d] = job[d]
  BY OthersWrite
<1>2. d \notin overtaken /\ ~Overtaking(d)
  BY <1>1 DEF OvertakeOthers
<1>3. Admins \subseteq Admins' /\ job[d].user \in Admins
  BY <1>1, <1>2 DEF Overtaking
<1>4. \E u \in Admins : u # job[d].user
  BY <1>1, <1>2, <1>3 DEF AnotherAdmin
<1> QED
  BY <1>1, <1>3, <1>4

\* The first state has no request.
LEMMA InitAdmins == Init => AdminInv
BY InitInductive DEF AdminInv, AnotherAdmin, Init

\* A member who is no Admin, or is to be one, needs no count; a count finds another.
LEMMA StartsKeepAnotherAdmin ==
    ASSUME AnotherAdmin, TypeOK, NEW c \in Calls,
           \/ \E u \in People, r \in Roles \cup {None} : StartSetRole(c, u, r)
           \/ AssertNotLastProjectAdmin(c)
    PROVE  AnotherAdmin'
<1>0. {"idle", "count"} \subseteq Steps \ {"write"}
  BY DEF Steps
<1>1. ASSUME NEW u \in People, NEW r \in Roles \cup {None}, StartSetRole(c, u, r)
      PROVE  AnotherAdmin'
  <2> DEFINE args == [NoJob EXCEPT !.user = u, !.role = r]
             step == IF role[u] = "admin" /\ r # "admin" THEN "count" ELSE "write"
  <2>1. /\ pc' = [pc EXCEPT ![c] = step] /\ job' = [job EXCEPT ![c] = args]
        /\ overtaken' = overtaken /\ Admins' = Admins
    BY <1>1 DEF StartSetRole, Begin, Admins
  <2>2. args.user = u /\ args.role = r
    BY DEF NoJob
  <2>3. step = "write" /\ r # "admin" => u \notin Admins
    BY DEF Admins
  <2> HIDE DEF args, step
  <2> SUFFICES ASSUME NEW d \in Calls, pc'[d] = "write", d \notin overtaken',
                      job'[d].role # "admin", job'[d].user \in Admins'
               PROVE  \E v \in Admins' : v # job'[d].user
    BY DEF AnotherAdmin
  <2>4. d # c
    BY <2>1, <2>2, <2>3 DEF TypeOK
  <2>5. pc[d] = "write" /\ job'[d] = job[d]
    BY <2>1, <2>4 DEF TypeOK
  <2> QED
    BY <2>1, <2>5 DEF AnotherAdmin
<1>2. CASE AssertNotLastProjectAdmin(c)
  <2>1. UNCHANGED <<role, overtaken>> /\ Admins' = Admins
    BY <1>2 DEF AssertNotLastProjectAdmin, Admins
  <2>2. CASE End(c)
    BY <1>0, <2>1, <2>2, OthersWrite, SameAdmins DEF End, TypeOK
  <2>3. CASE ~LastAdmin /\ Goto(c, "write")
    <3>1. \E v \in Admins : v # job[c].user
      BY <2>3, TwoAdmins
    <3>2. job' = job /\ \A d \in Calls \ {c} : pc'[d] = pc[d]
      BY <2>3 DEF Goto, TypeOK
    <3> QED
      BY <2>1, <3>1, <3>2 DEF AnotherAdmin
  <2> QED
    BY <1>2, <2>2, <2>3 DEF AssertNotLastProjectAdmin
<1> QED
  BY <1>1, <1>2

\* Every step keeps AnotherAdmin: it leaves the Admins and the writes alone, or it
\* is one of the above.
LEMMA NextKeepsAnotherAdmin ==
    ASSUME AdminInv, [Next]_vars
    PROVE  AnotherAdmin'
<1> USE DEF AdminInv
<1>0. /\ TypeOK
      /\ {"idle", "clear", "assign", "revoke", "grant"} \subseteq Steps \ {"write"}
  BY DEF IndInv, Steps
<1>1. ASSUME NEW c \in Calls, NEW step \in {"idle", "assign", "revoke", "grant"},
             pc' = [pc EXCEPT ![c] = step],
             \A d \in Calls \ {c} : job'[d] = job[d],
             UNCHANGED role, overtaken' \in {overtaken, overtaken \ {c}}
      PROVE  AnotherAdmin'
  <2>1. Admins' = Admins
    BY <1>1 DEF Admins
  <2>2. step \in Steps \ {"write"}
    BY <1>0
  <2>3. ASSUME NEW d \in Calls, pc'[d] = "write"
        PROVE  /\ pc[d] = "write" /\ job'[d] = job[d]
               /\ d \notin overtaken' => d \notin overtaken
    BY <1>0, <1>1, <2>2, <2>3, OthersWrite
  <2> QED
    BY <2>1, <2>3, SameAdmins
<1>2. ASSUME NEW c \in Calls, WriteRole(c) \/ GrantRole(c) PROVE AnotherAdmin'
  <2>1. OvertakeOthers(c) /\ (Goto(c, "clear") \/ End(c))
    BY <1>2 DEF WriteRole, GrantRole
  <2>2. CASE Goto(c, "clear")
    BY <1>0, <2>1, <2>2, ChangedAdmins DEF Goto
  <2>3. CASE End(c)
    BY <1>0, <2>1, <2>3, ChangedAdmins DEF End, TypeOK
  <2> QED
    BY <2>1, <2>2, <2>3
<1>3. ASSUME NEW c \in Calls,
             \/ ClearDatabaseOverrides(c) \/ SetDatabaseRole(c)
             \/ RevokeInvitation(c) \/ Die(c)
      PROVE  AnotherAdmin'
  BY <1>0, <1>1, <1>3 DEF ClearDatabaseOverrides, SetDatabaseRole, RevokeInvitation, Die, End,
                          TypeOK
<1>4. ASSUME NEW c \in Calls,
             \/ \E u \in People, r \in Roles : StartSetDatabaseRole(c, u, r)
             \/ \E i \in Invitations : StartRevoke(c, i)
             \/ \E i \in Invitations, u \in People : LockInvitation(c, i, u)
      PROVE  AnotherAdmin'
  BY <1>0, <1>1, <1>4 DEF StartSetDatabaseRole, StartRevoke, LockInvitation, Begin, TypeOK
<1>5. ASSUME UNCHANGED <<role, pc, job, overtaken>> PROVE AnotherAdmin'
  BY <1>5 DEF AnotherAdmin, Admins
<1>6. ASSUME NEW c \in Calls,
             \/ \E u \in People, r \in Roles \cup {None} : StartSetRole(c, u, r)
             \/ AssertNotLastProjectAdmin(c)
      PROVE  AnotherAdmin'
  BY <1>0, <1>6, StartsKeepAnotherAdmin
<1>7. ASSUME NEW c \in Calls, ChangeMembers(c) PROVE AnotherAdmin'
  BY <1>2, <1>3, <1>4, <1>6, <1>7 DEF ChangeMembers
<1>8. ASSUME NEW c \in Calls, Invite(c) PROVE AnotherAdmin'
  BY <1>2, <1>3, <1>4, <1>8 DEF Invite
<1> QED
  BY <1>3, <1>5, <1>7, <1>8 DEF Next, ClearDatabaseRole, CreateInvitation, Expire, vars

\* The Admins that a step takes are its own member's: the write of a change or the
\* grant of an invitation.
LEMMA LastAdminGoes ==
    ASSUME AdminInv, [Next]_vars, Admins # {}, Admins' = {}
    PROVE  \E c \in Calls :
              \/ pc[c] = "write" /\ c \in overtaken
              \/ pc[c] = "grant" /\ job[c].user \in Admins
<1> USE DEF AdminInv
<1>0. TypeOK
  BY DEF IndInv
<1>1. PICK c \in Calls : WriteRole(c) \/ GrantRole(c)
  <2>1. role' # role
    BY DEF Admins
  <2> QED
    BY <2>1 DEF Next, ChangeMembers, Invite, vars, StartSetRole, AssertNotLastProjectAdmin,
                ClearDatabaseOverrides, StartSetDatabaseRole, SetDatabaseRole,
                ClearDatabaseRole, CreateInvitation, Expire, StartRevoke, RevokeInvitation,
                LockInvitation, Die
<1> DEFINE u == job[c].user
<1>2. ASSUME NEW v \in Admins, v # u PROVE FALSE
  <2>1. role'[v] = role[v]
    BY <1>0, <1>1, <1>2 DEF WriteRole, GrantRole, TypeOK, Admins
  <2> QED
    BY <2>1, <1>2 DEF Admins
<1>3. u \in Admins
  BY <1>2
<1>4. CASE GrantRole(c)
  BY <1>3, <1>4 DEF GrantRole
<1>5. CASE WriteRole(c)
  <2>1. pc[c] = "write" /\ role[u] = "admin" /\ role' = [role EXCEPT ![u] = job[c].role]
    BY <1>3, <1>5, NoneAssumption, RolesAssumption DEF WriteRole, Admins
  <2>2. job[c].role # "admin"
    BY <1>0, <1>3, <2>1 DEF Admins, TypeOK
  <2> QED
    BY <1>2, <1>3, <2>1, <2>2 DEF AnotherAdmin
<1> QED
  BY <1>1, <1>4, <1>5

\* FR-014: whoever demotes, removes or invites whom, and whichever request dies half
\* done, the last Admin of a project goes only by a change of roles that another
\* request has overtaken, or by redeeming an invitation to a lower role.
THEOREM LastAdminGuarded == Spec => AdminsRemain
<1>1. AdminInv /\ [Next]_vars => AdminInv'
  BY NextInductive, NextKeepsAnotherAdmin DEF AdminInv
<1>2. AdminInv /\ [Next]_vars =>
          [Admins # {} /\ Admins' = {} =>
             \E c \in Calls :
                \/ pc[c] = "write" /\ c \in overtaken
                \/ pc[c] = "grant" /\ job[c].user \in Admins]_vars
  BY LastAdminGoes
<1> QED
  BY <1>1, <1>2, InitAdmins, PTL DEF Spec, AdminsRemain
=============================================================================
