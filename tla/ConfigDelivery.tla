--------------------------- MODULE ConfigDelivery ---------------------------
(***************************************************************************)
(* The fetch path of remote configuration: what one API process holds of a *)
(* credential and of a config database for ten seconds, while a publish    *)
(* changes the active version and the credential is revoked.               *)
(*                                                                         *)
(* A row's state is the number of its changes: the activities of the       *)
(* database, the revocation of the credential.  What is held is a promise, *)
(* made by the fetch that missed and shared by those that come after.      *)
(***************************************************************************)
EXTENDS ConfigLifecycle, FiniteSets

CONSTANT Fetch

ASSUME DeliveryAssumption == None \notin Fetch

Row == {"credential", "database"}

VARIABLES
    revoked,   \* 1 once the credential is revoked
    due,       \* the changes committed that this process has not forgotten what it held for
    acked,     \* ghost: row -> the last change whose caller has had its answer
    cache,     \* row -> None, or what is held: the fetch that loads it, and the state once loaded
    fetch      \* the fetches in progress

delivery == <<revoked, due, acked, cache, fetch>>
vars == <<lifecycle, delivery>>

Idle == [pc |-> "idle", row |-> "credential", on |-> None, value |-> 0, floor |-> 0]

Current(r) == IF r = "database" THEN Len(log) ELSE revoked

Holding == [by : Fetch \cup {None}, value : Nat]
Progress == [pc : {"idle", "lookup", "load", "loaded", "wait", "got"}, row : Row,
             on : Fetch \cup {None}, value : Nat, floor : Nat]

TypeOK ==
    /\ LifecycleTypeOK
    /\ revoked \in 0 .. 1
    /\ due \subseteq {d \in Row \X Nat : d[2] <= Current(d[1])}
    /\ acked \in [Row -> Nat] /\ \A r \in Row : acked[r] <= Current(r)
    /\ cache \in [Row -> Holding \cup {None}]
    /\ fetch \in [Fetch -> Progress]

Init ==
    /\ LifecycleInit
    /\ revoked = 0 /\ due = {} /\ acked = [r \in Row |-> 0]
    /\ cache = [r \in Row |-> None]
    /\ fetch = [f \in Fetch |-> Idle]

-----------------------------------------------------------------------------
(* Changes: the transaction commits, then what is held is forgotten, then the *)
(* caller has its answer.                                                     *)

Change(r, n) == due' = due \cup {<<r, n>>}

Edit == Edits /\ UNCHANGED delivery

Publish == Publishes /\ Change("database", Len(log')) /\ UNCHANGED <<revoked, acked, cache, fetch>>

EraseId == Erases /\ Change("database", Len(log)) /\ UNCHANGED <<revoked, acked, cache, fetch>>

Revoke ==
    /\ revoked = 0
    /\ revoked' = 1
    /\ Change("credential", 1)
    /\ UNCHANGED <<lifecycle, acked, cache, fetch>>

(* Mutant: a load in progress is not forgotten. *)
ForgetLoaded(r, n) ==
    /\ <<r, n>> \in due
    /\ due' = due \ {<<r, n>>}
    /\ cache' = [cache EXCEPT ![r] = IF @ # None /\ @.by # None THEN @ ELSE None]
    /\ acked' = [acked EXCEPT ![r] = IF @ < n THEN n ELSE @]
    /\ UNCHANGED <<lifecycle, revoked, fetch>>


Forget(r, n) ==
    /\ <<r, n>> \in due
    /\ due' = due \ {<<r, n>>}
    /\ cache' = [cache EXCEPT ![r] = None]
    /\ acked' = [acked EXCEPT ![r] = IF @ < n THEN n ELSE @]
    /\ UNCHANGED <<lifecycle, revoked, fetch>>

(* Ten seconds have passed since the row was asked for. *)
Expire(r) ==
    /\ cache[r] # None
    /\ cache' = [cache EXCEPT ![r] = None]
    /\ UNCHANGED <<lifecycle, revoked, due, acked, fetch>>

-----------------------------------------------------------------------------
(* A fetch: the credential, then the database                                 *)

FetchUnchanged == UNCHANGED <<lifecycle, revoked, due, acked>>

Begin(f) ==
    /\ fetch[f].pc = "idle"
    /\ fetch' = [fetch EXCEPT ![f] = [Idle EXCEPT !.pc = "lookup"]]
    /\ FetchUnchanged /\ UNCHANGED cache

(* What is held, the load in progress, or a load of its own. *)
Lookup(f) ==
    LET r == fetch[f].row
    IN  /\ fetch[f].pc = "lookup"
        /\ \/ /\ cache[r] = None
              /\ cache' = [cache EXCEPT ![r] = [by |-> f, value |-> 0]]
              /\ fetch' = [fetch EXCEPT ![f].pc = "load", ![f].floor = acked[r]]
           \/ /\ cache[r] # None /\ cache[r].by # None
              /\ fetch' = [fetch EXCEPT ![f].pc = "wait", ![f].on = cache[r].by, ![f].floor = acked[r]]
              /\ UNCHANGED cache
           \/ /\ cache[r] # None /\ cache[r].by = None
              /\ fetch' = [fetch EXCEPT ![f].pc = "got", ![f].value = cache[r].value, ![f].floor = acked[r]]
              /\ UNCHANGED cache
        /\ FetchUnchanged

(* The query reads the row as it is committed then. *)
ReadRow(f) ==
    /\ fetch[f].pc = "load"
    /\ fetch' = [fetch EXCEPT ![f].pc = "loaded", ![f].value = Current(fetch[f].row)]
    /\ FetchUnchanged /\ UNCHANGED cache

(* f, and those that share its load. *)
Sharing(f) == {g \in Fetch : g = f \/ (fetch[g].pc = "wait" /\ fetch[g].on = f)}

Holds(f) == cache[fetch[f].row] # None /\ cache[fetch[f].row].by = f

Resolve(f) ==
    /\ fetch[f].pc = "loaded"
    /\ fetch' = [g \in Fetch |-> IF g \in Sharing(f)
                                 THEN [fetch[g] EXCEPT !.pc = "got", !.on = None, !.value = fetch[f].value]
                                 ELSE fetch[g]]
    /\ cache' = IF Holds(f) THEN [cache EXCEPT ![fetch[f].row] = [by |-> None, value |-> fetch[f].value]] ELSE cache
    /\ FetchUnchanged

(* Mutant: a failed load is kept. *)
LoadFailsKept(f) ==
    /\ fetch[f].pc = "load"
    /\ fetch' = [g \in Fetch |-> IF g \in Sharing(f) THEN Idle ELSE fetch[g]]
    /\ FetchUnchanged /\ UNCHANGED cache

(* A failed load is not kept. *)
LoadFails(f) ==
    /\ fetch[f].pc = "load"
    /\ fetch' = [g \in Fetch |-> IF g \in Sharing(f) THEN Idle ELSE fetch[g]]
    /\ cache' = IF Holds(f) THEN [cache EXCEPT ![fetch[f].row] = None] ELSE cache
    /\ FetchUnchanged

(* A revoked key is refused; a live one goes on to the database, whose answer *)
(* ends the fetch.                                                            *)
Got(f) ==
    /\ fetch[f].pc = "got"
    /\ fetch' = [fetch EXCEPT ![f] = IF @.row = "credential" /\ @.value = 0
                                     THEN [Idle EXCEPT !.pc = "lookup", !.row = "database"] ELSE Idle]
    /\ FetchUnchanged /\ UNCHANGED cache

(* A process that starts again holds nothing. *)
Restart ==
    /\ due' = {} /\ acked' = [r \in Row |-> Current(r)]
    /\ cache' = [r \in Row |-> None]
    /\ fetch' = [f \in Fetch |-> Idle]
    /\ UNCHANGED <<lifecycle, revoked>>

Next ==
    \/ Edit \/ Publish \/ EraseId \/ Revoke
    \/ \E r \in Row : Expire(r) \/ \E n \in 0 .. Current(r) : Forget(r, n)
    \/ \E f \in Fetch : Begin(f) \/ Lookup(f) \/ ReadRow(f) \/ Resolve(f) \/ LoadFails(f) \/ Got(f)
    \/ Restart

Spec == Init /\ [][Next]_vars

-----------------------------------------------------------------------------
(* A fetch that asks for a row once a publish, a rollback, an unpublish or a   *)
(* revocation has been answered never goes by what was there before it, though *)
(* it may share a load that was in progress at the change.                     *)
FetchesAreCurrent == \A f \in Fetch : fetch[f].pc = "got" => fetch[f].value >= fetch[f].floor

(* What makes it so: whoever waits, waits for a load in progress; a load that  *)
(* is held, or done, is of the row as it was at the last change answered; and  *)
(* a revision an editor reviewed is still the draft as it was reviewed.        *)
Shared ==
    /\ \A r \in Row : cache[r] # None /\ cache[r].by # None =>
          fetch[cache[r].by].pc \in {"load", "loaded"} /\ fetch[cache[r].by].row = r
    /\ \A f \in Fetch : fetch[f].pc = "wait" =>
          /\ fetch[f].on \in Fetch
          /\ fetch[fetch[f].on].pc \in {"load", "loaded"}
          /\ fetch[fetch[f].on].row = fetch[f].row

HeldIsCurrent == \A r \in Row : cache[r] # None =>
    /\ cache[r].by = None => cache[r].value >= acked[r]
    /\ cache[r].by # None /\ fetch[cache[r].by].pc = "loaded" => fetch[cache[r].by].value >= acked[r]

LoadsAreCurrent == \A f \in Fetch :
    /\ fetch[f].pc \in {"load", "wait"} => fetch[f].floor <= acked[fetch[f].row]
    /\ fetch[f].pc = "loaded" => fetch[f].value >= fetch[f].floor
    /\ fetch[f].pc = "wait" /\ fetch[fetch[f].on].pc = "loaded" => fetch[fetch[f].on].value >= fetch[f].floor

SeenMatches == \A e \in Editor : seen[e] # None =>
    /\ seen[e].revision <= draft.revision
    /\ seen[e].revision = draft.revision => seen[e] = draft

IndInv == TypeOK /\ Shared /\ HeldIsCurrent /\ LoadsAreCurrent /\ SeenMatches /\ FetchesAreCurrent
=============================================================================
