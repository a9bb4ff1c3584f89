------------------------ MODULE RemoteConfig_proofs ------------------------
(***************************************************************************)
(* Theorems about remote configuration: ConfigLifecycle and ConfigDelivery *)
(* on the server, for every set of editors, parts and concurrent fetches;  *)
(* ConfigClient in the browser, for every set of tabs and users.           *)
(***************************************************************************)
EXTENDS ConfigDelivery, ConfigClient, TLAPS

(* The rewrite of every version leaves their sequence as long as it was. *)
LEMMA ErasedVersionsAreVersions ==
    ASSUME NEW S, NEW T, NEW s \in Seq(S), NEW t, t = [n \in DOMAIN s |-> T[n]],
           \A n \in DOMAIN s : T[n] \in S
    PROVE  t \in Seq(S) /\ Len(t) = Len(s)
<1>1. Len(s) \in Nat /\ DOMAIN s = 1 .. Len(s)
  OBVIOUS
<1> QED
  BY <1>1

LEMMA AVersion ==
    ASSUME LifecycleTypeOK, NEW n \in DOMAIN versions
    PROVE  versions[n] \in Version /\ versions[n].template \in Template /\ n \in Nat /\ n # 0
<1>1. versions \in Seq(Version)
  BY DEF LifecycleTypeOK
<1>2. versions[n] \in Version /\ n \in Nat /\ n # 0
  BY <1>1
<1> QED
  BY <1>2 DEF Version

LEMMA InitInvariant == Init => IndInv
<1> SUFFICES ASSUME Init PROVE IndInv
  OBVIOUS
<1>1. Idle \in Progress
  BY DEF Idle, Progress, Row
<1>2. TypeOK
  BY <1>1, LifecycleAssumption DEF TypeOK, Init, LifecycleInit, LifecycleTypeOK, Draft, Template, Current, Row
<1> QED
  BY <1>2 DEF IndInv, Init, LifecycleInit, Shared, HeldIsCurrent, LoadsAreCurrent, SeenMatches,
              FetchesAreCurrent, Idle

-----------------------------------------------------------------------------
(* The lifecycle                                                              *)

(* A change of the draft moves its revision on, so nothing reviewed before is *)
(* of the revision it makes.                                                  *)
LEMMA ChangedDraft ==
    ASSUME LifecycleTypeOK, SeenMatches, NEW template \in Template, ChangeDraft(template), UNCHANGED seen
    PROVE  draft' \in Draft /\ SeenMatches'
<1>1. draft.revision \in Nat /\ draft.revision + 1 \in 0 .. MaxRevision
  BY LifecycleAssumption DEF LifecycleTypeOK, Draft, ChangeDraft
<1>2. draft' = [revision |-> draft.revision + 1, template |-> template]
  BY DEF ChangeDraft, Rewritten
<1>3. draft' \in Draft
  BY <1>1, <1>2 DEF Draft
<1>4. \A e \in Editor : seen[e] # None => seen[e] \in Draft
  BY DEF LifecycleTypeOK
<1>5. SeenMatches'
  BY <1>1, <1>2, <1>4 DEF SeenMatches, Draft
<1> QED
  BY <1>3, <1>5

LEMMA EditsKeep ==
    ASSUME LifecycleTypeOK, SeenMatches, Edits
    PROVE  LifecycleTypeOK' /\ SeenMatches' /\ UNCHANGED <<versions, log>>
<1>1. ASSUME NEW p \in Part, SetPart(p)
      PROVE  LifecycleTypeOK' /\ SeenMatches' /\ UNCHANGED <<versions, log>>
  <2>1. draft.template \cup {p} \in Template
    BY DEF LifecycleTypeOK, Draft, Template
  <2> QED
    BY <1>1, <2>1, ChangedDraft DEF SetPart, LifecycleTypeOK
<1>2. ASSUME NEW p \in Part, DeletePart(p)
      PROVE  LifecycleTypeOK' /\ SeenMatches' /\ UNCHANGED <<versions, log>>
  <2>1. draft.template \ {p} \in Template
    BY DEF LifecycleTypeOK, Draft, Template
  <2> QED
    BY <1>2, <2>1, ChangedDraft DEF DeletePart, LifecycleTypeOK
<1>3. ASSUME NEW e \in Editor, Review(e)
      PROVE  LifecycleTypeOK' /\ SeenMatches' /\ UNCHANGED <<versions, log>>
  BY <1>3, LifecycleAssumption DEF Review, LifecycleTypeOK, SeenMatches, Draft
<1>4. ASSUME NEW e \in Editor, CopyWrite(e)
      PROVE  LifecycleTypeOK' /\ SeenMatches' /\ UNCHANGED <<versions, log>>
  <2>1. copying[e] \in Template
    BY <1>4 DEF CopyWrite, LifecycleTypeOK
  <2> QED
    BY <1>4, <2>1, ChangedDraft DEF CopyWrite, LifecycleTypeOK
<1>5. ASSUME NEW e \in Editor, NEW template \in Template, ReplaceDraft(e, template)
      PROVE  LifecycleTypeOK' /\ SeenMatches' /\ UNCHANGED <<versions, log>>
  BY <1>5, ChangedDraft DEF ReplaceDraft, LifecycleTypeOK
<1>6. ASSUME NEW e \in Editor, NEW n \in DOMAIN versions, CopyRead(e, n)
      PROVE  LifecycleTypeOK' /\ SeenMatches' /\ UNCHANGED <<versions, log>>
  <2>1. versions[n].template \in Template
    BY AVersion
  <2> QED
    BY <1>6, <2>1 DEF CopyRead, LifecycleTypeOK, SeenMatches
<1> QED
  BY <1>1, <1>2, <1>3, <1>4, <1>5, <1>6 DEF Edits

(* A version made of a template becomes the active one. *)
LEMMA CreatedVersion ==
    ASSUME LifecycleTypeOK, NEW template \in Template, NEW from \in Nat, CreateVersion(template, from)
    PROVE  /\ LifecycleTypeOK' /\ Len(log') = Len(log) + 1 /\ Len(log) \in Nat
           /\ UNCHANGED <<draft, seen>>
           /\ Len(versions') = Len(versions) + 1
           /\ versions'[Len(versions')] = [template |-> template, revision |-> draft.revision, from |-> from]
<1> DEFINE v == [template |-> template, revision |-> draft.revision, from |-> from]
           a == [kind |-> IF from = 0 THEN "publish" ELSE "rollback", version |-> Len(versions) + 1]
<1>1. v \in Version /\ Len(versions) \in Nat /\ Len(log) \in Nat /\ a \in Activity
  BY DEF LifecycleTypeOK, Version, Draft, Activity
<1>2. versions' = Append(versions, v) /\ log' = Append(log, a) /\ active' = Len(versions) + 1
      /\ UNCHANGED <<draft, seen, copying>>
  BY DEF CreateVersion, Record
<1>3. versions' \in Seq(Version) /\ Len(versions') = Len(versions) + 1 /\ versions'[Len(versions) + 1] = v
  BY <1>1, <1>2 DEF LifecycleTypeOK
<1>4. log' \in Seq(Activity) /\ Len(log') = Len(log) + 1
  BY <1>1, <1>2 DEF LifecycleTypeOK
<1> QED
  BY <1>1, <1>2, <1>3, <1>4 DEF LifecycleTypeOK

LEMMA PublishesKeep ==
    ASSUME LifecycleTypeOK, SeenMatches, Publishes
    PROVE  LifecycleTypeOK' /\ SeenMatches' /\ Len(log) \in Nat /\ Len(log') = Len(log) + 1
<1>1. ASSUME NEW e \in Editor, PublishDraft(e)
      PROVE  LifecycleTypeOK' /\ SeenMatches' /\ Len(log) \in Nat /\ Len(log') = Len(log) + 1
  <2>1. draft.template \in Template /\ 0 \in Nat
    BY DEF LifecycleTypeOK, Draft
  <2> QED
    BY <1>1, <2>1, CreatedVersion DEF PublishDraft, SeenMatches
<1>2. ASSUME NEW n \in DOMAIN versions, RollbackTo(n)
      PROVE  LifecycleTypeOK' /\ SeenMatches' /\ Len(log) \in Nat /\ Len(log') = Len(log) + 1
  <2>1. versions[n].template \in Template /\ n \in Nat
    BY AVersion
  <2> QED
    BY <1>2, <2>1, CreatedVersion DEF RollbackTo, SeenMatches
<1>3. CASE Unpublish
  <2>1. [kind |-> "unpublish", version |-> 0] \in Activity
    BY DEF Activity
  <2>2. log' \in Seq(Activity) /\ Len(log) \in Nat /\ Len(log') = Len(log) + 1
    BY <1>3, <2>1 DEF Unpublish, Record, LifecycleTypeOK
  <2> QED
    BY <1>3, <2>2 DEF Unpublish, LifecycleTypeOK, SeenMatches
<1> QED
  BY <1>1, <1>2, <1>3 DEF Publishes

LEMMA ErasesKeep ==
    ASSUME LifecycleTypeOK, SeenMatches, Erases
    PROVE  LifecycleTypeOK' /\ SeenMatches' /\ UNCHANGED log /\ Len(versions') = Len(versions)
<1>1. PICK p \in Erasable : Erase(p)
  BY DEF Erases
<1> DEFINE T == [n \in DOMAIN versions |-> [versions[n] EXCEPT !.template = @ \ {p}]]
<1>2. \A n \in DOMAIN versions : T[n] \in Version
  BY AVersion DEF Version, Template
<1>3. versions' \in Seq(Version) /\ Len(versions') = Len(versions)
  <2>1. versions' = [n \in DOMAIN versions |-> T[n]] /\ versions \in Seq(Version)
    BY <1>1 DEF Erase, LifecycleTypeOK
  <2> HIDE DEF T
  <2> QED
    BY <1>2, <2>1, ErasedVersionsAreVersions
<1>4. draft' \in Draft /\ SeenMatches'
  <2>1. draft.template \ {p} \in Template /\ draft \in Draft
    BY DEF LifecycleTypeOK, Draft, Template
  <2>2. UNCHANGED seen
    BY <1>1 DEF Erase
  <2>3. CASE p \in draft.template
    BY <1>1, <2>1, <2>2, <2>3, ChangedDraft DEF Erase
  <2>4. CASE p \notin draft.template
    BY <1>1, <2>1, <2>2, <2>4 DEF Erase, SeenMatches
  <2> QED
    BY <2>3, <2>4
<1> QED
  BY <1>1, <1>3, <1>4 DEF Erase, LifecycleTypeOK

-----------------------------------------------------------------------------
(* The delivery                                                               *)

(* A change of the rows that leaves the caches and the fetches alone. *)
LEMMA ChangesKeep ==
    ASSUME IndInv, LifecycleTypeOK', SeenMatches',
           revoked' \in 0 .. 1, \A r \in Row : Current(r)' \in Nat /\ Current(r) <= Current(r)',
           NEW row \in Row, Change(row, Current(row)'),
           UNCHANGED <<acked, cache, fetch>>
    PROVE  IndInv'
<1>1. \A r \in Row : Current(r) \in Nat /\ acked[r] \in Nat /\ acked[r] <= Current(r)
  BY DEF IndInv, TypeOK, LifecycleTypeOK, Current, Row
<1>2. due' \subseteq {d \in Row \X Nat : d[2] <= Current(d[1])'}
  BY <1>1 DEF IndInv, TypeOK, Change
<1>3. \A r \in Row : acked'[r] <= Current(r)'
  BY <1>1
<1>4. TypeOK'
  BY <1>2, <1>3 DEF IndInv, TypeOK
<1> QED
  BY <1>4 DEF IndInv, Shared, HeldIsCurrent, LoadsAreCurrent, FetchesAreCurrent

(* What holds of the rows while a fetch, or the cache, moves on. *)
LEMMA RowsKeep ==
    ASSUME IndInv, FetchUnchanged, cache' \in [Row -> Holding \cup {None}], fetch' \in [Fetch -> Progress]
    PROVE  TypeOK' /\ SeenMatches' /\ \A r \in Row : Current(r) \in Nat /\ acked[r] \in Nat /\ acked[r] <= Current(r)
<1>1. TypeOK /\ SeenMatches /\ \A r \in Row : Current(r)' = Current(r)
  BY DEF IndInv, FetchUnchanged, lifecycle, Current
<1>2. LifecycleTypeOK' /\ SeenMatches'
  BY DEF IndInv, TypeOK, FetchUnchanged, lifecycle, LifecycleTypeOK, SeenMatches
<1>3. \A r \in Row : Current(r) \in Nat
  BY <1>1 DEF TypeOK, LifecycleTypeOK, Current, Row
<1>4. due' \subseteq {d \in Row \X Nat : d[2] <= Current(d[1])'}
  BY <1>1 DEF TypeOK, FetchUnchanged
<1> QED
  BY <1>1, <1>2, <1>3, <1>4 DEF TypeOK, FetchUnchanged

LEMMA ForgetKeeps ==
    ASSUME IndInv, NEW r \in Row, NEW n \in Nat, Forget(r, n)
    PROVE  IndInv'
<1>1. \A q \in Row : Current(q) \in Nat /\ Current(q)' = Current(q) /\ acked[q] \in Nat
  BY DEF IndInv, TypeOK, LifecycleTypeOK, Forget, lifecycle, Current, Row
<1>2. n <= Current(r)
  BY DEF IndInv, TypeOK, Forget
<1>3. /\ acked' \in [Row -> Nat]
      /\ \A q \in Row : acked'[q] <= Current(q) /\ acked[q] <= acked'[q] /\ (q # r => acked'[q] = acked[q])
  BY <1>1, <1>2 DEF IndInv, TypeOK, Forget
<1>4. cache' \in [Row -> Holding \cup {None}] /\ cache'[r] = None /\ \A q \in Row : q # r => cache'[q] = cache[q]
  BY DEF IndInv, TypeOK, Forget
<1>5. TypeOK'
  <2>1. LifecycleTypeOK' /\ revoked' \in 0 .. 1 /\ fetch' \in [Fetch -> Progress]
    BY DEF IndInv, TypeOK, Forget, lifecycle, LifecycleTypeOK
  <2>2. due' \subseteq {d \in Row \X Nat : d[2] <= Current(d[1])'}
    BY <1>1 DEF IndInv, TypeOK, Forget
  <2> QED
    BY <1>1, <1>3, <1>4, <2>1, <2>2 DEF TypeOK
<1>6. Shared' /\ FetchesAreCurrent' /\ SeenMatches'
  BY <1>4 DEF IndInv, Shared, FetchesAreCurrent, SeenMatches, Forget, lifecycle
<1>7. HeldIsCurrent'
  BY <1>3, <1>4 DEF IndInv, HeldIsCurrent, Forget
<1>8. LoadsAreCurrent'
  <2>1. \A f \in Fetch : fetch[f].floor \in Nat /\ fetch[f].row \in Row
    BY DEF IndInv, TypeOK, Progress
  <2> QED
    BY <1>1, <1>3, <2>1 DEF IndInv, LoadsAreCurrent, Forget
<1> QED
  BY <1>5, <1>6, <1>7, <1>8 DEF IndInv

LEMMA ExpireKeeps ==
    ASSUME IndInv, NEW r \in Row, Expire(r)
    PROVE  IndInv'
<1>1. cache' \in [Row -> Holding \cup {None}] /\ cache'[r] = None /\ \A q \in Row : q # r => cache'[q] = cache[q]
  BY DEF IndInv, TypeOK, Expire
<1>2. TypeOK' /\ SeenMatches'
  BY <1>1, RowsKeep DEF Expire, FetchUnchanged, IndInv, TypeOK
<1> QED
  BY <1>1, <1>2 DEF IndInv, Shared, HeldIsCurrent, LoadsAreCurrent, FetchesAreCurrent, Expire

(* A step of one fetch that nobody waits for, whether it begins, looks up what *)
(* is held, or ends.                                                           *)
LEMMA StepKeeps ==
    ASSUME IndInv, FetchUnchanged, NEW f \in Fetch, NEW to \in Progress,
           fetch[f].pc \notin {"load", "loaded"},
           fetch' = [fetch EXCEPT ![f] = to], UNCHANGED cache,
           to.pc \in {"idle", "lookup", "wait", "got"},
           to.pc = "wait" => /\ to.on \in Fetch /\ fetch[to.on].pc \in {"load", "loaded"}
                             /\ fetch[to.on].row = to.row /\ to.floor <= acked[to.row]
                             /\ fetch[to.on].pc = "loaded" => fetch[to.on].value >= to.floor,
           to.pc = "got" => to.value >= to.floor
    PROVE  IndInv'
<1>1. TypeOK' /\ SeenMatches'
  BY RowsKeep DEF IndInv, TypeOK
<1>2. \A g \in Fetch : fetch'[g] = IF g = f THEN to ELSE fetch[g]
  BY DEF IndInv, TypeOK
<1>3. \A r \in Row : cache[r] # None => cache[r].by \in Fetch \cup {None}
  BY DEF IndInv, TypeOK, Holding
<1>4. \A r \in Row : cache[r] # None /\ cache[r].by # None => cache[r].by \in Fetch \ {f}
  BY <1>3 DEF IndInv, Shared
<1>5. Shared'
  BY <1>2, <1>4 DEF IndInv, Shared
<1>6. HeldIsCurrent'
  BY <1>2, <1>4 DEF IndInv, HeldIsCurrent, FetchUnchanged
<1>7. LoadsAreCurrent'
  BY <1>2 DEF IndInv, LoadsAreCurrent, Shared, FetchUnchanged
<1>8. FetchesAreCurrent'
  BY <1>2 DEF IndInv, FetchesAreCurrent
<1> QED
  BY <1>1, <1>5, <1>6, <1>7, <1>8 DEF IndInv

LEMMA FetchTypes ==
    ASSUME IndInv, NEW f \in Fetch
    PROVE  /\ fetch[f] \in Progress /\ fetch[f].row \in Row /\ f # None
           /\ fetch[f].value \in Nat /\ fetch[f].floor \in Nat
           /\ acked[fetch[f].row] \in Nat /\ Current(fetch[f].row) \in Nat
           /\ acked[fetch[f].row] <= Current(fetch[f].row)
           /\ cache[fetch[f].row] # None => cache[fetch[f].row] \in Holding
<1>1. fetch[f] \in Progress /\ f # None
  BY DeliveryAssumption DEF IndInv, TypeOK
<1>2. fetch[f].row \in Row /\ fetch[f].value \in Nat /\ fetch[f].floor \in Nat
  BY <1>1 DEF Progress
<1>3. \A r \in Row : /\ acked[r] \in Nat /\ Current(r) \in Nat /\ acked[r] <= Current(r)
                     /\ cache[r] # None => cache[r] \in Holding
  BY DEF IndInv, TypeOK, LifecycleTypeOK, Current, Row
<1> QED
  BY <1>1, <1>2, <1>3

LEMMA BeginKeeps ==
    ASSUME IndInv, NEW f \in Fetch, Begin(f)
    PROVE  IndInv'
<1>1. [Idle EXCEPT !.pc = "lookup"] \in Progress
  BY DEF Idle, Progress, Row
<1> QED
  BY <1>1, StepKeeps DEF Begin, Idle

LEMMA GotKeeps ==
    ASSUME IndInv, NEW f \in Fetch, Got(f)
    PROVE  IndInv'
<1> DEFINE to == IF fetch[f].row = "credential" /\ fetch[f].value = 0
                 THEN [Idle EXCEPT !.pc = "lookup", !.row = "database"] ELSE Idle
<1>1. to \in Progress /\ to.pc \in {"idle", "lookup"}
  BY DEF Idle, Progress, Row
<1>2. fetch' = [fetch EXCEPT ![f] = to]
  BY DEF Got, IndInv, TypeOK
<1> HIDE DEF to
<1> QED
  BY <1>1, <1>2, StepKeeps DEF Got

LEMMA LookupKeeps ==
    ASSUME IndInv, NEW f \in Fetch, Lookup(f)
    PROVE  IndInv'
<1> DEFINE r == fetch[f].row
<1>1. fetch[f] \in Progress /\ r \in Row /\ acked[r] \in Nat /\ f # None
      /\ (cache[r] # None => cache[r] \in Holding) /\ fetch[f].pc = "lookup" /\ FetchUnchanged
  BY FetchTypes DEF Lookup
<1>2. CASE /\ cache[r] = None
           /\ cache' = [cache EXCEPT ![r] = [by |-> f, value |-> 0]]
           /\ fetch' = [fetch EXCEPT ![f].pc = "load", ![f].floor = acked[r]]
  <2> DEFINE to == [fetch[f] EXCEPT !.pc = "load", !.floor = acked[r]]
  <2>1. to \in Progress /\ to.pc = "load" /\ to.floor = acked[r] /\ to.row = r
    BY <1>1 DEF Progress
  <2>2. fetch' = [fetch EXCEPT ![f] = to]
    BY <1>2 DEF IndInv, TypeOK
  <2> HIDE DEF to
  <2>3. \A g \in Fetch : fetch'[g] = IF g = f THEN to ELSE fetch[g]
    BY <2>2 DEF IndInv, TypeOK
  <2>4. [by |-> f, value |-> 0] \in Holding
    BY DEF Holding
  <2>5. \A q \in Row : cache'[q] = IF q = r THEN [by |-> f, value |-> 0] ELSE cache[q]
    BY <1>2 DEF IndInv, TypeOK
  <2>6. TypeOK' /\ SeenMatches'
    <3>1. cache' \in [Row -> Holding \cup {None}] /\ fetch' \in [Fetch -> Progress]
      BY <1>1, <1>2, <2>1, <2>2, <2>4 DEF IndInv, TypeOK
    <3> QED
      BY <1>1, <3>1, RowsKeep
  <2>7. \A q \in Row : cache[q] # None /\ cache[q].by # None => cache[q].by \in Fetch \ {f}
    BY <1>1 DEF IndInv, TypeOK, Holding, Shared
  <2>8. Shared'
    BY <1>1, <2>1, <2>3, <2>5, <2>7 DEF IndInv, Shared
  <2>9. HeldIsCurrent'
    BY <1>1, <2>1, <2>3, <2>5, <2>7 DEF IndInv, HeldIsCurrent, FetchUnchanged
  <2>10. LoadsAreCurrent'
    BY <1>1, <2>1, <2>3 DEF IndInv, LoadsAreCurrent, Shared, FetchUnchanged
  <2>11. FetchesAreCurrent'
    BY <2>1, <2>3 DEF IndInv, FetchesAreCurrent
  <2> QED
    BY <2>6, <2>8, <2>9, <2>10, <2>11 DEF IndInv
<1>3. CASE /\ cache[r] # None /\ cache[r].by # None
           /\ fetch' = [fetch EXCEPT ![f].pc = "wait", ![f].on = cache[r].by, ![f].floor = acked[r]]
           /\ UNCHANGED cache
  <2> DEFINE to == [fetch[f] EXCEPT !.pc = "wait", !.on = cache[r].by, !.floor = acked[r]]
  <2>1. cache[r].by \in Fetch
    BY <1>1, <1>3 DEF Holding
  <2>2. to \in Progress /\ to.pc = "wait" /\ to.on = cache[r].by /\ to.row = r /\ to.floor = acked[r]
    BY <1>1, <2>1 DEF Progress
  <2>3. fetch' = [fetch EXCEPT ![f] = to]
    BY <1>3 DEF IndInv, TypeOK
  <2> HIDE DEF to
  <2>4. fetch[to.on].pc \in {"load", "loaded"} /\ fetch[to.on].row = to.row
        /\ (fetch[to.on].pc = "loaded" => fetch[to.on].value >= to.floor)
    BY <1>1, <1>3, <2>2 DEF IndInv, Shared, HeldIsCurrent
  <2>5. to.floor <= acked[to.row] /\ fetch[f].pc \notin {"load", "loaded"}
    BY <1>1, <2>2
  <2>6. to.on \in Fetch /\ to.pc \in {"idle", "lookup", "wait", "got"} /\ to.pc # "got"
    BY <2>1, <2>2
  <2>7. to \in Progress
    BY <2>2
  <2>8. FetchUnchanged /\ UNCHANGED cache
    BY <1>1, <1>3
  <2> QED
    BY ONLY IndInv, f \in Fetch, <2>3, <2>4, <2>5, <2>6, <2>7, <2>8, StepKeeps
<1>4. CASE /\ cache[r] # None /\ cache[r].by = None
           /\ fetch' = [fetch EXCEPT ![f].pc = "got", ![f].value = cache[r].value, ![f].floor = acked[r]]
           /\ UNCHANGED cache
  <2> DEFINE to == [fetch[f] EXCEPT !.pc = "got", !.value = cache[r].value, !.floor = acked[r]]
  <2>1. to \in Progress /\ to.pc = "got" /\ to.value = cache[r].value /\ to.floor = acked[r]
    BY <1>1, <1>4 DEF Progress, Holding
  <2>2. fetch' = [fetch EXCEPT ![f] = to]
    BY <1>4 DEF IndInv, TypeOK
  <2> HIDE DEF to
  <2>3. to.value >= to.floor
    BY <1>1, <1>4, <2>1 DEF IndInv, HeldIsCurrent
  <2> QED
    BY <1>1, <1>4, <2>1, <2>2, <2>3, StepKeeps
<1> QED
  BY <1>2, <1>3, <1>4 DEF Lookup

LEMMA ReadRowKeeps ==
    ASSUME IndInv, NEW f \in Fetch, ReadRow(f)
    PROVE  IndInv'
<1> DEFINE r == fetch[f].row
           to == [fetch[f] EXCEPT !.pc = "loaded", !.value = Current(r)]
<1>1. fetch[f] \in Progress /\ r \in Row /\ acked[r] \in Nat /\ Current(r) \in Nat /\ acked[r] <= Current(r)
      /\ fetch[f].floor \in Nat /\ f # None /\ fetch[f].pc = "load" /\ FetchUnchanged /\ UNCHANGED cache
  BY FetchTypes DEF ReadRow
<1>2. to \in Progress /\ to.pc = "loaded" /\ to.value = Current(r) /\ to.row = r /\ to.floor = fetch[f].floor
  BY <1>1 DEF Progress
<1>3. fetch' = [fetch EXCEPT ![f] = to]
  BY DEF ReadRow, IndInv, TypeOK
<1> HIDE DEF to
<1>4. \A g \in Fetch : fetch'[g] = IF g = f THEN to ELSE fetch[g]
  BY <1>3 DEF IndInv, TypeOK
<1>5. TypeOK' /\ SeenMatches'
  <2>1. cache' \in [Row -> Holding \cup {None}] /\ fetch' \in [Fetch -> Progress]
    BY <1>1, <1>2, <1>3 DEF IndInv, TypeOK
  <2> QED
    BY <1>1, <2>1, RowsKeep
<1>6. \A q \in Row : cache[q] # None /\ cache[q].by # None => cache[q].by \in Fetch
  BY DEF IndInv, TypeOK, Holding
<1>7. Shared'
  BY <1>1, <1>2, <1>4, <1>6 DEF IndInv, Shared
<1>8. HeldIsCurrent'
  BY <1>1, <1>2, <1>4, <1>6 DEF IndInv, HeldIsCurrent, Shared, FetchUnchanged
<1>9. LoadsAreCurrent'
  <2>1. \A g \in Fetch : fetch[g].floor \in Nat /\ fetch[g].row \in Row
    BY FetchTypes
  <2> QED
    BY <1>1, <1>2, <1>4, <2>1 DEF IndInv, LoadsAreCurrent, Shared, FetchUnchanged
<1>10. FetchesAreCurrent'
  BY <1>2, <1>4 DEF IndInv, FetchesAreCurrent
<1> QED
  BY <1>5, <1>7, <1>8, <1>9, <1>10 DEF IndInv

LEMMA ResolveKeeps ==
    ASSUME IndInv, NEW f \in Fetch, Resolve(f)
    PROVE  IndInv'
<1> DEFINE r == fetch[f].row
           v == fetch[f].value
           S == Sharing(f)
<1>1. fetch[f] \in Progress /\ r \in Row /\ v \in Nat /\ f # None /\ fetch[f].pc = "loaded" /\ FetchUnchanged
  BY FetchTypes DEF Resolve
<1>2. \A g \in Fetch : /\ g \in S => fetch'[g] = [fetch[g] EXCEPT !.pc = "got", !.on = None, !.value = v]
                       /\ g \notin S => fetch'[g] = fetch[g]
  BY DEF Resolve
<1>3. \A g \in Fetch : /\ fetch'[g] \in Progress /\ fetch'[g].floor = fetch[g].floor /\ fetch'[g].row = fetch[g].row
                       /\ g \in S => fetch'[g].pc = "got" /\ fetch'[g].value = v
  <2> SUFFICES ASSUME NEW g \in Fetch
               PROVE  /\ fetch'[g] \in Progress /\ fetch'[g].floor = fetch[g].floor /\ fetch'[g].row = fetch[g].row
                      /\ g \in S => fetch'[g].pc = "got" /\ fetch'[g].value = v
    OBVIOUS
  <2>1. fetch[g] \in Progress
    BY FetchTypes
  <2> QED
    BY <1>1, <1>2, <2>1 DEF Progress
<1>4. \A g \in Fetch : g \notin S => fetch'[g] = fetch[g]
  BY <1>2
<1>5. \A g \in Fetch : g \in S <=> g = f \/ (fetch[g].pc = "wait" /\ fetch[g].on = f)
  BY DEF Sharing
<1> HIDE DEF S
<1>6. \A q \in Row : \/ cache'[q] = cache[q] /\ ~(cache[q] # None /\ cache[q].by = f)
                     \/ q = r /\ cache'[q] = [by |-> None, value |-> v] /\ cache[q] # None /\ cache[q].by = f
  <2>1. \A q \in Row : cache[q] # None /\ cache[q].by = f => q = r
    BY <1>1 DEF IndInv, Shared
  <2> QED
    BY <1>1, <2>1 DEF Resolve, Holds, IndInv, TypeOK
<1>7. TypeOK' /\ SeenMatches'
  <2>1. [by |-> None, value |-> v] \in Holding
    BY <1>1 DEF Holding
  <2>2. cache' \in [Row -> Holding \cup {None}]
    BY <1>1, <2>1 DEF Resolve, IndInv, TypeOK
  <2>3. fetch' \in [Fetch -> Progress]
    BY <1>3 DEF Resolve
  <2> QED
    BY <1>1, <2>2, <2>3, RowsKeep
<1>8. \A q \in Row : cache[q] # None /\ cache[q].by # None => cache[q].by \in Fetch
  BY DEF IndInv, TypeOK, Holding
<1>9. \A q \in Row : cache[q] # None /\ cache[q].by # None /\ cache[q].by # f => cache[q].by \notin S
  BY <1>5, <1>8 DEF IndInv, Shared
<1>10. \A g \in Fetch : fetch[g].pc = "wait" /\ g \notin S => fetch[g].on \in Fetch \ S
  BY <1>5 DEF IndInv, Shared
<1>11. Shared'
  <2>1. \A q \in Row : cache'[q] # None /\ cache'[q].by # None =>
            fetch'[cache'[q].by].pc \in {"load", "loaded"} /\ fetch'[cache'[q].by].row = q
    BY <1>3, <1>4, <1>6, <1>8, <1>9 DEF IndInv, Shared
  <2>2. \A g \in Fetch : fetch'[g].pc = "wait" =>
            /\ fetch'[g].on \in Fetch /\ fetch'[fetch'[g].on].pc \in {"load", "loaded"}
            /\ fetch'[fetch'[g].on].row = fetch'[g].row
    BY <1>3, <1>4, <1>10 DEF IndInv, Shared
  <2> QED
    BY <2>1, <2>2 DEF Shared
<1>12. HeldIsCurrent'
  <2>1. acked' = acked
    BY <1>1 DEF FetchUnchanged
  <2>2. \A q \in Row : cache[q] # None /\ cache[q].by = f => v >= acked[q]
    BY <1>1 DEF IndInv, HeldIsCurrent
  <2> QED
    BY <1>3, <1>4, <1>6, <1>8, <1>9, <2>1, <2>2 DEF IndInv, HeldIsCurrent
<1>13. LoadsAreCurrent'
  BY <1>1, <1>3, <1>4, <1>10 DEF IndInv, LoadsAreCurrent, FetchUnchanged
<1>14. FetchesAreCurrent'
  <2>1. \A g \in Fetch : g \in S => v >= fetch[g].floor
    BY <1>1, <1>5 DEF IndInv, LoadsAreCurrent
  <2> QED
    BY <1>3, <1>4, <2>1 DEF IndInv, FetchesAreCurrent
<1> QED
  BY <1>7, <1>11, <1>12, <1>13, <1>14 DEF IndInv

LEMMA LoadFailsKeeps ==
    ASSUME IndInv, NEW f \in Fetch, LoadFails(f)
    PROVE  IndInv'
<1> DEFINE r == fetch[f].row
           S == Sharing(f)
<1>1. r \in Row /\ f # None /\ fetch[f].pc = "load" /\ FetchUnchanged
  BY FetchTypes DEF LoadFails
<1>2. \A g \in Fetch : fetch'[g] = IF g \in S THEN Idle ELSE fetch[g]
  BY DEF LoadFails
<1>3. Idle \in Progress /\ Idle.pc = "idle"
  BY DEF Idle, Progress, Row
<1>4. \A g \in Fetch : g \in S <=> g = f \/ (fetch[g].pc = "wait" /\ fetch[g].on = f)
  BY DEF Sharing
<1> HIDE DEF S
<1>5. \A q \in Row : \/ cache'[q] = cache[q] /\ ~(cache[q] # None /\ cache[q].by = f)
                     \/ cache'[q] = None
  <2>1. \A q \in Row : cache[q] # None /\ cache[q].by = f => q = r
    BY <1>1 DEF IndInv, Shared
  <2> QED
    BY <1>1, <2>1 DEF LoadFails, Holds, IndInv, TypeOK
<1>6. TypeOK' /\ SeenMatches'
  <2>1. cache' \in [Row -> Holding \cup {None}]
    BY <1>1 DEF LoadFails, IndInv, TypeOK
  <2>2. fetch' \in [Fetch -> Progress]
    BY <1>3 DEF LoadFails, IndInv, TypeOK
  <2> QED
    BY <1>1, <2>1, <2>2, RowsKeep
<1>7. \A q \in Row : cache[q] # None /\ cache[q].by # None => cache[q].by \in Fetch
  BY DEF IndInv, TypeOK, Holding
<1>8. \A q \in Row : cache[q] # None /\ cache[q].by # None /\ cache[q].by # f => cache[q].by \notin S
  BY <1>4, <1>7 DEF IndInv, Shared
<1>9. \A g \in Fetch : fetch[g].pc = "wait" /\ g \notin S => fetch[g].on \in Fetch \ S
  BY <1>4 DEF IndInv, Shared
<1>10. Shared'
  BY <1>2, <1>3, <1>5, <1>7, <1>8, <1>9 DEF IndInv, Shared
<1>11. HeldIsCurrent'
  BY <1>1, <1>2, <1>3, <1>5, <1>7, <1>8 DEF IndInv, HeldIsCurrent, FetchUnchanged
<1>12. LoadsAreCurrent'
  BY <1>1, <1>2, <1>3, <1>9 DEF IndInv, LoadsAreCurrent, FetchUnchanged
<1>13. FetchesAreCurrent'
  BY <1>2, <1>3 DEF IndInv, FetchesAreCurrent
<1> QED
  BY <1>6, <1>10, <1>11, <1>12, <1>13 DEF IndInv

LEMMA RestartKeeps ==
    ASSUME IndInv, Restart
    PROVE  IndInv'
<1>1. Idle \in Progress /\ Idle.pc = "idle"
  BY DEF Idle, Progress, Row
<1>2. \A r \in Row : Current(r) \in Nat /\ Current(r)' = Current(r)
  BY DEF IndInv, TypeOK, LifecycleTypeOK, Current, Row, Restart, lifecycle
<1>3. LifecycleTypeOK' /\ SeenMatches' /\ revoked' \in 0 .. 1
  BY DEF IndInv, TypeOK, Restart, lifecycle, LifecycleTypeOK, SeenMatches
<1>4. TypeOK'
  BY <1>1, <1>2, <1>3 DEF TypeOK, Restart
<1> QED
  BY <1>1, <1>3, <1>4 DEF IndInv, Restart, Shared, HeldIsCurrent, LoadsAreCurrent, FetchesAreCurrent

-----------------------------------------------------------------------------

LEMMA NextKeepsInvariant == IndInv /\ [Next]_vars => IndInv'
<1> SUFFICES ASSUME IndInv, [Next]_vars PROVE IndInv'
  OBVIOUS
<1>1. LifecycleTypeOK /\ SeenMatches /\ Len(log) \in Nat /\ Len(versions) \in Nat
  BY DEF IndInv, TypeOK, LifecycleTypeOK
<1>2. revoked \in 0 .. 1 /\ "database" \in Row /\ "credential" \in Row
  BY DEF IndInv, TypeOK, Row
<1>3. CASE Edit
  <2>1. LifecycleTypeOK' /\ SeenMatches' /\ UNCHANGED <<log, delivery>>
    BY <1>1, <1>3, EditsKeep DEF Edit
  <2>2. TypeOK'
    BY <2>1 DEF IndInv, TypeOK, delivery, Current
  <2> QED
    BY <2>1, <2>2 DEF IndInv, delivery, Shared, HeldIsCurrent, LoadsAreCurrent, FetchesAreCurrent
<1>4. CASE Publish
  <2>1. LifecycleTypeOK' /\ SeenMatches' /\ Len(log') = Len(log) + 1
    BY <1>1, <1>4, PublishesKeep DEF Publish
  <2>2. /\ Current("database")' = Len(log') /\ UNCHANGED <<revoked, acked, cache, fetch>>
        /\ \A r \in Row : Current(r)' \in Nat /\ Current(r) <= Current(r)'
    BY <1>1, <1>2, <1>4, <2>1 DEF Publish, Current, Row
  <2>3. Change("database", Current("database")')
    BY <1>4, <2>2 DEF Publish
  <2> QED
    BY <1>2, <2>1, <2>2, <2>3, ChangesKeep
<1>5. CASE EraseId
  <2>1. LifecycleTypeOK' /\ SeenMatches' /\ log' = log
    BY <1>1, <1>5, ErasesKeep DEF EraseId
  <2>2. /\ Current("database")' = Len(log) /\ UNCHANGED <<revoked, acked, cache, fetch>>
        /\ \A r \in Row : Current(r)' \in Nat /\ Current(r) <= Current(r)'
    BY <1>1, <1>2, <1>5, <2>1 DEF EraseId, Current, Row
  <2>3. Change("database", Current("database")')
    BY <1>5, <2>2 DEF EraseId
  <2> QED
    BY <1>2, <2>1, <2>2, <2>3, ChangesKeep
<1>6. CASE Revoke
  <2>1. LifecycleTypeOK' /\ SeenMatches'
    BY <1>1, <1>6 DEF Revoke, lifecycle, LifecycleTypeOK, SeenMatches
  <2>2. /\ Current("credential")' = 1 /\ revoked' \in 0 .. 1 /\ UNCHANGED <<acked, cache, fetch>>
        /\ \A r \in Row : Current(r)' \in Nat /\ Current(r) <= Current(r)'
    BY <1>1, <1>6 DEF Revoke, lifecycle, Current, Row
  <2>3. Change("credential", Current("credential")')
    BY <1>6, <2>2 DEF Revoke
  <2> QED
    BY <1>2, <2>1, <2>2, <2>3, ChangesKeep
<1>7. ASSUME NEW r \in Row, NEW n \in 0 .. Current(r), Forget(r, n)
      PROVE  IndInv'
  BY <1>7, ForgetKeeps
<1>8. ASSUME NEW r \in Row, Expire(r)
      PROVE  IndInv'
  BY <1>8, ExpireKeeps
<1>9. ASSUME NEW f \in Fetch, Begin(f) \/ Lookup(f) \/ ReadRow(f) \/ Resolve(f) \/ LoadFails(f) \/ Got(f)
      PROVE  IndInv'
  BY <1>9, BeginKeeps, LookupKeeps, ReadRowKeeps, ResolveKeeps, LoadFailsKeeps, GotKeeps
<1>10. CASE UNCHANGED vars
  <2>1. TypeOK'
    BY <1>10 DEF IndInv, TypeOK, LifecycleTypeOK, vars, lifecycle, delivery, Current
  <2> QED
    BY <1>10, <2>1 DEF IndInv, vars, lifecycle, delivery, Shared, HeldIsCurrent, LoadsAreCurrent,
                       SeenMatches, FetchesAreCurrent
<1> QED
  BY <1>3, <1>4, <1>5, <1>6, <1>7, <1>8, <1>9, <1>10, RestartKeeps DEF Next

(* What the other theorems rest on: in every state, whoever waits, waits for a *)
(* load in progress, what is held is current, and a reviewed revision is the   *)
(* draft as reviewed, whatever the process loads, forgets and loses.           *)
THEOREM Invariant == Spec => []IndInv
<1> QED
  BY InitInvariant, NextKeepsInvariant, PTL DEF Spec

(* Every variable has its type, for every number of editors and of fetches in  *)
(* progress at a time (config-delivery.ts, config-publish.ts).                 *)
THEOREM TypeCorrect == Spec => []TypeOK
<1>1. IndInv => TypeOK
  BY DEF IndInv
<1> QED
  BY <1>1, Invariant, PTL

(* A fetch that asks for a row once its change has been answered goes by no    *)
(* state before it: forgetting also drops the loads in progress, so nobody     *)
(* joins one that may have read the row as it was (forgetConfigDatabase,       *)
(* forgetCredential).                                                          *)
THEOREM FetchesStayCurrent == Spec => []FetchesAreCurrent
<1>1. IndInv => FetchesAreCurrent
  BY DEF IndInv
<1> QED
  BY <1>1, Invariant, PTL

(* A publish activates the very template its editor reviewed: every other      *)
(* writer of the draft moves its revision on (publishDraft).                   *)
THEOREM PublishesTheReviewed == Spec => PublishedIsReviewed
<1> DEFINE new == Len(versions')
           A == new > Len(versions) /\ versions'[new].from = 0 =>
                    \E e \in Editor : seen[e] = [revision |-> versions'[new].revision,
                                                 template |-> versions'[new].template]
<1>1. IndInv /\ [Next]_vars => [A]_lifecycle
  <2> SUFFICES ASSUME IndInv, [Next]_vars PROVE A \/ UNCHANGED lifecycle
    OBVIOUS
  <2>1. LifecycleTypeOK /\ SeenMatches /\ Len(versions) \in Nat
    BY DEF IndInv, TypeOK, LifecycleTypeOK
  <2>2. CASE UNCHANGED versions
    BY <2>1, <2>2
  <2>3. CASE Edit
    BY <2>1, <2>2, <2>3, EditsKeep DEF Edit
  <2>4. CASE EraseId
    BY <2>1, <2>4, ErasesKeep DEF EraseId
  <2>5. ASSUME NEW e \in Editor, PublishDraft(e)
        PROVE  A
    <3>1. seen[e] = draft /\ draft \in Draft
      BY <2>1, <2>5 DEF PublishDraft, SeenMatches, LifecycleTypeOK
    <3>2. draft.template \in Template /\ 0 \in Nat /\ CreateVersion(draft.template, 0)
      BY <2>5, <3>1 DEF PublishDraft, Draft
    <3>3. versions'[new] = [template |-> draft.template, revision |-> draft.revision, from |-> 0]
      BY <2>1, <3>2, CreatedVersion
    <3>4. draft = [revision |-> draft.revision, template |-> draft.template]
      BY <3>1 DEF Draft
    <3> QED
      BY <3>1, <3>3, <3>4
  <2>6. ASSUME NEW n \in DOMAIN versions, RollbackTo(n)
        PROVE  A
    <3>1. versions[n].template \in Template /\ n \in Nat /\ n # 0 /\ CreateVersion(versions[n].template, n)
      BY <2>1, <2>6, AVersion DEF RollbackTo
    <3>2. versions'[new] = [template |-> versions[n].template, revision |-> draft.revision, from |-> n]
      BY <2>1, <3>1, CreatedVersion
    <3> QED
      BY <3>1, <3>2
  <2>7. CASE Publish
    BY <2>2, <2>5, <2>6, <2>7 DEF Publish, Publishes, Unpublish
  <2>8. CASE Edit \/ Publish \/ EraseId
    BY <2>3, <2>4, <2>7, <2>8
  <2>9. CASE ~(Edit \/ Publish \/ EraseId)
    BY <2>9 DEF Next, vars, lifecycle, Revoke, Forget, Expire, Begin, Lookup, ReadRow, Resolve,
                LoadFails, Got, Restart, FetchUnchanged
  <2> QED
    BY <2>8, <2>9
<1> QED
  BY <1>1, Invariant, PTL DEF Spec, PublishedIsReviewed

-----------------------------------------------------------------------------
(* The log                                                                    *)

(* A step that records nothing, and lets no revision go back.                  *)
LEMMA LogKept ==
    ASSUME LogNamesVersions, RevisionsRise, log \in Seq(Activity), UNCHANGED <<log, active>>,
           DOMAIN versions' = DOMAIN versions,
           \A n \in DOMAIN versions : /\ versions'[n].revision = versions[n].revision
                                      /\ versions'[n].revision \in Nat
                                      /\ versions'[n].from = versions[n].from,
           draft.revision \in Nat, draft'.revision \in Nat, draft.revision <= draft'.revision
    PROVE  LogNamesVersions' /\ RevisionsRise'
<1>1. \A n \in DOMAIN log : log[n].kind = "publish" =>
         /\ log[n].version \in DOMAIN versions /\ RevisionPublished(n)' = RevisionPublished(n)
         /\ RevisionPublished(n) \in Nat
  BY DEF LogNamesVersions, RevisionPublished
<1>2. LogNamesVersions'
  <2>1. ASSUME NEW n \in DOMAIN log, log[n].kind = "publish"
        PROVE  RevisionPublished(n)' <= draft'.revision
    <3>1. RevisionPublished(n) \in Nat /\ RevisionPublished(n) <= draft.revision
      BY <1>1, <2>1 DEF LogNamesVersions
    <3>2. RevisionPublished(n)' = RevisionPublished(n)
      BY <1>1, <2>1
    <3> QED
      BY <3>1, <3>2
  <2> QED
    BY <1>1, <2>1 DEF LogNamesVersions
<1>3. RevisionsRise'
  <2> SUFFICES ASSUME NEW m \in DOMAIN log, NEW n \in DOMAIN log, m < n,
                      \A k \in m .. n : log[k].kind = "publish"
               PROVE  RevisionPublished(m)' < RevisionPublished(n)'
    BY DEF RevisionsRise
  <2>1. m \in Nat /\ n \in Nat /\ log[m].kind = "publish" /\ log[n].kind = "publish"
    OBVIOUS
  <2> QED
    BY <1>1, <2>1 DEF RevisionsRise
<1> QED
  BY <1>2, <1>3

(* A publish and a rollback record the version they create; a publish rises    *)
(* over the version that a publish had left active.                            *)
LEMMA LogExtended ==
    ASSUME LifecycleTypeOK, LogNamesVersions, RevisionsRise,
           NEW template \in Template, NEW from \in Nat, CreateVersion(template, from),
           from = 0 /\ active # 0 /\ versions[active].from = 0
              => versions[active].revision # draft.revision
    PROVE  LogNamesVersions' /\ RevisionsRise'
<1> DEFINE v == [template |-> template, revision |-> draft.revision, from |-> from]
           a == [kind |-> IF from = 0 THEN "publish" ELSE "rollback", version |-> Len(versions) + 1]
<1>1. /\ versions \in Seq(Version) /\ v \in Version /\ log \in Seq(Activity) /\ a \in Activity
      /\ Len(versions) \in Nat /\ Len(log) \in Nat /\ draft.revision \in Nat
      /\ \A n \in DOMAIN versions : versions[n].revision \in Nat
  BY AVersion DEF LifecycleTypeOK, Version, Draft, Activity
<1>2. /\ versions' = Append(versions, v) /\ log' = Append(log, a)
      /\ active' = Len(versions) + 1 /\ draft' = draft
  BY DEF CreateVersion, Record
<1>3. /\ DOMAIN versions = 1 .. Len(versions) /\ DOMAIN versions' = 1 .. (Len(versions) + 1)
      /\ \A n \in DOMAIN versions : versions'[n] = versions[n]
      /\ versions'[Len(versions) + 1] = v
  BY <1>1, <1>2
<1>4. /\ DOMAIN log = 1 .. Len(log) /\ DOMAIN log' = 1 .. (Len(log) + 1)
      /\ \A n \in DOMAIN log : log'[n] = log[n]
      /\ log'[Len(log) + 1] = a /\ Len(log') = Len(log) + 1
  BY <1>1, <1>2
<1> PICK l \in Nat : l = Len(log)
  BY <1>1
<1>5. \A n \in DOMAIN log : log[n].kind = "publish" =>
         /\ log[n].version \in DOMAIN versions /\ RevisionPublished(n)' = RevisionPublished(n)
         /\ RevisionPublished(n) \in Nat /\ RevisionPublished(n) <= draft.revision
         /\ versions'[log[n].version].from = 0
  BY <1>1, <1>3, <1>4 DEF LogNamesVersions, RevisionPublished
<1>6. a.kind = "publish" => from = 0 /\ RevisionPublished(l + 1)' = draft.revision
  BY <1>3, <1>4 DEF RevisionPublished
<1>7. LogNamesVersions'
  <2>1. ASSUME NEW n \in 1 .. (l + 1), log'[n].kind = "publish"
        PROVE  /\ log'[n].version \in DOMAIN versions' /\ versions'[log'[n].version].from = 0
               /\ RevisionPublished(n)' <= draft.revision
    <3>1. CASE n = l + 1
      BY <1>1, <1>3, <1>4, <1>6, <2>1, <3>1
    <3>2. CASE n \in DOMAIN log
      BY <1>3, <1>4, <1>5, <2>1, <3>2
    <3> QED
      BY <1>4, <3>1, <3>2
  <2>2. active' = log'[Len(log')].version
    BY <1>2, <1>4
  <2> QED
    BY <1>2, <1>4, <2>1, <2>2 DEF LogNamesVersions
<1>8. RevisionsRise'
  <2> SUFFICES ASSUME NEW m \in 1 .. (l + 1), NEW n \in 1 .. (l + 1), m < n,
                      \A k \in m .. n : log'[k].kind = "publish"
               PROVE  RevisionPublished(m)' < RevisionPublished(n)'
    BY <1>4 DEF RevisionsRise
  <2>1. log'[m].kind = "publish" /\ log'[n].kind = "publish" /\ m \in DOMAIN log
    BY <1>4
  <2>2. CASE n \in DOMAIN log
    <3>1. \A k \in m .. n : log[k].kind = "publish"
      BY <1>4, <2>2
    <3>2. log[m].kind = "publish" /\ log[n].kind = "publish"
      BY <3>1, <2>1, <2>2, <1>4
    <3> QED
      BY <1>5, <2>1, <2>2, <3>1, <3>2 DEF RevisionsRise
  <2>3. CASE n = l + 1
    <3>1. a.kind = "publish" /\ l \in DOMAIN log /\ l # 0 /\ log[l].kind = "publish"
      <4>1. l \in m .. n /\ l \in DOMAIN log /\ l # 0
        BY <2>1, <2>3, <1>4
      <4> QED
        BY <4>1, <2>1, <2>3, <1>4
    <3>2. active = log[l].version /\ active \in DOMAIN versions /\ versions[active].from = 0
      BY <3>1 DEF LogNamesVersions
    <3>3. RevisionPublished(l) < draft.revision
      BY <1>1, <1>3, <1>5, <1>6, <3>1, <3>2 DEF RevisionPublished
    <3>4. RevisionPublished(m) <= RevisionPublished(l) /\ RevisionPublished(m) \in Nat
      <4>1. CASE m = l
        BY <1>5, <3>1, <4>1
      <4>2. CASE m # l
        <5>1. m < l /\ \A k \in m .. l : log[k].kind = "publish"
          BY <1>4, <2>1, <2>3, <4>2
        <5>2. RevisionPublished(m) < RevisionPublished(l) /\ log[m].kind = "publish"
          BY <2>1, <3>1, <5>1, <1>4 DEF RevisionsRise
        <5> QED
          BY <1>5, <2>1, <3>1, <5>2
      <4> QED
        BY <4>1, <4>2
    <3>5. RevisionPublished(m)' = RevisionPublished(m)
      BY <1>4, <1>5, <2>1
    <3> QED
      BY <1>1, <1>5, <1>6, <2>3, <3>1, <3>3, <3>4, <3>5
  <2> QED
    BY <1>4, <2>2, <2>3
<1> QED
  BY <1>7, <1>8

(* Every step keeps what the log says of the versions.                         *)
LEMMA StepKeepsLog ==
    ASSUME LifecycleTypeOK, LifecycleTypeOK', SeenMatches, LogNamesVersions, RevisionsRise, [Next]_vars
    PROVE  LogNamesVersions' /\ RevisionsRise'
<1>1. /\ draft.revision \in Nat /\ draft'.revision \in Nat
      /\ \A n \in DOMAIN versions : versions[n].revision \in Nat
      /\ log \in Seq(Activity)
  BY AVersion DEF LifecycleTypeOK, Draft, Version
<1>2. ASSUME NEW template, ChangeDraft(template) PROVE draft.revision <= draft'.revision
  BY <1>1, <1>2 DEF ChangeDraft, Rewritten
<1>3. CASE Edits
  <2>1. UNCHANGED <<versions, log, active>> /\ draft.revision <= draft'.revision
    <3>1. CASE \E p \in Part : SetPart(p) \/ DeletePart(p)
      BY <1>2, <3>1 DEF SetPart, DeletePart
    <3>2. ASSUME NEW e \in Editor,
                 \/ Review(e) \/ CopyWrite(e)
                 \/ \E template \in Template : ReplaceDraft(e, template)
                 \/ \E n \in DOMAIN versions : CopyRead(e, n)
          PROVE  UNCHANGED <<versions, log, active>> /\ draft.revision <= draft'.revision
      BY <1>1, <1>2, <3>2 DEF Review, CopyWrite, ReplaceDraft, CopyRead
    <3> QED
      BY <1>3, <3>1, <3>2 DEF Edits
  <2> QED
    BY <1>1, <2>1, LogKept
<1>4. ASSUME NEW e \in Editor, PublishDraft(e)
      PROVE  LogNamesVersions' /\ RevisionsRise'
  <2>1. draft.template \in Template /\ 0 \in Nat /\ CreateVersion(draft.template, 0)
    BY <1>4 DEF PublishDraft, LifecycleTypeOK, Draft
  <2>2. active # 0 /\ versions[active].from = 0 => versions[active].revision # draft.revision
    BY <1>4 DEF PublishDraft, AlreadyPublished
  <2> QED
    BY <2>1, <2>2, LogExtended
<1>5. ASSUME NEW n \in DOMAIN versions, RollbackTo(n)
      PROVE  LogNamesVersions' /\ RevisionsRise'
  <2>1. versions[n].template \in Template /\ n \in Nat /\ n # 0 /\ CreateVersion(versions[n].template, n)
    BY <1>5, AVersion DEF RollbackTo
  <2> QED
    BY <2>1, LogExtended
<1>6. CASE Unpublish
  <2> DEFINE a == [kind |-> "unpublish", version |-> 0]
  <2>1. /\ log' = Append(log, a) /\ UNCHANGED <<draft, versions>>
        /\ log \in Seq(Activity) /\ Len(log) \in Nat
    BY <1>6 DEF Unpublish, Record, LifecycleTypeOK
  <2>2. /\ DOMAIN log = 1 .. Len(log) /\ DOMAIN log' = 1 .. (Len(log) + 1)
        /\ \A n \in DOMAIN log : log'[n] = log[n]
        /\ log'[Len(log) + 1].kind = "unpublish" /\ Len(log') = Len(log) + 1
    BY <2>1
  <2>3. \A n \in DOMAIN log' : log'[n].kind = "publish" =>
           n \in DOMAIN log /\ log[n].kind = "publish" /\ RevisionPublished(n)' = RevisionPublished(n)
    BY <2>1, <2>2 DEF RevisionPublished
  <2>4. LogNamesVersions'
    BY <2>1, <2>2, <2>3 DEF LogNamesVersions
  <2>5. RevisionsRise'
    <3> SUFFICES ASSUME NEW m \in DOMAIN log', NEW n \in DOMAIN log', m < n,
                        \A k \in m .. n : log'[k].kind = "publish"
                 PROVE  RevisionPublished(m)' < RevisionPublished(n)'
      BY DEF RevisionsRise
    <3>1. log'[m].kind = "publish" /\ log'[n].kind = "publish"
      BY <2>2
    <3>2. m \in DOMAIN log /\ n \in DOMAIN log
      BY <2>3, <3>1
    <3>3. \A k \in m .. n : log[k].kind = "publish"
      BY <2>2, <3>2
    <3> QED
      BY <2>3, <3>1, <3>2, <3>3 DEF RevisionsRise
  <2> QED
    BY <2>4, <2>5
<1>7. CASE Erases
  <2>1. PICK p \in Erasable : Erase(p)
    BY <1>7 DEF Erases
  <2>2. UNCHANGED <<log, active>> /\ draft.revision <= draft'.revision
    BY <1>1, <1>2, <2>1 DEF Erase
  <2>3. /\ DOMAIN versions' = DOMAIN versions
        /\ \A n \in DOMAIN versions : /\ versions'[n].revision = versions[n].revision
                                      /\ versions'[n].from = versions[n].from
    BY <2>1, AVersion DEF Erase, Version
  <2> QED
    BY <1>1, <2>2, <2>3, LogKept
<1>8. CASE UNCHANGED lifecycle
  BY <1>1, <1>8, LogKept DEF lifecycle
<1>9. Edits \/ Publishes \/ Erases \/ UNCHANGED lifecycle
  BY DEF Next, vars, Edit, Publish, EraseId, Revoke, Forget, Expire, Begin, Lookup, ReadRow, Resolve,
         LoadFails, Got, Restart, FetchUnchanged
<1> QED
  BY <1>3, <1>4, <1>5, <1>6, <1>7, <1>8, <1>9 DEF Publishes

(* A publish that is retried creates one version of its revision, whoever      *)
(* edits, erases, rolls back and unpublishes in between (publishDraft).        *)
THEOREM RevisionsPublishOnce == Spec => []RevisionPublishedOnce
<1>1. Init => LogNamesVersions /\ RevisionsRise
  BY DEF Init, LifecycleInit, LogNamesVersions, RevisionsRise
<1>2. IndInv /\ IndInv' /\ LogNamesVersions /\ RevisionsRise /\ [Next]_vars
         => LogNamesVersions' /\ RevisionsRise'
  BY StepKeepsLog DEF IndInv, TypeOK
<1>3. IndInv /\ LogNamesVersions /\ RevisionsRise => RevisionPublishedOnce
  <2> SUFFICES ASSUME IndInv, LogNamesVersions, RevisionsRise,
                      NEW m \in DOMAIN log, NEW n \in DOMAIN log, m < n,
                      log[m].kind = "publish", log[n].kind = "publish",
                      RevisionPublished(m) = RevisionPublished(n),
                      \A k \in m + 1 .. n - 1 : log[k].kind = "publish"
               PROVE  FALSE
    BY DEF RevisionPublishedOnce, RevisionPublished
  <2>1. LifecycleTypeOK /\ log \in Seq(Activity)
    BY DEF IndInv, TypeOK, LifecycleTypeOK
  <2>2. m \in Nat /\ n \in Nat
    BY <2>1
  <2>3. \A k \in m .. n : log[k].kind = "publish"
    BY <2>2
  <2>4. RevisionPublished(n) \in Nat /\ RevisionPublished(m) < RevisionPublished(n)
    BY <2>1, <2>3, AVersion DEF LogNamesVersions, RevisionsRise, RevisionPublished, Version
  <2> QED
    BY <2>4
<1> QED
  BY <1>1, <1>2, <1>3, Invariant, PTL DEF Spec

-----------------------------------------------------------------------------
(* The clients                                                                *)

\* What a state resolves to for a user is nothing, or is that user's.
LEMMA ValueIsFor ==
    ASSUME NEW v \in ActiveVersion, NEW u \in User
    PROVE  ValueOf(v, u) \in Value /\ For(ValueOf(v, u), u)
  BY DEF ValueOf, Value, For

LEMMA AnswerTyped ==
    ASSUME NEW v \in ActiveVersion, NEW u \in User
    PROVE  AnswerFor(v, u) \in Answer
  BY ValueIsFor DEF AnswerFor, Answer

LEMMA ClosedTyped ==
    ASSUME Shape
    PROVE  Closed \in Client
  BY DEF Shape, Closed, Client

(* An answer received is active as it is, or it is staged and what was active *)
(* keeps its held value, its etag and its user.                               *)
LEMMA Received ==
    ASSUME Shape, NEW m \in Client, NEW a \in Answer, NEW uc \in BOOLEAN
    PROVE  LET n == Receive(m, a, uc)
           IN  /\ n \in Client
               /\ n.open = m.open /\ n.user = m.user /\ n.read = m.read
               /\ n.switched = m.switched /\ n.sent = m.sent
               /\ \/ n.active = a /\ n.staged = Nothing
                  \/ /\ n.staged = a /\ ~uc
                     /\ n.active = IF m.active = Nothing THEN [a EXCEPT !.held = Nothing]
                                   ELSE [m.active EXCEPT !.live = a.live]
               /\ ~uc /\ m.read /\ Held(n) # Held(m) => n.active = a /\ a.version \in Unpublished
<1> DEFINE patched == IF m.active = Nothing THEN [a EXCEPT !.held = Nothing] ELSE [m.active EXCEPT !.live = a.live]
           atOnce  == uc \/ a.version \in Unpublished \/ (~m.answered /\ ~m.read)
           n       == Receive(m, a, uc)
<1>0. a # Nothing
  BY DEF Shape
<1>1. patched \in Answer
  BY DEF Answer, Client, Value
<1>2. CASE atOnce \/ <<patched.held, patched.live>> = <<a.held, a.live>>
  <2>1. n = [m EXCEPT !.active = a, !.staged = Nothing, !.answered = TRUE]
    BY <1>2 DEF Receive
  <2>2. n \in Client
    BY <2>1 DEF Client
  <2>3. /\ n.open = m.open /\ n.user = m.user /\ n.read = m.read /\ n.switched = m.switched
        /\ n.sent = m.sent /\ n.active = a /\ n.staged = Nothing
    BY <2>1 DEF Client
  <2>4. ASSUME ~uc, m.read, a.version \notin Unpublished
        PROVE  Held(n) = Held(m)
    <3>1. patched.held = a.held
      BY <1>2, <2>4
    <3>2. a.held = Held(m)
      BY <3>1 DEF Held, Answer, Client
    <3>3. Held(n) = a.held
      BY <2>3, <1>0 DEF Held
    <3> QED
      BY <3>2, <3>3
  <2> QED
    BY <2>2, <2>3, <2>4
<1>3. CASE ~(atOnce \/ <<patched.held, patched.live>> = <<a.held, a.live>>)
  <2>1. n = [m EXCEPT !.active = patched, !.staged = a, !.answered = TRUE]
    BY <1>3 DEF Receive
  <2>2. n \in Client
    BY <2>1, <1>1 DEF Client
  <2>3. /\ n.open = m.open /\ n.user = m.user /\ n.read = m.read /\ n.switched = m.switched
        /\ n.sent = m.sent /\ n.active = patched /\ n.staged = a /\ ~uc
    BY <2>1, <1>3 DEF Client
  <2>4. Held(n) = Held(m)
    <3>1. patched # Nothing /\ Held(n) = patched.held
      BY <2>3, <1>1 DEF Held, Shape
    <3>2. patched.held = Held(m)
      BY DEF Held, Answer, Client
    <3> QED
      BY <3>1, <3>2
  <2> QED
    BY <2>2, <2>3, <2>4
<1> QED
  BY <1>2, <1>3

\* A closed page holds nothing that could be another user's.
LEMMA ClosedFits ==
    ASSUME Shape
    PROVE  Closed \in Client /\ Consistent(Closed) /\ Owned(Closed)
  BY ClosedTyped DEF Closed, Consistent, Owned, OwnHeld, EtagOfHeld, SwitchAnswered, StagedForUser,
                     ActiveForUser, AskedAbout, Held, For

\* At the start every page is closed and nothing is stored.
LEMMA InitHolds ==
    ASSUME Shape, ClientInit
    PROVE  ClientIndInv
<1>1. ClientTypeOK
  <2>1. published \in ActiveVersion /\ 0 \in 0 .. MaxFaults /\ 0 \in 0 .. MaxSwitches
    BY DEF ClientInit, Shape, ActiveVersion
  <2> QED
    BY <2>1, ClosedTyped DEF ClientInit, ClientTypeOK
<1>2. \A t \in Tab : Consistent(tab[t]) /\ Owned(tab[t])
  BY ClosedFits DEF ClientInit
<1> QED
  BY <1>1, <1>2 DEF ClientInit, ClientIndInv, OwnHeld, EtagOfHeld

(* A step that gives a tab a client that fits, whether it writes the shared   *)
(* record or not: the other tabs are at most told.                            *)
LEMMA FittingClient ==
    ASSUME Shape, ClientIndInv, NEW t \in Tab, NEW m \in Client,
           ~m.open => m = Closed,
           Consistent(m), ~crossed' => Owned(m),
           (Put(t, m) /\ UNCHANGED record) \/ PutAndPersist(t, m),
           published' \in ActiveVersion, faults' \in 0 .. MaxFaults, switches' \in 0 .. MaxSwitches,
           crossed' \in BOOLEAN, crossed => crossed'
    PROVE  ClientIndInv'
<1>1. /\ tab' \in [Tab -> Client]
      /\ tab'[t] = m
      /\ \A u \in Tab \ {t} : tab'[u] = tab[u] \/ tab'[u] = [tab[u] EXCEPT !.told = tab[u].open]
      /\ record' = record \/ record' = [active |-> m.active, staged |-> m.staged]
  BY DEF ClientIndInv, ClientTypeOK, Put, PutAndPersist, Client
<1>2. \A u \in Tab : ~tab'[u].open => tab'[u] = Closed
  <2> SUFFICES ASSUME NEW u \in Tab \ {t}, ~tab'[u].open PROVE tab'[u] = Closed
    BY <1>1
  <2>1. tab[u] \in Client /\ ~tab[u].open
    BY <1>1 DEF ClientIndInv, ClientTypeOK, Client
  <2>2. tab[u] = Closed
    BY <2>1 DEF ClientIndInv, ClientTypeOK
  <2> QED
    BY <1>1, <2>2 DEF Closed
<1>3. ClientTypeOK'
  BY <1>1, <1>2 DEF ClientIndInv, ClientTypeOK, Client
<1>4. \A u \in Tab : Consistent(tab'[u])
  <2> SUFFICES ASSUME NEW u \in Tab \ {t} PROVE Consistent(tab'[u])
    BY <1>1
  <2>1. tab[u] \in Client /\ Consistent(tab[u])
    BY DEF ClientIndInv, ClientTypeOK
  <2> QED
    BY <1>1, <2>1 DEF Client, Consistent, SwitchAnswered, EtagOfHeld
<1>5. ASSUME ~crossed' PROVE \A u \in Tab : Owned(tab'[u])
  <2> SUFFICES ASSUME NEW u \in Tab \ {t} PROVE Owned(tab'[u])
    BY <1>1, <1>5
  <2>1. tab[u] \in Client /\ Owned(tab[u])
    BY <1>5 DEF ClientIndInv, ClientTypeOK
  <2> QED
    BY <1>1, <2>1 DEF Client, Owned, OwnHeld, StagedForUser, ActiveForUser, AskedAbout, AsksAbout, Held
<1>6. EtagOfHeld(record'.active) /\ EtagOfHeld(record'.staged)
  BY <1>1 DEF ClientIndInv, Consistent
<1>7. ~crossed' => OwnHeld(record'.active) /\ OwnHeld(record'.staged)
  BY <1>1 DEF ClientIndInv, Owned
<1> QED
  BY <1>3, <1>4, <1>5, <1>6, <1>7 DEF ClientIndInv, EtagOfHeld, OwnHeld, Consistent, Owned,
     SwitchAnswered, StagedForUser, ActiveForUser, AskedAbout, AsksAbout, Held, For

\* A launch takes a stored answer of its user, or any while nobody is signed in.
LEMMA LaunchKeeps ==
    ASSUME Shape, ClientIndInv, NEW t \in Tab, NEW u \in User, Launch(t, u)
    PROVE  ClientIndInv'
<1> DEFINE Suits(a) == a # Nothing /\ (u = NoUser \/ a.user = u)
           chosen   == IF Suits(record.staged) THEN record.staged
                       ELSE IF Suits(record.active) THEN record.active ELSE Nothing
           m        == [Closed EXCEPT !.open = TRUE, !.user = u, !.active = chosen]
<1>1. /\ chosen \in {record.active, record.staged, Nothing}
      /\ chosen # Nothing => u = NoUser \/ chosen.user = u
      /\ chosen \in Answer \cup {Nothing}
  BY DEF ClientIndInv, ClientTypeOK
<1>2. EtagOfHeld(chosen) /\ (~crossed => OwnHeld(chosen))
  BY <1>1 DEF ClientIndInv, EtagOfHeld, OwnHeld
<1>3. (Put(t, m) /\ UNCHANGED record) \/ PutAndPersist(t, m)
  BY DEF Launch
<1> HIDE DEF chosen
<1>4. m \in Client
  BY <1>1, ClosedTyped DEF Client
<1>5. Consistent(m)
  BY <1>2 DEF Consistent, SwitchAnswered, EtagOfHeld, Closed
<1>6. ~crossed' => Owned(m)
  BY <1>1, <1>2 DEF Launch, Owned, OwnHeld, StagedForUser, ActiveForUser, AskedAbout, Held, Closed, For
<1>7. m.open
  BY DEF Closed
<1> QED
  BY <1>3, <1>4, <1>5, <1>6, <1>7, FittingClient DEF Launch, ClientIndInv, ClientTypeOK

LEMMA CloseKeeps ==
    ASSUME Shape, ClientIndInv, NEW t \in Tab, Close(t)
    PROVE  ClientIndInv'
<1>1. faults' \in 0 .. MaxFaults
  BY DEF Close, ClientIndInv, ClientTypeOK, Shape
<1> QED
  BY <1>1, ClosedFits, FittingClient DEF Close, ClientIndInv, ClientTypeOK

(* A client that differs from one that fits in neither its user, its answers  *)
(* nor its fetch fits.                                                        *)
LEMMA SameAnswersFit ==
    ASSUME NEW m \in Client, NEW n \in Client,
           n.user = m.user, n.active = m.active, n.staged = m.staged, n.sent = m.sent,
           n.switched = m.switched
    PROVE  /\ Consistent(m) => Consistent(n)
           /\ Owned(m) => Owned(n)
  BY DEF Consistent, SwitchAnswered, EtagOfHeld, Owned, OwnHeld, StagedForUser, ActiveForUser,
         AskedAbout, AsksAbout, Held

LEMMA ReadKeeps ==
    ASSUME Shape, ClientIndInv, NEW t \in Tab, Read(t)
    PROVE  ClientIndInv'
<1> DEFINE m == [tab[t] EXCEPT !.read = TRUE]
<1>1. tab[t] \in Client /\ Consistent(tab[t]) /\ (~crossed => Owned(tab[t]))
  BY DEF ClientIndInv, ClientTypeOK
<1>2. m \in Client /\ m.open
  BY <1>1 DEF Client, Read
<1>3. /\ m.user = tab[t].user /\ m.active = tab[t].active /\ m.staged = tab[t].staged
      /\ m.sent = tab[t].sent /\ m.switched = tab[t].switched
  BY <1>1 DEF Client
<1>4. Put(t, m) /\ UNCHANGED record
  BY DEF Read
<1> HIDE DEF m
<1>5. Consistent(m) /\ (~crossed => Owned(m))
  BY <1>1, <1>2, <1>3, SameAnswersFit
<1> QED
  BY <1>2, <1>4, <1>5, FittingClient DEF Read, ClientIndInv, ClientTypeOK

\* What is activated was staged for the user of its tab.
LEMMA ActivatedFits ==
    ASSUME NEW m \in Client, Consistent(m)
    PROVE  /\ Activated(m) \in Client /\ Consistent(Activated(m))
           /\ Owned(m) => Owned(Activated(m))
           /\ Activated(m).open = m.open /\ Activated(m).sent = m.sent
           /\ Activated(m).staged = Nothing
           /\ Held(Activated(m)) = IF m.staged = Nothing THEN Held(m) ELSE m.staged.held
           /\ Activated(m).switched = m.switched /\ Activated(m).user = m.user
  BY DEF Activated, Client, Consistent, SwitchAnswered, EtagOfHeld, Owned, OwnHeld, StagedForUser,
         ActiveForUser, AskedAbout, AsksAbout, Held, For

LEMMA ActivateKeeps ==
    ASSUME Shape, ClientIndInv, NEW t \in Tab, Activate(t)
    PROVE  ClientIndInv'
<1>1. tab[t] \in Client /\ Consistent(tab[t]) /\ (~crossed => Owned(tab[t]))
  BY DEF ClientIndInv, ClientTypeOK
<1>2. /\ Activated(tab[t]) \in Client /\ Consistent(Activated(tab[t]))
      /\ ~crossed => Owned(Activated(tab[t]))
      /\ Activated(tab[t]).open
  BY <1>1, ActivatedFits DEF Activate
<1> QED
  BY <1>2, FittingClient DEF Activate, ClientIndInv, ClientTypeOK

\* A change of user drops what is staged and leaves the fetch in flight behind.
LEMMA SetUserIdKeeps ==
    ASSUME Shape, ClientIndInv, NEW t \in Tab, NEW u \in User, SetUserId(t, u)
    PROVE  ClientIndInv'
<1> DEFINE old == tab[t]
           m == [old EXCEPT !.user = u, !.switched = TRUE, !.staged = Nothing,
                            !.sent = IF @ = Nothing THEN Nothing ELSE [@ EXCEPT !.left = TRUE]]
<1>1. old \in Client /\ Consistent(old) /\ (~crossed => Owned(old)) /\ old.open
  BY DEF ClientIndInv, ClientTypeOK, SetUserId
<1>2. m \in Client
  BY <1>1 DEF Client, Request
<1>3. /\ m.user = u /\ m.switched /\ m.staged = Nothing /\ m.active = old.active /\ m.open
      /\ m.sent # Nothing => m.sent.left
  BY <1>1 DEF Client, Request
<1>4. (Put(t, m) /\ UNCHANGED record) \/ PutAndPersist(t, m)
  BY DEF SetUserId
<1>5. switches' \in 0 .. MaxSwitches
  BY DEF SetUserId, ClientIndInv, ClientTypeOK, Shape
<1> HIDE DEF m
<1>6. Consistent(m)
  BY <1>1, <1>3 DEF Consistent, SwitchAnswered, EtagOfHeld
<1>7. ~crossed => Owned(m)
  BY <1>1, <1>3 DEF Owned, OwnHeld, StagedForUser, ActiveForUser, AskedAbout
<1> QED
  BY <1>2, <1>3, <1>4, <1>5, <1>6, <1>7, FittingClient DEF SetUserId, ClientIndInv, ClientTypeOK

(* A client that receives an answer of its user fits, whether what is active  *)
(* was that user's or the answer ends a change of user.                       *)
LEMMA ReceivedFits ==
    ASSUME Shape, NEW m \in Client, NEW a \in Answer, NEW uc \in BOOLEAN,
           SwitchAnswered(m), EtagOfHeld(m.active), EtagOfHeld(a)
    PROVE  LET n == Receive(m, a, uc)
           IN  /\ Consistent(n)
               /\ OwnHeld(a) /\ a.user = m.user /\ OwnHeld(m.active) /\ (uc \/ ActiveForUser(m))
                  => Owned(n)
<1> DEFINE n == Receive(m, a, uc)
<1>1. /\ n \in Client /\ n.user = m.user /\ n.switched = m.switched /\ n.sent = m.sent
      /\ \/ n.active = a /\ n.staged = Nothing
         \/ /\ n.staged = a /\ ~uc
            /\ n.active = IF m.active = Nothing THEN [a EXCEPT !.held = Nothing]
                          ELSE [m.active EXCEPT !.live = a.live]
  BY Received
<1>2. a # Nothing /\ m.active \in Answer \cup {Nothing}
  BY DEF Shape, Client
<1> HIDE DEF n
<1>3. CASE n.active = a /\ n.staged = Nothing
  <2>1. Consistent(n)
    BY <1>1, <1>3 DEF Consistent, SwitchAnswered, EtagOfHeld
  <2>2. ASSUME OwnHeld(a), a.user = m.user PROVE For(Held(n), n.user)
    BY <1>1, <1>2, <1>3, <2>2 DEF Held, OwnHeld
  <2>3. OwnHeld(a) /\ a.user = m.user => Owned(n)
    BY <1>1, <1>2, <1>3, <2>2
       DEF Owned, OwnHeld, StagedForUser, ActiveForUser, AskedAbout, AsksAbout
  <2> QED
    BY <2>1, <2>3 DEF n
<1>4. CASE /\ n.staged = a /\ ~uc
           /\ n.active = IF m.active = Nothing THEN [a EXCEPT !.held = Nothing]
                         ELSE [m.active EXCEPT !.live = a.live]
  <2>1. n.active # Nothing /\ Held(n) = Held(m)
    <3>1. n.active \in Answer
      BY <1>2, <1>4 DEF Answer, Value
    <3>2. n.active.held = Held(m)
      BY <1>2, <1>4 DEF Answer, Held
    <3> QED
      BY <3>1, <3>2 DEF Shape, Held
  <2>2. EtagOfHeld(n.active) /\ (OwnHeld(m.active) => OwnHeld(n.active))
    BY <1>2, <1>4 DEF EtagOfHeld, OwnHeld, Answer, For
  <2>3. Consistent(n)
    BY <1>1, <1>4, <2>2 DEF Consistent, SwitchAnswered, EtagOfHeld
  <2>4. OwnHeld(a) /\ a.user = m.user /\ OwnHeld(m.active) /\ (uc \/ ActiveForUser(m)) => Owned(n)
    BY <1>1, <1>2, <1>4, <2>1, <2>2
       DEF Owned, OwnHeld, StagedForUser, ActiveForUser, AskedAbout, AsksAbout
  <2> QED
    BY <2>3, <2>4 DEF n
<1> QED
  BY <1>1, <1>3, <1>4

\* An answer adopted from the record was stored for the same user.
LEMMA AdoptedFits ==
    ASSUME Shape, ClientIndInv, NEW m \in Client, Consistent(m), ~crossed => Owned(m), Adopts(m)
    PROVE  LET n == Receive(m, Newest(record), FALSE)
           IN  /\ n \in Client /\ n.open = m.open /\ Consistent(n)
               /\ ~crossed => Owned(n)
<1> DEFINE a == Newest(record)
<1>1. a \in Answer /\ a.user = m.user /\ EtagOfHeld(a) /\ (~crossed => OwnHeld(a))
  BY DEF Adopts, Bound, Newest, ClientIndInv, ClientTypeOK
<1> HIDE DEF a
<1>2. SwitchAnswered(m) /\ EtagOfHeld(m.active)
  BY DEF Consistent
<1>3. Receive(m, a, FALSE) \in Client /\ Receive(m, a, FALSE).open = m.open
  BY <1>1, Received
<1>4. /\ Consistent(Receive(m, a, FALSE))
      /\ OwnHeld(a) /\ a.user = m.user /\ OwnHeld(m.active) /\ ActiveForUser(m)
         => Owned(Receive(m, a, FALSE))
  BY <1>1, <1>2, ReceivedFits
<1> QED
  BY <1>1, <1>3, <1>4 DEF Owned, a

LEMMA StorageChangedKeeps ==
    ASSUME Shape, ClientIndInv, NEW t \in Tab, StorageChanged(t)
    PROVE  ClientIndInv'
<1> DEFINE m == [tab[t] EXCEPT !.told = FALSE]
<1>1. tab[t] \in Client /\ Consistent(tab[t]) /\ (~crossed => Owned(tab[t]))
  BY DEF ClientIndInv, ClientTypeOK
<1>2. m \in Client /\ m.open
  BY <1>1 DEF Client, StorageChanged
<1>3. /\ m.user = tab[t].user /\ m.active = tab[t].active /\ m.staged = tab[t].staged
      /\ m.sent = tab[t].sent /\ m.switched = tab[t].switched
  BY <1>1 DEF Client
<1>4. IF Adopts(m) THEN PutAndPersist(t, Receive(m, Newest(record), FALSE))
      ELSE Put(t, m) /\ UNCHANGED record
  BY DEF StorageChanged
<1> HIDE DEF m
<1>5. Consistent(m) /\ (~crossed => Owned(m))
  BY <1>1, <1>2, <1>3, SameAnswersFit
<1>6. /\ published' \in ActiveVersion /\ faults' \in 0 .. MaxFaults /\ switches' \in 0 .. MaxSwitches
      /\ crossed' = crossed /\ crossed \in BOOLEAN
  BY DEF StorageChanged, ClientIndInv, ClientTypeOK
<1>7. CASE Adopts(m)
  <2> DEFINE n == Receive(m, Newest(record), FALSE)
  <2>1. n \in Client /\ n.open /\ Consistent(n) /\ (~crossed => Owned(n))
    BY <1>2, <1>5, <1>7, AdoptedFits
  <2>2. PutAndPersist(t, n)
    BY <1>4, <1>7
  <2> HIDE DEF n
  <2> QED
    BY <1>6, <2>1, <2>2, FittingClient
<1>8. CASE ~Adopts(m)
  BY <1>2, <1>4, <1>5, <1>6, <1>8, FittingClient
<1> QED
  BY <1>7, <1>8

LEMMA SkipKeeps ==
    ASSUME Shape, ClientIndInv, NEW t \in Tab, Skip(t)
    PROVE  ClientIndInv'
<1> DEFINE m == tab[t]
           k == [m EXCEPT !.answered = TRUE]
<1>1. m \in Client /\ m.open /\ Consistent(m) /\ (~crossed => Owned(m))
  BY DEF ClientIndInv, ClientTypeOK, Skip
<1>2. k \in Client /\ k.open
  BY <1>1 DEF Client
<1>3. /\ k.user = m.user /\ k.active = m.active /\ k.staged = m.staged
      /\ k.sent = m.sent /\ k.switched = m.switched
  BY <1>1 DEF Client
<1>4. IF Adopts(m) THEN PutAndPersist(t, Receive(m, Newest(record), FALSE))
      ELSE Put(t, k) /\ UNCHANGED record
  BY DEF Skip
<1> HIDE DEF m, k
<1>5. Consistent(k) /\ (~crossed => Owned(k))
  BY <1>1, <1>2, <1>3, SameAnswersFit
<1>6. /\ published' \in ActiveVersion /\ faults' \in 0 .. MaxFaults /\ switches' \in 0 .. MaxSwitches
      /\ crossed' = crossed /\ crossed \in BOOLEAN
  BY DEF Skip, ClientIndInv, ClientTypeOK
<1>7. CASE Adopts(m)
  <2> DEFINE n == Receive(m, Newest(record), FALSE)
  <2>1. n \in Client /\ n.open /\ Consistent(n) /\ (~crossed => Owned(n))
    BY <1>1, <1>7, AdoptedFits
  <2>2. PutAndPersist(t, n)
    BY <1>4, <1>7
  <2> HIDE DEF n
  <2> QED
    BY <1>6, <2>1, <2>2, FittingClient
<1>8. CASE ~Adopts(m)
  BY <1>2, <1>4, <1>5, <1>6, <1>8, FittingClient
<1> QED
  BY <1>7, <1>8

\* A fetch carries the etag of what is held, so its "not modified" speaks of that.
LEMMA FetchingFits ==
    ASSUME ClientIndInv, NEW m \in Client, Consistent(m)
    PROVE  /\ Fetching(m) \in Client /\ Fetching(m).open = m.open
           /\ Consistent(Fetching(m))
           /\ Owned(m) => Owned(Fetching(m))
<1>1. Etag(Newest(m)) \in Value \cup {NoEtag} /\ published \in ActiveVersion
  BY DEF Etag, Newest, Client, Answer, ClientIndInv, ClientTypeOK
<1>2. Fetching(m) \in Client
  BY <1>1 DEF Fetching, Client, Request
<1>3. /\ Fetching(m).open = m.open /\ Fetching(m).user = m.user /\ Fetching(m).active = m.active
      /\ Fetching(m).staged = m.staged /\ Fetching(m).switched = m.switched
      /\ Fetching(m).sent.switched = m.switched /\ Fetching(m).sent.etag = Etag(Newest(m))
  BY DEF Fetching, Client
<1> QED
  BY <1>2, <1>3 DEF Consistent, SwitchAnswered, EtagOfHeld, Owned, OwnHeld, StagedForUser,
                    ActiveForUser, AskedAbout, AsksAbout, Held, Newest

LEMMA FetchKeeps ==
    ASSUME Shape, ClientIndInv, NEW t \in Tab, FetchAfter(t) \/ Refetch(t)
    PROVE  ClientIndInv'
<1>1. tab[t] \in Client /\ Consistent(tab[t]) /\ (~crossed => Owned(tab[t]))
  BY DEF ClientIndInv, ClientTypeOK
<1>2. tab[t].open
  BY DEF FetchAfter, Refetch, ClientIndInv, ClientTypeOK, Closed
<1>3. /\ Put(t, Fetching(tab[t]))
      /\ UNCHANGED <<published, record, faults, switches, crossed>>
  BY DEF FetchAfter, Refetch
<1> QED
  BY <1>1, <1>2, <1>3, FetchingFits, FittingClient DEF ClientIndInv, ClientTypeOK

\* What the server replies was resolved for the user who asked.
LEMMA Replied ==
    ASSUME Shape, ClientIndInv, NEW r \in Request, NEW a \in Replies(r)
    PROVE  /\ a \in Answer /\ a.user = r.user /\ EtagOfHeld(a) /\ OwnHeld(a)
           /\ Etag(a) = a.etag /\ For(a.etag, r.user)
<1>1. PICK v \in r.since .. published : a = AnswerFor(v, r.user)
  BY DEF Replies
<1>2. v \in ActiveVersion /\ r.user \in User
  BY DEF Request, ActiveVersion, ClientIndInv, ClientTypeOK, Shape
<1>3. a \in Answer /\ For(ValueOf(v, r.user), r.user)
  BY <1>1, <1>2, AnswerTyped, ValueIsFor
<1>4. a.user = r.user /\ a.held = ValueOf(v, r.user) /\ a.etag = ValueOf(v, r.user)
  BY <1>1 DEF AnswerFor
<1>5. a # Nothing
  BY <1>3 DEF Shape
<1> QED
  BY <1>3, <1>4, <1>5 DEF EtagOfHeld, OwnHeld, Etag

LEMMA ArrivesKeeps ==
    ASSUME Shape, ClientIndInv, NEW t \in Tab, Arrives(t)
    PROVE  ClientIndInv'
<1> DEFINE m == tab[t]
           e == Ended(m)
           uc == m.sent.switched
<1>1. m \in Client /\ Consistent(m) /\ (~crossed => Owned(m)) /\ m.sent # Nothing
  BY DEF ClientIndInv, ClientTypeOK, Arrives
<1>2. m.open
  BY <1>1 DEF ClientIndInv, ClientTypeOK, Closed
<1>3. m.sent \in Request /\ uc \in BOOLEAN /\ m.sent.user = m.user
  BY <1>1 DEF Client, Request, Arrives
<1>4. PICK a \in Replies(m.sent) : PutAndPersist(t, Receive(e, a, uc))
  BY DEF Arrives
<1>5. /\ a \in Answer /\ a.user = m.user /\ EtagOfHeld(a) /\ OwnHeld(a)
  BY <1>3, <1>4, Replied
<1>6. /\ e \in Client /\ e.open = m.open /\ e.user = m.user /\ e.active = m.active
      /\ e.sent = Nothing /\ e.switched = (m.switched /\ ~uc)
  BY <1>1, <1>3 DEF Ended, Client
<1>7. /\ published' \in ActiveVersion /\ faults' \in 0 .. MaxFaults /\ switches' \in 0 .. MaxSwitches
      /\ crossed' = crossed /\ crossed \in BOOLEAN
  BY DEF Arrives, ClientIndInv, ClientTypeOK
<1> HIDE DEF m, e, uc
<1>8. SwitchAnswered(e) /\ EtagOfHeld(e.active)
  BY <1>1, <1>6 DEF Consistent, SwitchAnswered
<1>9. Owned(m) => OwnHeld(e.active) /\ (uc \/ ActiveForUser(e))
  BY <1>3, <1>6 DEF Owned, ActiveForUser, Held
<1> DEFINE n == Receive(e, a, uc)
<1>10. n \in Client /\ n.open
  BY <1>2, <1>3, <1>5, <1>6, Received
<1>11. Consistent(n) /\ (~crossed => Owned(n))
  BY <1>1, <1>3, <1>5, <1>6, <1>8, <1>9, ReceivedFits
<1>12. PutAndPersist(t, n)
  BY <1>4
<1> HIDE DEF n
<1> QED
  BY <1>7, <1>10, <1>11, <1>12, FittingClient

(* "Not modified" names what is held this user's: it is, or the fetch asked   *)
(* about it and the server resolves the same for this user.                   *)
LEMMA NotModifiedKeeps ==
    ASSUME Shape, ClientIndInv, NEW t \in Tab, NotModified(t)
    PROVE  ClientIndInv'
<1> DEFINE m == tab[t]
           named == IF m.staged # Nothing THEN [m EXCEPT !.staged.user = m.user]
                    ELSE IF m.active # Nothing THEN [m EXCEPT !.active.user = m.user] ELSE m
           nxt == IF m.sent.switched THEN Activated(named) ELSE named
           n == Ended([nxt EXCEPT !.answered = TRUE])
<1>1. m \in Client /\ Consistent(m) /\ (~crossed => Owned(m)) /\ m.sent # Nothing
  BY DEF ClientIndInv, ClientTypeOK, NotModified
<1>2. m.open
  BY <1>1 DEF ClientIndInv, ClientTypeOK, Closed
<1>3. m.sent \in Request /\ m.sent.user = m.user
  BY <1>1 DEF Client, NotModified
<1>4. PICK a \in Replies(m.sent) : Etag(a) = m.sent.etag
  BY DEF NotModified
<1>5. For(m.sent.etag, m.user)
  BY <1>3, <1>4, Replied
<1>6. /\ PutAndPersist(t, n)
      /\ crossed' = (crossed \/ m.sent.left)
      /\ published' \in ActiveVersion /\ faults' \in 0 .. MaxFaults /\ switches' \in 0 .. MaxSwitches
      /\ crossed' \in BOOLEAN /\ (crossed => crossed')
  BY <1>3 DEF NotModified, ClientIndInv, ClientTypeOK, Request
<1> HIDE DEF m
<1>7. /\ named \in Client /\ named.open = m.open /\ named.user = m.user
      /\ named.sent = m.sent /\ named.switched = m.switched
      /\ IF m.staged # Nothing THEN named.staged = [m.staged EXCEPT !.user = m.user]
                                 /\ named.staged # Nothing /\ named.active = m.active
         ELSE /\ named.staged = Nothing
              /\ named.active = IF m.active # Nothing THEN [m.active EXCEPT !.user = m.user] ELSE Nothing
  <2>1. CASE m.staged # Nothing
    <3>1. m.staged \in Answer /\ [m.staged EXCEPT !.user = m.user] \in Answer
      BY <1>1, <2>1 DEF Client, Answer
    <3>2. named = [m EXCEPT !.staged = [m.staged EXCEPT !.user = m.user]]
      BY <2>1
    <3>3. [m.staged EXCEPT !.user = m.user] # Nothing
      BY <3>1 DEF Shape
    <3> QED
      BY <1>1, <2>1, <3>1, <3>2, <3>3 DEF Client
  <2>2. CASE m.staged = Nothing /\ m.active # Nothing
    <3>1. m.active \in Answer /\ [m.active EXCEPT !.user = m.user] \in Answer
      BY <1>1, <2>2 DEF Client, Answer
    <3>2. named = [m EXCEPT !.active = [m.active EXCEPT !.user = m.user]]
      BY <2>2
    <3> QED
      BY <1>1, <2>2, <3>1, <3>2 DEF Client
  <2>3. CASE m.staged = Nothing /\ m.active = Nothing
    BY <1>1, <2>3
  <2> QED
    BY <2>1, <2>2, <2>3
<1>8. EtagOfHeld(named.active) /\ EtagOfHeld(named.staged)
  BY <1>1, <1>7 DEF Consistent, EtagOfHeld, Client, Answer
<1>9. ASSUME ~crossed'
      PROVE  /\ OwnHeld(named.active) /\ OwnHeld(named.staged)
             /\ named.staged # Nothing => named.staged.user = m.user
             /\ named.staged = Nothing => For(Held(named), m.user)
             /\ m.user # NoUser /\ ~m.switched => For(Held(named), m.user)
  <2>1. Owned(m) /\ AsksAbout(m)
    BY <1>1, <1>3, <1>6, <1>9 DEF Request, Owned, AskedAbout
  <2>2. CASE m.staged # Nothing
    <3>1. named.active = m.active /\ Held(named) = Held(m)
      BY <1>7, <2>2 DEF Held
    <3>2. named.staged.held = m.staged.held /\ named.staged.user = m.user /\ named.staged # Nothing
      BY <1>1, <1>7, <2>2 DEF Client, Answer
    <3> QED
      BY <2>1, <2>2, <3>1, <3>2 DEF Owned, OwnHeld, StagedForUser, ActiveForUser
  <2>3. CASE m.staged = Nothing
    <3>1. Held(named) = Held(m)
      <4>1. CASE m.active = Nothing
        BY <1>7, <2>3, <4>1 DEF Held
      <4>2. CASE m.active # Nothing
        <5>1. m.active \in Answer /\ named.active = [m.active EXCEPT !.user = m.user]
          BY <1>1, <1>7, <2>3, <4>2 DEF Client
        <5>2. named.active \in Answer /\ named.active.held = m.active.held
          BY <1>1, <5>1 DEF Client, Answer
        <5> QED
          BY <4>2, <5>2 DEF Held, Shape
      <4> QED
        BY <4>1, <4>2
    <3>2. For(Held(m), m.user)
      <4>1. CASE m.active = Nothing
        BY <4>1 DEF Held, For
      <4>2. CASE m.active # Nothing /\ m.sent.etag = Etag(m.active)
        <5>1. For(m.active.etag, m.user) /\ m.active.held \in {Nothing, m.active.etag}
          BY <1>1, <1>5, <4>2 DEF Etag, Consistent, EtagOfHeld
        <5> QED
          BY <4>2, <5>1 DEF Held, For
      <4> QED
        BY <2>1, <2>3, <4>1, <4>2 DEF AsksAbout
    <3>3. OwnHeld(named.active)
      <4>1. CASE m.active = Nothing
        BY <1>7, <2>3, <4>1 DEF OwnHeld
      <4>2. CASE m.active # Nothing
        <5>1. m.active \in Answer /\ named.active = [m.active EXCEPT !.user = m.user]
          BY <1>1, <1>7, <2>3, <4>2 DEF Client
        <5>2. named.active.held = Held(m) /\ named.active.user = m.user
          BY <1>1, <4>2, <5>1 DEF Answer, Held
        <5> QED
          BY <3>2, <5>2 DEF OwnHeld
      <4> QED
        BY <4>1, <4>2
    <3> QED
      BY <1>7, <2>3, <3>1, <3>2, <3>3 DEF OwnHeld
  <2> QED
    BY <2>2, <2>3
<1> HIDE DEF named
<1>10. /\ nxt \in Client /\ nxt.open = m.open /\ nxt.user = m.user
       /\ nxt.sent = m.sent /\ nxt.switched = m.switched
       /\ EtagOfHeld(nxt.active) /\ EtagOfHeld(nxt.staged)
  BY <1>7, <1>8 DEF Activated, Client, EtagOfHeld
<1>11. ASSUME ~crossed'
       PROVE  /\ OwnHeld(nxt.active) /\ OwnHeld(nxt.staged)
              /\ nxt.staged # Nothing => nxt.staged.user = m.user
              /\ m.user # NoUser /\ ~(m.switched /\ ~m.sent.switched) => For(Held(nxt), m.user)
  <2>1. CASE m.sent.switched
    <3>1. nxt = Activated(named)
      BY <2>1
    <3>2. CASE named.staged = Nothing
      BY <1>9, <1>11, <3>1, <3>2 DEF Activated
    <3>3. CASE named.staged # Nothing
      BY <1>7, <1>9, <1>11, <3>1, <3>3 DEF Activated, Client, OwnHeld, Held
    <3> QED
      BY <3>2, <3>3
  <2>2. CASE ~m.sent.switched
    BY <1>9, <1>11, <2>2
  <2> QED
    BY <2>1, <2>2
<1> HIDE DEF nxt
<1>12. /\ n \in Client /\ n.open = m.open /\ n.user = m.user /\ n.sent = Nothing
       /\ n.switched = (m.switched /\ ~m.sent.switched)
       /\ n.active = nxt.active /\ n.staged = nxt.staged
  BY <1>3, <1>10 DEF Ended, Client, Request
<1> HIDE DEF n
<1>13. Consistent(n)
  BY <1>10, <1>12 DEF Consistent, SwitchAnswered
<1>14. ~crossed' => Owned(n)
  BY <1>11, <1>12 DEF Owned, StagedForUser, ActiveForUser, AskedAbout, Held
<1> QED
  BY <1>2, <1>6, <1>12, <1>13, <1>14, FittingClient

LEMMA FailsKeeps ==
    ASSUME Shape, ClientIndInv, NEW t \in Tab, Fails(t)
    PROVE  ClientIndInv'
<1>1. /\ tab[t] \in Client /\ Consistent(tab[t]) /\ (~crossed => Owned(tab[t]))
      /\ tab[t].sent # Nothing
  BY DEF ClientIndInv, ClientTypeOK, Fails
<1>2. tab[t].open
  BY <1>1 DEF ClientIndInv, ClientTypeOK, Closed
<1>3. PICK stopped \in BOOLEAN : Put(t, [tab[t] EXCEPT !.sent = Nothing, !.stopped = stopped])
  BY DEF Fails
<1> DEFINE n == [tab[t] EXCEPT !.sent = Nothing, !.stopped = stopped]
<1>4. /\ n \in Client /\ n.open /\ n.user = tab[t].user /\ n.active = tab[t].active
      /\ n.staged = tab[t].staged /\ n.switched = tab[t].switched /\ n.sent = Nothing
  BY <1>1, <1>2 DEF Client
<1>5. Put(t, n)
  BY <1>3
<1> HIDE DEF n
<1>6. Consistent(n) /\ (~crossed => Owned(n))
  BY <1>1, <1>4 DEF Consistent, SwitchAnswered, EtagOfHeld, Owned, OwnHeld, StagedForUser,
                    ActiveForUser, AskedAbout, Held
<1>7. faults' \in 0 .. MaxFaults
  BY DEF Fails, ClientIndInv, ClientTypeOK, Shape
<1> QED
  BY <1>4, <1>5, <1>6, <1>7, FittingClient DEF Fails, ClientIndInv, ClientTypeOK

LEMMA PublishKeeps ==
    ASSUME Shape, ClientIndInv, ActiveChanges
    PROVE  ClientIndInv'
<1>1. published' \in ActiveVersion
  BY DEF ActiveChanges, ClientIndInv, ClientTypeOK, ActiveVersion, Shape
<1> QED
  BY <1>1 DEF ActiveChanges, ClientIndInv, ClientTypeOK, EtagOfHeld, OwnHeld, Consistent, Owned, SwitchAnswered,
              StagedForUser, ActiveForUser, AskedAbout, AsksAbout, Held, For

LEMMA StutterKeeps ==
    ASSUME ClientIndInv, UNCHANGED clientVars
    PROVE  ClientIndInv'
  BY DEF clientVars, ClientIndInv, ClientTypeOK, EtagOfHeld, OwnHeld, Consistent, Owned, SwitchAnswered,
         StagedForUser, ActiveForUser, AskedAbout, AsksAbout, Held, For

LEMMA NextKeeps ==
    ASSUME Shape, ClientIndInv, ClientNext
    PROVE  ClientIndInv'
<1>1. CASE ActiveChanges
  BY <1>1, PublishKeeps
<1>2. CASE \E t \in Tab, u \in User : Launch(t, u) \/ SetUserId(t, u)
  BY <1>2, LaunchKeeps, SetUserIdKeeps
<1>3. CASE \E t \in Tab : Close(t) \/ Read(t) \/ Activate(t) \/ StorageChanged(t)
  BY <1>3, CloseKeeps, ReadKeeps, ActivateKeeps, StorageChangedKeeps
<1>4. CASE \E t \in Tab : Skip(t) \/ FetchAfter(t) \/ Fetches(t) \/ Fails(t)
  BY <1>4, SkipKeeps, FetchKeeps, ArrivesKeeps, NotModifiedKeeps, FailsKeeps DEF Fetches
<1> QED
  BY <1>1, <1>2, <1>3, <1>4 DEF ClientNext

(* At every moment the tabs and what they share fit together: whose answer    *)
(* each holds, and what each fetch in flight asked about.                     *)
THEOREM ClientsConsistent ==
    ClientSpec => []ClientIndInv
<1>1. ClientInit => ClientIndInv
  BY ShapeAssumption, InitHolds
<1>2. ClientIndInv /\ [ClientNext]_clientVars => ClientIndInv'
  BY ShapeAssumption, NextKeeps, StutterKeeps
<1> QED
  BY <1>1, <1>2, PTL DEF ClientSpec

\* Types of the answers, what the tabs share and the requests in flight.
THEOREM ClientsTypeCorrect ==
    ClientSpec => []ClientTypeOK
<1>1. ClientIndInv => ClientTypeOK
  BY DEF ClientIndInv
<1> QED
  BY <1>1, ClientsConsistent, PTL

(* What a tab holds was resolved for its user, however its fetches, the       *)
(* changes of user and the other tabs' answers interleave.                    *)
THEOREM AnswersBelongToTheirUsers ==
    ClientSpec => []AnswersAreTheUsers
<1>1. ClientIndInv => AnswersAreTheUsers
  <2> SUFFICES ASSUME ClientIndInv, ~crossed, NEW t \in Tab
               PROVE  /\ tab[t].staged # Nothing => For(tab[t].staged.held, tab[t].user)
                      /\ tab[t].user # NoUser /\ ~tab[t].switched => For(Held(tab[t]), tab[t].user)
    BY DEF AnswersAreTheUsers, OwnAnswers
  <2> QED
    BY DEF ClientIndInv, Owned, OwnHeld, StagedForUser, ActiveForUser
<1> QED
  BY <1>1, ClientsConsistent, PTL

-----------------------------------------------------------------------------
(* StableReads                                                                *)

\* What a change of a tab's client may do to what its application reads.
Stable(m, n) == m.read /\ n.open /\ Held(n) # Held(m) =>
                    \/ m.staged # Nothing /\ Held(n) = m.staged.held
                    \/ m.switched
                    \/ n.active.version \in Unpublished

(* A step that changes one tab's client keeps the reads of the others, whose  *)
(* pages are at most told.                                                    *)
LEMMA OthersStable ==
    ASSUME ClientTypeOK, NEW t \in Tab, NEW m, Stable(tab[t], m), Put(t, m) \/ PutAndPersist(t, m)
    PROVE  \A u \in Tab : Stable(tab[u], tab'[u])
<1> SUFFICES ASSUME NEW u \in Tab \ {t} PROVE Stable(tab[u], tab'[u])
  BY DEF Put, PutAndPersist, ClientTypeOK
<1>1. tab[u] \in Client
  BY DEF ClientTypeOK
<1>2. tab'[u] = tab[u] \/ tab'[u] = [tab[u] EXCEPT !.told = tab[u].open]
  BY DEF Put, PutAndPersist, ClientTypeOK
<1>3. Held(tab'[u]) = Held(tab[u])
  BY <1>1, <1>2 DEF Client, Held
<1> QED
  BY <1>3 DEF Stable

\* A received answer changes what is read only when nothing is published, or for another user.
LEMMA ReceivedStable ==
    ASSUME Shape, NEW o, NEW m \in Client, NEW a \in Answer, NEW uc \in BOOLEAN,
           o.read => m.read, Held(m) = Held(o), uc => o.switched
    PROVE  Stable(o, Receive(m, a, uc))
<1> DEFINE n == Receive(m, a, uc)
<1>1. ~uc /\ m.read /\ Held(n) # Held(m) => n.active = a /\ a.version \in Unpublished
  BY Received
<1> HIDE DEF n
<1>2. Stable(o, n)
  BY <1>1 DEF Stable
<1> QED
  BY <1>2 DEF n

LEMMA LaunchStable ==
    ASSUME ClientTypeOK, NEW t \in Tab, NEW u \in User, Launch(t, u)
    PROVE  \A w \in Tab : Stable(tab[w], tab'[w])
<1>1. tab[t] = Closed
  BY DEF Launch, ClientTypeOK
<1>2. ~tab[t].read
  BY <1>1 DEF Closed
<1>3. \A m : Stable(tab[t], m)
  BY <1>2 DEF Stable
<1>4. \E m : Put(t, m) \/ PutAndPersist(t, m)
  BY DEF Launch
<1> QED
  BY <1>3, <1>4, OthersStable

LEMMA SameHeldStable ==
    ASSUME ClientTypeOK, NEW t \in Tab, NEW m, Held(m) = Held(tab[t]) \/ ~m.open, Put(t, m) \/ PutAndPersist(t, m)
    PROVE  \A u \in Tab : Stable(tab[u], tab'[u])
  BY OthersStable DEF Stable

LEMMA PlainStable ==
    ASSUME Shape, ClientTypeOK, NEW t \in Tab,
           \/ Close(t) \/ Read(t) \/ FetchAfter(t) \/ Refetch(t) \/ Fails(t)
           \/ \E u \in User : SetUserId(t, u)
    PROVE  \A w \in Tab : Stable(tab[w], tab'[w])
<1>1. tab[t] \in Client
  BY DEF ClientTypeOK
<1>2. CASE Close(t)
  <2>1. ~Closed.open
    BY DEF Closed
  <2> QED
    BY <1>2, <2>1, SameHeldStable DEF Close
<1>3. CASE Read(t)
  <2>1. Held([tab[t] EXCEPT !.read = TRUE]) = Held(tab[t])
    BY <1>1 DEF Client, Held
  <2> QED
    BY <1>3, <2>1, SameHeldStable DEF Read
<1>4. CASE FetchAfter(t) \/ Refetch(t)
  <2>1. Held(Fetching(tab[t])) = Held(tab[t])
    BY <1>1 DEF Client, Held, Fetching
  <2> QED
    BY <1>4, <2>1, SameHeldStable DEF FetchAfter, Refetch
<1>5. CASE Fails(t)
  <2>1. PICK stopped \in BOOLEAN : Put(t, [tab[t] EXCEPT !.sent = Nothing, !.stopped = stopped])
    BY <1>5 DEF Fails
  <2>2. Held([tab[t] EXCEPT !.sent = Nothing, !.stopped = stopped]) = Held(tab[t])
    BY <1>1 DEF Client, Held
  <2> QED
    BY <2>1, <2>2, SameHeldStable
<1>6. ASSUME NEW u \in User, SetUserId(t, u)
      PROVE  \A w \in Tab : Stable(tab[w], tab'[w])
  <2> DEFINE m == [tab[t] EXCEPT !.user = u, !.switched = TRUE, !.staged = Nothing,
                                 !.sent = IF @ = Nothing THEN Nothing ELSE [@ EXCEPT !.left = TRUE]]
  <2>1. Held(m) = Held(tab[t])
    BY <1>1 DEF Client, Held
  <2>2. Put(t, m) \/ PutAndPersist(t, m)
    BY <1>6 DEF SetUserId
  <2> HIDE DEF m
  <2> QED
    BY <2>1, <2>2, SameHeldStable
<1> QED
  BY <1>2, <1>3, <1>4, <1>5, <1>6

\* Another tab's answer is staged for an application that has read its values.
LEMMA AdoptionStable ==
    ASSUME Shape, ClientTypeOK, NEW t \in Tab, StorageChanged(t) \/ Skip(t)
    PROVE  \A w \in Tab : Stable(tab[w], tab'[w])
<1> DEFINE told == [tab[t] EXCEPT !.told = FALSE]
           done == [tab[t] EXCEPT !.answered = TRUE]
           a    == Newest(record)
<1>1. tab[t] \in Client
  BY DEF ClientTypeOK
<1>2. /\ told \in Client /\ told.read = tab[t].read /\ Held(told) = Held(tab[t])
      /\ Held(done) = Held(tab[t])
  BY <1>1 DEF Client, Held
<1>3. \/ Put(t, told) \/ Put(t, done)
      \/ a # Nothing /\ PutAndPersist(t, Receive(told, a, FALSE))
      \/ a # Nothing /\ PutAndPersist(t, Receive(tab[t], a, FALSE))
  BY DEF StorageChanged, Skip, Adopts
<1> HIDE DEF told, done
<1>4. a # Nothing => a \in Answer
  BY DEF ClientTypeOK, Newest
<1> HIDE DEF a
<1>5. a # Nothing => Stable(tab[t], Receive(told, a, FALSE)) /\ Stable(tab[t], Receive(tab[t], a, FALSE))
  BY <1>1, <1>2, <1>4, ReceivedStable
<1> QED
  BY <1>2, <1>3, <1>5, SameHeldStable, OthersStable

LEMMA AnswerStable ==
    ASSUME Shape, ClientIndInv, NEW t \in Tab, Arrives(t) \/ NotModified(t) \/ Activate(t)
    PROVE  \A w \in Tab : Stable(tab[w], tab'[w])
<1>0. ClientTypeOK
  BY DEF ClientIndInv
<1>1. tab[t] \in Client /\ SwitchAnswered(tab[t])
  BY DEF ClientIndInv, ClientTypeOK, Consistent
<1>2. CASE Arrives(t)
  <2> DEFINE e == Ended(tab[t])
  <2>1. tab[t].sent \in Request /\ tab[t].sent.switched \in BOOLEAN
    BY <1>1, <1>2 DEF Arrives, Client, Request
  <2>2. PICK a \in Replies(tab[t].sent) : PutAndPersist(t, Receive(e, a, tab[t].sent.switched))
    BY <1>2 DEF Arrives
  <2>3. a \in Answer
    BY <2>1, <2>2, Replied
  <2>4. e \in Client /\ e.read = tab[t].read /\ Held(e) = Held(tab[t])
    BY <1>1, <2>1 DEF Ended, Client, Held
  <2>5. tab[t].sent.switched => tab[t].switched
    BY <1>1, <1>2 DEF SwitchAnswered, Arrives
  <2> HIDE DEF e
  <2>6. Stable(tab[t], Receive(e, a, tab[t].sent.switched))
    BY <2>1, <2>3, <2>4, <2>5, ReceivedStable
  <2> QED
    BY <1>0, <2>2, <2>6, OthersStable
<1>3. CASE NotModified(t)
  <2> DEFINE m == tab[t]
             named == IF m.staged # Nothing THEN [m EXCEPT !.staged.user = m.user]
                      ELSE IF m.active # Nothing THEN [m EXCEPT !.active.user = m.user] ELSE m
             nxt == IF m.sent.switched THEN Activated(named) ELSE named
             n == Ended([nxt EXCEPT !.answered = TRUE])
  <2>1. PutAndPersist(t, n)
    BY <1>3 DEF NotModified
  <2>2. m.sent \in Request /\ (m.sent.switched => m.switched)
    BY <1>1, <1>3 DEF NotModified, Client, SwitchAnswered
  <2>3. named \in Client /\ Held(named) = Held(m)
    <3>1. CASE m.staged # Nothing
      BY <1>1, <3>1 DEF Client, Answer, Held
    <3>2. CASE m.staged = Nothing /\ m.active # Nothing
      <4>1. m.active \in Answer /\ named = [m EXCEPT !.active = [m.active EXCEPT !.user = m.user]]
        BY <1>1, <3>2 DEF Client
      <4>2. [m.active EXCEPT !.user = m.user] \in Answer /\ [m.active EXCEPT !.user = m.user].held = m.active.held
        BY <1>1, <4>1 DEF Client, Answer
      <4>3. named \in Client /\ named.active = [m.active EXCEPT !.user = m.user]
        BY <1>1, <4>1, <4>2 DEF Client
      <4> QED
        BY <3>2, <4>2, <4>3 DEF Held, Shape
    <3>3. CASE m.staged = Nothing /\ m.active = Nothing
      BY <1>1, <3>3
    <3> QED
      BY <3>1, <3>2, <3>3
  <2> HIDE DEF named
  <2>4. ~m.switched => Held(n) = Held(m)
    BY <2>2, <2>3 DEF Ended, Client, Held
  <2> HIDE DEF n, m
  <2>5. Stable(m, n)
    BY <2>4 DEF Stable
  <2> QED
    BY <1>0, <2>1, <2>5, OthersStable DEF m
<1>4. CASE Activate(t)
  <2>1. PutAndPersist(t, Activated(tab[t])) /\ tab[t].staged # Nothing
    BY <1>4 DEF Activate
  <2>2. Held(Activated(tab[t])) = tab[t].staged.held
    BY <1>1, <2>1 DEF Activated, Client, Held
  <2>3. Stable(tab[t], Activated(tab[t]))
    BY <2>1, <2>2 DEF Stable
  <2> QED
    BY <1>0, <2>1, <2>3, OthersStable
<1> QED
  BY <1>2, <1>3, <1>4

(* No fetch and no other tab changes, under an application that has read      *)
(* them, values that are not live.                                            *)
THEOREM ReadsAreStable ==
    ClientSpec => StableReads
<1> DEFINE Steady == \A t \in Tab : Stable(tab[t], tab'[t])
<1>1. ClientIndInv /\ [ClientNext]_clientVars => Steady
  <2> SUFFICES ASSUME ClientIndInv, [ClientNext]_clientVars PROVE Steady
    OBVIOUS
  <2>0. ClientTypeOK
    BY DEF ClientIndInv
  <2>1. CASE ActiveChanges \/ UNCHANGED clientVars
    BY <2>1 DEF ActiveChanges, clientVars, Stable
  <2>2. CASE \E t \in Tab, u \in User : Launch(t, u)
    BY <2>0, <2>2, LaunchStable
  <2>3. CASE \E t \in Tab : \/ Close(t) \/ Read(t) \/ FetchAfter(t) \/ Refetch(t) \/ Fails(t)
                            \/ \E u \in User : SetUserId(t, u)
    BY ShapeAssumption, <2>0, <2>3, PlainStable
  <2>4. CASE \E t \in Tab : StorageChanged(t) \/ Skip(t)
    BY ShapeAssumption, <2>0, <2>4, AdoptionStable
  <2>5. CASE \E t \in Tab : Arrives(t) \/ NotModified(t) \/ Activate(t)
    BY ShapeAssumption, <2>5, AnswerStable
  <2> QED
    BY <2>1, <2>2, <2>3, <2>4, <2>5 DEF ClientNext, Fetches
<1>2. Steady <=> \A t \in Tab : tab[t].read /\ tab'[t].open /\ Held(tab'[t]) # Held(tab[t]) =>
                    \/ tab[t].staged # Nothing /\ Held(tab'[t]) = tab[t].staged.held
                    \/ tab[t].switched
                    \/ tab'[t].active.version \in Unpublished
  BY DEF Stable
<1> HIDE DEF Steady
<1> QED
  BY <1>1, <1>2, ClientsConsistent, PTL DEF ClientSpec, StableReads
=============================================================================
