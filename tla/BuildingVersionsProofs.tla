----------------------- MODULE BuildingVersionsProofs ------------------------
(***************************************************************************)
(* Proofs about BuildingVersions, for every set of reports, documents,     *)
(* requests and takedowns: type correctness, the inductive invariant IInv  *)
(* and what follows from it, and that BuildingVersions implements          *)
(* BuildingHistory.                                                        *)
(* Then the load of footprints beside it: the server is still the one of   *)
(* BuildingVersions, and the load implements FootprintLoad.  What the      *)
(* command upserts up to the end of the file is proved by induction from   *)
(* its end, as the absence of a least counterexample.                      *)
(***************************************************************************)
EXTENDS FootprintIngest, FiniteSetTheorems, SequenceTheorems, WellFoundedInduction,
        TLAPS

USE ReportIdsAssumption, DraftsAssumption, NoBuildingAssumption,
    NoReportAssumption, NoRowAssumption

------------------------------------------------------------------------------
(* Type correctness *)

LEMMA PlanIsRow == ASSUME NEW v \in Nat \ {0}, NEW n \in ReportIds \union {NoReport}
                   PROVE  [version |-> v, supersedes |-> n] \in Row
  BY DEF Row

LEMMA FirstRowIsRow == FirstRow \in Row
  BY DEF FirstRow, Row

\* A finite set of ids has a natural number of elements.
LEMMA OfIsFinite ==
  ASSUME NEW b, NEW S \in SUBSET ReportIds
  PROVE  IsFiniteSet(Of(b, S)) /\ Cardinality(Of(b, S)) \in Nat
  <1>1. Of(b, S) \in SUBSET ReportIds
    BY DEF Of
  <1> QED
    BY <1>1, FS_Subset, FS_CardinalityType

LEMMA WithoutIsTable ==
  ASSUME TypeOK, NEW r \in ReportIds, NEW S
  PROVE  Without(r, S) \in [ReportIds -> Row \union {NoRow}]
  <1>1. ASSUME NEW s \in Stored
        PROVE  [reports[s] EXCEPT !.supersedes = NoReport] \in Row
    <2>1. reports[s] \in Row
      BY DEF TypeOK, Stored
    <2> QED
      BY <2>1 DEF Row
  <1> QED
    BY <1>1 DEF Without, TypeOK, Stored

\* Every step of a request keeps the types.
LEMMA SubmitType ==
  ASSUME TypeOK, NEW q \in Requests, SubmitStep(q) \/ AbortSubmit(q),
         CommitSubmit(q) /\ HasBuilding(q) => fresh[q] \in ReportIds
  PROVE  TypeOK'
  <1> USE FirstRowIsRow
  <1>1. CASE BeginSubmit(q)
    BY <1>1 DEF TypeOK, BeginSubmit, tvars
  <1>2. CASE UpsertBuilding(q)
    BY <1>2 DEF TypeOK, UpsertBuilding, tvars
  <1>3. CASE NextVersionForBuilding(q)
    <2>1. Stored \in SUBSET ReportIds
      BY DEF Stored
    <2>2. Cardinality(Of(BuildingOf(q), Stored)) + 1 \in Nat \ {0}
      BY <2>1, OfIsFinite
    <2>3. plan' \in [Requests -> Row]
      BY <1>3, <2>2, PlanIsRow DEF TypeOK, NextVersionForBuilding
    <2> QED
      BY <1>3, <2>3 DEF TypeOK, NextVersionForBuilding, tvars
  <1>4. CASE InsertReplay(q)
    BY <1>4 DEF TypeOK, InsertReplay, tvars
  <1>5. CASE InsertKeySeen(q)
    BY <1>5 DEF TypeOK, InsertKeySeen, tvars
  <1>6. CASE InsertPredecessorGone(q)
    BY <1>6 DEF TypeOK, InsertPredecessorGone, tvars
  <1>7. CASE InsertNew(q)
    BY <1>7 DEF TypeOK, InsertNew, tvars
  <1>8. CASE RefreshBuildingCurrentDamage(q)
    BY <1>8 DEF TypeOK, RefreshBuildingCurrentDamage, tvars
  <1>9. CASE LookupByKey(q)
    BY <1>9 DEF TypeOK, LookupByKey, tvars
  <1>10. CASE ReadBack(q)
    BY <1>10 DEF TypeOK, ReadBack, tvars
  <1>11. CASE AbortSubmit(q)
    BY <1>11 DEF TypeOK, AbortSubmit, tvars
  <1>12. CASE CommitSubmit(q)
    <2>1. damage' \in [Buildings -> Damages \union {NoDamage}]
      BY <1>12 DEF TypeOK, CommitSubmit, HasBuilding, BuildingOf, Doc
    <2>2. reports' \in [ReportIds -> Row \union {NoRow}]
      BY <1>12 DEF TypeOK, CommitSubmit
    <2> QED
      BY <1>12, <2>1, <2>2 DEF TypeOK, CommitSubmit, tvars
  <1> QED
    BY <1>1, <1>2, <1>3, <1>4, <1>5, <1>6, <1>7, <1>8, <1>9, <1>10, <1>11, <1>12
    DEF SubmitStep

\* Every step of a takedown keeps the types.
LEMMA TakedownType ==
  ASSUME TypeOK, NEW w \in Takedowns, TakedownStep(w) \/ AbortTakedown(w)
  PROVE  TypeOK'
  <1>1. CASE LockTarget(w)
    BY <1>1 DEF TypeOK, LockTarget, qvars
  <1>2. CASE RefuseTakedown(w)
    BY <1>2 DEF TypeOK, RefuseTakedown, qvars
  <1>3. CASE NullReferences(w)
    BY <1>3 DEF TypeOK, NullReferences, qvars, ReferringTo, Stored
  <1>4. CASE DeleteAndCommit(w)
    BY <1>4, WithoutIsTable DEF TypeOK, DeleteAndCommit, qvars
  <1>5. CASE AbortTakedown(w)
    BY <1>5 DEF TypeOK, AbortTakedown, qvars
  <1> QED
    BY <1>1, <1>2, <1>3, <1>4, <1>5 DEF TakedownStep

------------------------------------------------------------------------------
(* Steps that leave the tables alone *)

SameTables == UNCHANGED <<doc, reports, damage, erased>>

\* What the tables say is what they said.
LEMMA SameTablesSame ==
  ASSUME SameTables
  PROVE  /\ Stored' = Stored
         /\ \A b, S : Of(b, S)' = Of(b, S)
         /\ \A b : Of(b, Stored)' = Of(b, Stored)
         /\ \A r, S : IsNewest(r, S)' <=> IsNewest(r, S)
         /\ \A r : ReferringTo(r)' = ReferringTo(r)
         /\ \A row, b : NextInLine(row, b)' <=> NextInLine(row, b)
  <1> QED
    BY DEF SameTables, Stored, Of, IsNewest, NoLater, ReferringTo, NextInLine, NewestOrNull

\* The conjuncts of IInv that are about the tables alone.
LEMMA SameTablesInv ==
  ASSUME IInv, SameTables
  PROVE  SupersedesStored' /\ VersionsCount' /\ DamageIsNewestUnlessErased'
  <1> USE SameTablesSame DEF IInv
  <1>1. SupersedesStored'
    BY DEF SupersedesStored, SameTables
  <1>2. VersionsCount'
    BY DEF VersionsCount, SameTables
  <1>3. DamageIsNewestUnlessErased'
    BY DEF DamageIsNewestUnlessErased, SameTables
  <1> QED
    BY <1>1, <1>2, <1>3

\* A step of q that leaves the tables alone keeps IInv if it keeps the part of
\* IInv that is about q.
LEMMA QuietSubmit ==
  ASSUME IInv, SameTables, TypeOK', NEW q \in Requests, UNCHANGED <<post, tvars>>,
         \A p \in Requests \ {q} : /\ pc'[p] = pc[p]
                                   /\ plan'[p] = plan[p]
                                   /\ fresh'[p] = fresh[p],
         HoldsBuilding(q)' =>
           \A p \in Requests \ {q} : HoldsBuilding(p) => BuildingOf(p) # BuildingOf(q),
         pc'[q] # "idle",
         pc'[q] \in {"upsert", "version"} => HasBuilding(q),
         pc'[q] = "insert" => PlanReady(q)',
         Uncommitted(q)' => /\ RowReady(q)'
                            /\ \A w \in Takedowns :
                                 HoldsTarget(w) => plan'[q].supersedes # target[w],
         pc'[q] = "commit" /\ HasBuilding(q)' => FreshReady(q)'
  PROVE  IInv'
  <1> USE SameTablesSame
  <1>1. \A p \in Requests : BuildingOf(p)' = BuildingOf(p) /\ HasBuilding(p)' = HasBuilding(p)
    BY DEF BuildingOf, HasBuilding, SameTables
  <1>2. \A p \in Requests \ {q} : HoldsBuilding(p)' = HoldsBuilding(p) /\ Uncommitted(p)' = Uncommitted(p)
    BY <1>1 DEF HoldsBuilding, Uncommitted
  <1>3. LockExclusive'
    BY <1>1, <1>2 DEF IInv, LockExclusive
  <1>4. PlanBeforeInsert'
    <2>1. ASSUME NEW p \in Requests \ {q}, PlanReady(p)
          PROVE  PlanReady(p)'
      BY <1>1, <2>1 DEF PlanReady, SameTables
    <2>2. \A p \in Requests \ {q} : PlanBeforeInsert =>
            /\ pc'[p] = "idle" => plan'[p] = FirstRow
            /\ pc'[p] \in {"upsert", "version"} => HasBuilding(p)'
            /\ pc'[p] = "insert" => PlanReady(p)'
      BY <1>1, <2>1 DEF PlanBeforeInsert
    <2> QED
      BY <1>1, <2>2 DEF IInv, PlanBeforeInsert
  <1>5. PlanAfterInsert'
    <2>1. ASSUME NEW p \in Requests \ {q}, Uncommitted(p), RowReady(p)
          PROVE  RowReady(p)'
      <3>1. KeySeen(p)' = KeySeen(p)
        BY DEF KeySeen, SameTables
      <3>2. InsertFree(p)'
        BY <1>2, <2>1 DEF InsertFree, RowReady, SameTables
      <3> QED
        BY <1>1, <2>1, <3>1, <3>2 DEF RowReady
    <2> QED
      BY <1>2, <2>1 DEF IInv, PlanAfterInsert
  <1>6. FreshIsNewest'
    <2>1. ASSUME NEW p \in Requests \ {q}, FreshReady(p)
          PROVE  FreshReady(p)'
      BY <1>1, <2>1 DEF FreshReady
    <2>2. \A p \in Requests \ {q} : pc'[p] = "commit" /\ HasBuilding(p)' => FreshReady(p)
      BY <1>1 DEF IInv, FreshIsNewest
    <2> QED
      BY <2>1, <2>2 DEF FreshIsNewest
  <1>7. TargetsHeld'
    BY <1>2 DEF IInv, TargetsHeld, HoldsTarget, tvars
  <1>8. NulledAreReferring'
    BY DEF IInv, NulledAreReferring, tvars
  <1> QED
    BY <1>3, <1>4, <1>5, <1>6, <1>7, <1>8, SameTablesInv DEF IInv

\* Each such step of a submit.
LEMMA QuietSubmitSteps ==
  ASSUME IInv, NEW q \in Requests, ~CommitSubmit(q), SubmitStep(q) \/ AbortSubmit(q)
  PROVE  IInv'
  <1> DEFINE Others == \A p \in Requests \ {q} : /\ pc'[p] = pc[p]
                                                 /\ plan'[p] = plan[p]
                                                 /\ fresh'[p] = fresh[p]
             Quiet  == SameTables /\ UNCHANGED <<post, tvars>> /\ Others
             Keeps  == /\ UNCHANGED <<doc, post>>
                       /\ BuildingOf(q)' = BuildingOf(q)
                       /\ HasBuilding(q)' = HasBuilding(q)
  <1>1. TypeOK' /\ TypeOK
    BY SubmitType DEF IInv
  <1> USE <1>1, SameTablesSame
  <1>2. CASE BeginSubmit(q)
    <2>1. Quiet /\ Keeps /\ plan'[q] = plan[q] /\ pc[q] = "idle"
      BY <1>2 DEF BeginSubmit, SameTables, BuildingOf, HasBuilding
    <2>2. pc'[q] = IF HasBuilding(q) THEN "upsert" ELSE "insert"
      BY <1>2 DEF BeginSubmit, TypeOK
    <2>3. pc'[q] = "insert" => PlanReady(q)'
      BY <2>1, <2>2 DEF PlanReady, IInv, PlanBeforeInsert
    <2> QED
      BY <2>1, <2>2, <2>3, QuietSubmit DEF HoldsBuilding, Uncommitted
  <1>3. CASE UpsertBuilding(q)
    <2>1. Quiet /\ Keeps
      BY <1>3 DEF UpsertBuilding, SameTables, BuildingOf, HasBuilding
    <2>2. pc'[q] = "version"
      BY <1>3 DEF UpsertBuilding, TypeOK
    <2>3. \A p \in Requests \ {q} : HoldsBuilding(p) => BuildingOf(p) # BuildingOf(q)
      BY <1>3 DEF UpsertBuilding
    <2>4. HasBuilding(q)
      BY <1>3 DEF UpsertBuilding, IInv, PlanBeforeInsert
    <2> QED
      BY <2>1, <2>2, <2>3, <2>4, QuietSubmit DEF Uncommitted
  <1>4. CASE NextVersionForBuilding(q)
    <2>1. Quiet /\ Keeps /\ pc[q] = "version"
      BY <1>4 DEF NextVersionForBuilding, SameTables, BuildingOf, HasBuilding, TypeOK
    <2>2. pc'[q] = "insert"
      BY <1>4 DEF NextVersionForBuilding, TypeOK
    <2>3. HoldsBuilding(q)' => HoldsBuilding(q)
      BY <2>1 DEF HoldsBuilding
    <2>4. PlanReady(q)'
      <3>1. NextInLine(plan'[q], BuildingOf(q))
        <4>1. PICK n \in ReportIds \union {NoReport} :
                /\ NewestOrNull(n, Of(BuildingOf(q), Stored))
                /\ plan' = [plan EXCEPT ![q] =
                              [version |-> Cardinality(Of(BuildingOf(q), Stored)) + 1,
                               supersedes |-> n]]
          BY <1>4 DEF NextVersionForBuilding
        <4>2. Cardinality(Of(BuildingOf(q), Stored)) \in Nat
          BY OfIsFinite DEF Stored
        <4>3. plan'[q] \in Row /\ plan'[q].supersedes = n
              /\ plan'[q].version = Cardinality(Of(BuildingOf(q), Stored)) + 1
          BY <4>1, <4>2, PlanIsRow DEF TypeOK
        <4> QED
          BY <4>1, <4>2, <4>3 DEF NextInLine
      <3>2. HasBuilding(q)
        BY <2>1 DEF IInv, PlanBeforeInsert
      <3> QED
        BY <2>1, <3>1, <3>2 DEF PlanReady
    <2> QED
      BY <2>1, <2>2, <2>3, <2>4, QuietSubmit DEF Uncommitted, IInv, LockExclusive
  <1>5. CASE InsertReplay(q) \/ InsertKeySeen(q) \/ InsertPredecessorGone(q) \/ AbortSubmit(q)
             \/ LookupByKey(q) \/ ReadBack(q)
    <2>1. Quiet
      BY <1>5 DEF InsertReplay, InsertKeySeen, InsertPredecessorGone, AbortSubmit, LookupByKey,
                  ReadBack, SameTables, TypeOK
    <2>2. pc'[q] \in {"readback", "lookup", "answered"}
      BY <1>5 DEF InsertReplay, InsertKeySeen, InsertPredecessorGone, AbortSubmit, LookupByKey,
                  ReadBack, TypeOK
    <2> QED
      BY <2>1, <2>2, QuietSubmit DEF HoldsBuilding, Uncommitted
  <1>6. CASE InsertNew(q)
    <2>1. Quiet /\ Keeps /\ pc[q] = "insert" /\ UNCHANGED <<plan, fresh>>
      BY <1>6 DEF InsertNew, SameTables, BuildingOf, HasBuilding
    <2>2. pc'[q] = IF HasBuilding(q) THEN "refresh" ELSE "commit"
      BY <1>6 DEF InsertNew, TypeOK
    <2>3. HoldsBuilding(q)' => HoldsBuilding(q)
      BY <2>1 DEF HoldsBuilding
    <2>4. post[q] \notin Stored /\ ~KeySeen(q) /\ InsertFree(q)
      BY <1>6 DEF InsertNew
    <2>5. IF HasBuilding(q) THEN NextInLine(plan[q], BuildingOf(q)) ELSE plan[q] = FirstRow
      BY <1>6, <2>1 DEF InsertNew, IInv, PlanBeforeInsert, PlanReady
    <2>6. RowReady(q)'
      <3>1. KeySeen(q)' = KeySeen(q)
        BY <2>1 DEF KeySeen, SameTables
      <3>2. InsertFree(q)'
        BY <2>1, <2>4 DEF InsertFree, Uncommitted
      <3> QED
        BY <2>1, <2>2, <2>4, <2>5, <3>1, <3>2 DEF RowReady
    <2>7. \A w \in Takedowns : HoldsTarget(w) => plan'[q].supersedes # target[w]
      BY <1>6, <2>1 DEF InsertNew
    <2> QED
      BY <2>1, <2>2, <2>3, <2>6, <2>7, QuietSubmit DEF IInv, LockExclusive
  <1>7. CASE RefreshBuildingCurrentDamage(q)
    <2>1. Quiet /\ Keeps /\ pc[q] = "refresh" /\ UNCHANGED plan
      BY <1>7 DEF RefreshBuildingCurrentDamage, SameTables, BuildingOf, HasBuilding, TypeOK
    <2>2. pc'[q] = "commit"
      BY <1>7 DEF RefreshBuildingCurrentDamage, TypeOK
    <2>3. HoldsBuilding(q)' => HoldsBuilding(q)
      BY <2>1 DEF HoldsBuilding
    <2>4. RowReady(q) /\ HasBuilding(q)
      BY <2>1 DEF IInv, PlanAfterInsert, Uncommitted, RowReady
    <2>5. RowReady(q)'
      <3>1. KeySeen(q)' = KeySeen(q)
        BY <2>1 DEF KeySeen, SameTables
      <3>2. InsertFree(q)'
        BY <2>1, <2>4 DEF InsertFree, Uncommitted, RowReady
      <3> QED
        BY <2>1, <2>4, <3>1, <3>2 DEF RowReady
    <2>6. FreshReady(q)'
      <3>1. fresh'[q] \in ReportIds
            /\ IsNewest(fresh'[q], Of(BuildingOf(q), Stored \union {post[q]}))
        BY <1>7 DEF RefreshBuildingCurrentDamage, TypeOK
      <3> QED
        BY <2>1, <3>1 DEF FreshReady
    <2>7. \A w \in Takedowns : HoldsTarget(w) => plan'[q].supersedes # target[w]
      BY <2>1 DEF IInv, TargetsHeld, Uncommitted
    <2> QED
      BY <2>1, <2>2, <2>3, <2>5, <2>6, <2>7, QuietSubmit DEF IInv, LockExclusive
  <1> QED
    BY <1>2, <1>3, <1>4, <1>5, <1>6, <1>7 DEF SubmitStep

\* A takedown that leaves the tables alone disturbs only what is about takedowns.
LEMMA QuietTakedownSteps ==
  ASSUME IInv, NEW w \in Takedowns, ~DeleteAndCommit(w), TakedownStep(w) \/ AbortTakedown(w)
  PROVE  IInv'
  <1>1. TypeOK' /\ TypeOK
    BY TakedownType DEF IInv
  <1>2. SameTables /\ UNCHANGED <<qvars, target>>
        /\ \A x \in Takedowns \ {w} : tpc'[x] = tpc[x] /\ nulled'[x] = nulled[x]
    BY <1>1 DEF TakedownStep, LockTarget, RefuseTakedown, NullReferences, AbortTakedown,
                SameTables, TypeOK
  <1> USE <1>1, <1>2, SameTablesSame
  <1>3. \A p \in Requests : /\ BuildingOf(p)' = BuildingOf(p)
                            /\ HasBuilding(p)' = HasBuilding(p)
                            /\ HoldsBuilding(p)' = HoldsBuilding(p)
                            /\ Uncommitted(p)' = Uncommitted(p)
    BY DEF BuildingOf, HasBuilding, SameTables, HoldsBuilding, Uncommitted, qvars
  <1>4. LockExclusive'
    BY <1>3 DEF IInv, LockExclusive
  <1>5. PlanBeforeInsert'
    <2>1. ASSUME NEW p \in Requests, PlanReady(p)
          PROVE  PlanReady(p)'
      BY <1>3, <2>1 DEF PlanReady, SameTables, qvars
    <2>2. PlanBeforeInsert
      BY DEF IInv
    <2> QED
      BY <1>3, <2>1, <2>2 DEF PlanBeforeInsert, qvars
  <1>6. PlanAfterInsert'
    <2>1. ASSUME NEW p \in Requests, RowReady(p)
          PROVE  RowReady(p)'
      <3>1. KeySeen(p)' = KeySeen(p)
        BY DEF KeySeen, SameTables, qvars
      <3>2. InsertFree(p)'
        BY <1>3, <2>1 DEF InsertFree, RowReady, SameTables, qvars
      <3> QED
        BY <1>3, <2>1, <3>1, <3>2 DEF RowReady, qvars
    <2> QED
      BY <1>3, <2>1 DEF IInv, PlanAfterInsert
  <1>7. FreshIsNewest'
    BY <1>3 DEF IInv, FreshIsNewest, FreshReady, qvars
  <1>8. TargetsHeld' /\ NulledAreReferring'
    <2> USE DEF IInv, TargetsHeld, NulledAreReferring, HoldsTarget
    <2>1. CASE LockTarget(w)
      <3>1. tpc'[w] = "nullRefs" /\ nulled' = nulled /\ tpc[w] = "idle"
            /\ RowFree(w) /\ target[w] \in Stored
        BY <2>1 DEF LockTarget, TypeOK
      <3>2. TargetsHeld'
        BY <1>3, <3>1 DEF RowFree, qvars
      <3> QED
        BY <3>1, <3>2
    <2>2. CASE RefuseTakedown(w) \/ AbortTakedown(w)
      <3>1. tpc'[w] = "refused"
        BY <2>2 DEF RefuseTakedown, AbortTakedown, TypeOK
      <3> QED
        BY <1>3, <3>1 DEF qvars
    <2>3. CASE NullReferences(w)
      <3>1. tpc[w] = "nullRefs" /\ tpc'[w] = "delete" /\ nulled'[w] = ReferringTo(target[w])
            /\ \A x \in Takedowns : HoldsTarget(x) => target[x] \notin ReferringTo(target[w])
        BY <2>3 DEF NullReferences, TypeOK
      <3>2. TargetsHeld'
        BY <1>3, <3>1 DEF qvars
      <3> QED
        BY <3>1, <3>2
    <2> QED
      BY <2>1, <2>2, <2>3 DEF TakedownStep
  <1> QED
    BY <1>4, <1>5, <1>6, <1>7, <1>8, SameTablesInv DEF IInv

------------------------------------------------------------------------------
(* The commit of a submit *)

\* Two newest rows are the same row.
LEMMA NewestUnique ==
  ASSUME TypeOK, NEW S \in SUBSET ReportIds, NEW m, NEW n, IsNewest(m, S), IsNewest(n, S)
  PROVE  m = n
  <1>1. /\ m \in Nat /\ n \in Nat
        /\ doc[m].captured \in Nat /\ doc[n].captured \in Nat
    BY DEF IsNewest, TypeOK, Doc
  <1> QED
    BY <1>1 DEF IsNewest, NoLater

\* What a commit of q does.
CommitEffect(q) ==
  /\ UNCHANGED <<doc, erased, post, tpc, target, nulled>>
  /\ post[q] \in ReportIds \ Stored
  /\ Stored' = Stored \union {post[q]}
  /\ reports'[post[q]] = plan[q]
  /\ plan[q] \in Row
  /\ \A s \in ReportIds \ {post[q]} : reports'[s] = reports[s]
  /\ \A b, S : Of(b, S)' = Of(b, S)
  /\ \A b : Of(b, erased)' = Of(b, erased)
  /\ \A r, S : IsNewest(r, S)' <=> IsNewest(r, S)
  /\ RowReady(q)
  /\ pc'[q] = "readback" /\ plan'[q] = FirstRow
  /\ \A p \in Requests \ {q} : /\ pc'[p] = pc[p]
                               /\ plan'[p] = plan[p]
                               /\ fresh'[p] = fresh[p]
  /\ \A p \in Requests : /\ BuildingOf(p)' = BuildingOf(p)
                         /\ HasBuilding(p)' = HasBuilding(p)

LEMMA CommitTables ==
  ASSUME IInv, NEW q \in Requests, CommitSubmit(q)
  PROVE  CommitEffect(q)
  <1> USE DEF CommitSubmit, IInv
  <1>1. UNCHANGED <<doc, erased, post, tpc, target, nulled>>
    BY DEF tvars
  <1>2. RowReady(q)
    BY DEF PlanAfterInsert, Uncommitted
  <1>3. post[q] \in ReportIds \ Stored /\ plan[q] \in Row
    BY <1>2 DEF RowReady, TypeOK
  <1>4. /\ reports'[post[q]] = plan[q]
        /\ \A s \in ReportIds \ {post[q]} : reports'[s] = reports[s]
    BY <1>3 DEF TypeOK
  <1>5. Stored' = Stored \union {post[q]}
    BY <1>3, <1>4 DEF Stored
  <1>6. /\ \A b, S : Of(b, S)' = Of(b, S)
        /\ \A b : Of(b, erased)' = Of(b, erased)
        /\ \A r, S : IsNewest(r, S)' <=> IsNewest(r, S)
    BY <1>1 DEF Of, IsNewest, NoLater
  <1>7. /\ pc'[q] = "readback" /\ plan'[q] = FirstRow
        /\ \A p \in Requests \ {q} : /\ pc'[p] = pc[p]
                                     /\ plan'[p] = plan[p]
                                     /\ fresh'[p] = fresh[p]
    BY DEF TypeOK
  <1>8. \A p \in Requests : BuildingOf(p)' = BuildingOf(p) /\ HasBuilding(p)' = HasBuilding(p)
    BY <1>1 DEF BuildingOf, HasBuilding
  <1> QED
    BY <1>1, <1>2, <1>3, <1>4, <1>5, <1>6, <1>7, <1>8 DEF CommitEffect

\* The rows of a building, before and after the commit of q.
CommitRowsEffect(q) ==
  /\ Of(BuildingOf(q), Stored)' = Of(BuildingOf(q), Stored) \union {post[q]}
  /\ \A b : b # BuildingOf(q) => Of(b, Stored)' = Of(b, Stored)
  /\ \A b, r : b # BuildingOf(q) => Of(b, Stored \union {r})' = Of(b, Stored \union {r})
  /\ \A row, b : b # BuildingOf(q) /\ NextInLine(row, b) => NextInLine(row, b)'

LEMMA CommitRows ==
  ASSUME NEW q \in Requests, CommitEffect(q)
  PROVE  CommitRowsEffect(q)
  <1> USE DEF CommitEffect
  <1>1. /\ Of(BuildingOf(q), Stored)' = Of(BuildingOf(q), Stored) \union {post[q]}
        /\ \A b : b # BuildingOf(q) => Of(b, Stored)' = Of(b, Stored)
        /\ \A b, r : b # BuildingOf(q) => Of(b, Stored \union {r})' = Of(b, Stored \union {r})
    BY DEF Of, BuildingOf
  <1>2. \A n, S : NewestOrNull(n, S)' <=> NewestOrNull(n, S)
    BY DEF NewestOrNull
  <1>3. \A row, b : b # BuildingOf(q) /\ NextInLine(row, b) => NextInLine(row, b)'
    BY <1>1, <1>2 DEF NextInLine
  <1> QED
    BY <1>1, <1>3 DEF CommitRowsEffect

LEMMA CommitKeepsIInv ==
  ASSUME IInv, NEW q \in Requests, CommitSubmit(q)
  PROVE  IInv'
  <1>a. CommitEffect(q) /\ CommitRowsEffect(q)
    BY CommitTables, CommitRows
  <1> USE <1>a DEF CommitEffect, CommitRowsEffect
  <1>1. TypeOK /\ TypeOK'
    BY SubmitType DEF IInv, FreshIsNewest, FreshReady, CommitSubmit, SubmitStep
  <1>2. \A p \in Requests : /\ Uncommitted(p)' <=> p # q /\ Uncommitted(p)
                            /\ HoldsBuilding(p)' <=> p # q /\ HoldsBuilding(p)
    BY DEF Uncommitted, HoldsBuilding
  <1>3. \A p \in Requests \ {q} : HoldsBuilding(p) => BuildingOf(p) # BuildingOf(q)
    BY DEF IInv, LockExclusive, HoldsBuilding, HasBuilding, CommitSubmit
  <1>4. LockExclusive'
    BY <1>2 DEF IInv, LockExclusive
  <1>5. PlanBeforeInsert'
    <2>1. ASSUME NEW p \in Requests \ {q}, pc[p] = "insert", PlanReady(p)
          PROVE  PlanReady(p)'
      <3>1. CASE ~HasBuilding(p)
        BY <2>1, <3>1 DEF PlanReady
      <3>2. CASE HasBuilding(p)
        <4>1. BuildingOf(p) # BuildingOf(q)
          BY <1>3, <2>1, <3>2 DEF HoldsBuilding
        <4>2. plan[p].supersedes \in ReportIds /\ doc[plan[p].supersedes].building = BuildingOf(p)
                => plan[p].supersedes # post[q]
          BY <4>1 DEF BuildingOf
        <4> QED
          BY <2>1, <3>2, <4>1, <4>2 DEF PlanReady
      <3> QED
        BY <3>1, <3>2
    <2>2. PlanBeforeInsert
      BY DEF IInv
    <2> QED
      BY <2>1, <2>2 DEF PlanBeforeInsert
  <1>6. PlanAfterInsert'
    <2>1. ASSUME NEW p \in Requests \ {q}, Uncommitted(p), RowReady(p)
          PROVE  RowReady(p)'
      <3>1. post[p] # post[q] /\ doc[post[p]].key # doc[post[q]].key
        BY <2>1 DEF RowReady, InsertFree
      <3>2. ~KeySeen(p)'
        BY <2>1, <3>1 DEF KeySeen, RowReady
      <3>3. InsertFree(p)'
        BY <1>2, <2>1 DEF InsertFree, RowReady
      <3>4. HasBuilding(p) => BuildingOf(p) # BuildingOf(q)
        BY <1>3, <2>1 DEF HoldsBuilding, Uncommitted
      <3> QED
        BY <2>1, <3>1, <3>2, <3>3, <3>4 DEF RowReady
    <2> QED
      BY <1>2, <2>1 DEF IInv, PlanAfterInsert
  <1>7. FreshIsNewest'
    <2>1. ASSUME NEW p \in Requests \ {q}, pc[p] = "commit", HasBuilding(p), FreshReady(p)
          PROVE  FreshReady(p)'
      <3>1. BuildingOf(p) # BuildingOf(q)
        BY <1>3, <2>1 DEF HoldsBuilding
      <3>2. Of(BuildingOf(p), Stored \union {post[p]})' = Of(BuildingOf(p), Stored \union {post[p]})
        BY <3>1 DEF Of
      <3>3. /\ fresh'[p] \in Of(BuildingOf(p), Stored \union {post[p]})'
            /\ \A s \in Of(BuildingOf(p), Stored \union {post[p]})' : NoLater(s, fresh[p])
        BY <2>1, <3>2 DEF FreshReady, IsNewest
      <3>4. \A s : NoLater(s, fresh[p])' <=> NoLater(s, fresh[p])
        BY <2>1 DEF NoLater
      <3> QED
        BY <2>1, <3>3, <3>4 DEF FreshReady, IsNewest
    <2> QED
      BY <2>1 DEF IInv, FreshIsNewest
  <1>8. TargetsHeld'
    BY <1>2 DEF IInv, TargetsHeld, HoldsTarget, tvars
  <1>9. NulledAreReferring'
    <2>1. ASSUME NEW w \in Takedowns, tpc[w] = "delete"
          PROVE  ReferringTo(target[w])' = ReferringTo(target[w])
      <3>1. plan[q].supersedes # target[w]
        BY <2>1 DEF IInv, TargetsHeld, HoldsTarget, Uncommitted, CommitSubmit
      <3> QED
        BY <3>1 DEF ReferringTo, Stored, tvars
    <2> QED
      BY <2>1 DEF IInv, NulledAreReferring, tvars
  <1>10. SupersedesStored'
    <2>1. plan[q].supersedes # NoReport =>
            /\ plan[q].supersedes \in Stored
            /\ doc[plan[q].supersedes].building = BuildingOf(q)
      BY DEF RowReady, NextInLine, NewestOrNull, IsNewest, Of, FirstRow
    <2>2. ASSUME NEW r \in Stored, reports[r].supersedes # NoReport
          PROVE  /\ reports[r].supersedes \in Stored
                 /\ doc[reports[r].supersedes].building = doc[r].building
      BY <2>2 DEF IInv, SupersedesStored
    <2>3. \A r \in Stored : r \in ReportIds \ {post[q]}
      BY DEF Stored
    <2>4. ASSUME NEW r \in Stored', reports'[r].supersedes # NoReport
          PROVE  /\ reports'[r].supersedes \in Stored'
                 /\ doc[reports'[r].supersedes].building = doc[r].building
      BY <2>1, <2>2, <2>3, <2>4 DEF BuildingOf
    <2> QED
      BY <2>4 DEF SupersedesStored
  <1>11. VersionsCount'
    <2>1. ASSUME NEW b \in Buildings, b # BuildingOf(q), Of(b, erased) = {}
          PROVE  {reports'[r].version : r \in Of(b, Stored)'} = 1 .. Cardinality(Of(b, Stored)')
      <3>1. Of(b, Stored)' = Of(b, Stored)
        BY <2>1
      <3>2. \A r \in Of(b, Stored) : reports'[r] = reports[r]
        BY DEF Of, Stored
      <3>3. {reports[r].version : r \in Of(b, Stored)} = 1 .. Cardinality(Of(b, Stored))
        BY <2>1 DEF IInv, VersionsCount
      <3>4. {reports'[r].version : r \in Of(b, Stored)} = {reports[r].version : r \in Of(b, Stored)}
        BY <3>2
      <3> QED
        BY <3>1, <3>3, <3>4
    <2>2. ASSUME BuildingOf(q) \in Buildings, Of(BuildingOf(q), erased) = {}
          PROVE  {reports'[r].version : r \in Of(BuildingOf(q), Stored)'}
                   = 1 .. Cardinality(Of(BuildingOf(q), Stored)')
      <3> DEFINE rows == Of(BuildingOf(q), Stored)
                 n    == Cardinality(rows)
      <3>1. IsFiniteSet(rows) /\ n \in Nat /\ post[q] \notin rows
        <4>1. Stored \in SUBSET ReportIds /\ post[q] \notin Stored
          BY DEF Stored
        <4>2. post[q] \notin rows
          BY <4>1 DEF Of
        <4> QED
          BY <4>1, <4>2, OfIsFinite
      <3>2. Cardinality(Of(BuildingOf(q), Stored)') = n + 1
        BY <3>1, FS_AddElement
      <3>3. plan[q].version = n + 1
        BY <2>2 DEF RowReady, HasBuilding, NextInLine
      <3>4. {reports[r].version : r \in rows} = 1 .. n
        BY <2>2 DEF IInv, VersionsCount
      <3>5. {reports'[r].version : r \in rows \union {post[q]}}
              = {reports[r].version : r \in rows} \union {n + 1}
        <4>1. \A r \in rows : reports'[r] = reports[r]
          BY DEF Of, Stored
        <4> QED
          BY <3>3, <4>1
      <3>6. 1 .. (n + 1) = (1 .. n) \union {n + 1}
        BY <3>1
      <3> QED
        BY <3>2, <3>4, <3>5, <3>6
    <2> QED
      BY <2>1, <2>2 DEF VersionsCount
  <1>12. DamageIsNewestUnlessErased'
    <2>1. ASSUME NEW b \in Buildings, b # BuildingOf(q)
          PROVE  damage'[b] = damage[b]
      BY <2>1 DEF CommitSubmit, TypeOK
    <2>2. ASSUME BuildingOf(q) \in Buildings
          PROVE  /\ damage'[BuildingOf(q)] = doc[fresh[q]].damage
                 /\ fresh[q] \in ReportIds
                 /\ IsNewest(fresh[q], Of(BuildingOf(q), Stored)')
      <3>1. HasBuilding(q) /\ pc[q] = "commit"
        BY <2>2 DEF HasBuilding, CommitSubmit
      <3>2. FreshReady(q)
        BY <3>1 DEF IInv, FreshIsNewest
      <3>3. Of(BuildingOf(q), Stored \union {post[q]}) = Of(BuildingOf(q), Stored)'
        BY DEF Of
      <3> QED
        BY <1>1, <2>2, <3>1, <3>2, <3>3 DEF FreshReady, CommitSubmit, TypeOK
    <2> QED
      <3>1. ASSUME NEW b \in Buildings, b # BuildingOf(q), Of(b, erased) = {}
            PROVE  \/ Of(b, Stored)' = {} /\ damage'[b] = NoDamage
                   \/ \E n \in ReportIds : IsNewest(n, Of(b, Stored)') /\ damage'[b] = doc[n].damage
        <4>1. \/ Of(b, Stored) = {} /\ damage[b] = NoDamage
              \/ \E n \in ReportIds : IsNewest(n, Of(b, Stored)) /\ damage[b] = doc[n].damage
          BY <3>1 DEF IInv, DamageIsNewestUnlessErased
        <4>2. Of(b, Stored)' = Of(b, Stored) /\ damage'[b] = damage[b]
          BY <2>1, <3>1
        <4> QED
          BY <4>1, <4>2
      <3>2. ASSUME NEW b \in Buildings, b = BuildingOf(q)
            PROVE  \E n \in ReportIds : IsNewest(n, Of(b, Stored)') /\ damage'[b] = doc[n].damage
        BY <2>2, <3>2
      <3> QED
        BY <3>1, <3>2 DEF DamageIsNewestUnlessErased
  <1> QED
    BY <1>1, <1>4, <1>5, <1>6, <1>7, <1>8, <1>9, <1>10, <1>11, <1>12 DEF IInv

------------------------------------------------------------------------------
(* The commit of a takedown *)

\* What the DELETE of w does.
DeleteEffect(w) ==
  /\ UNCHANGED <<doc, damage, pc, post, plan, fresh, target>>
  /\ target[w] \in Stored
  /\ nulled[w] = ReferringTo(target[w])
  /\ Stored' = Stored \ {target[w]}
  /\ \A s \in Stored \ {target[w]} :
       /\ reports'[s].version = reports[s].version
       /\ reports'[s].supersedes =
            IF reports[s].supersedes = target[w] THEN NoReport ELSE reports[s].supersedes
  /\ erased' = erased \union {target[w]}
  /\ tpc[w] = "delete" /\ tpc'[w] = "erased"
  /\ \A x \in Takedowns \ {w} : tpc'[x] = tpc[x] /\ nulled'[x] = nulled[x]
  /\ \A b, S : Of(b, S)' = Of(b, S)
  /\ \A b : Of(b, Stored)' = Of(b, Stored) \ {target[w]}
  /\ \A b : b # doc[target[w]].building => Of(b, erased)' = Of(b, erased)
  /\ target[w] \in Of(doc[target[w]].building, erased)'
  /\ \A r, S : IsNewest(r, S)' <=> IsNewest(r, S)
  /\ \A p \in Requests : /\ BuildingOf(p)' = BuildingOf(p)
                         /\ HasBuilding(p)' = HasBuilding(p)
                         /\ Uncommitted(p)' = Uncommitted(p)
                         /\ HoldsBuilding(p)' = HoldsBuilding(p)

LEMMA DeleteTables ==
  ASSUME IInv, NEW w \in Takedowns, DeleteAndCommit(w)
  PROVE  DeleteEffect(w)
  <1> USE DEF DeleteAndCommit
  <1>a. TypeOK
    BY DEF IInv
  <1>1. UNCHANGED <<doc, damage, pc, post, plan, fresh, target>>
    BY DEF qvars
  <1>2. target[w] \in Stored /\ nulled[w] = ReferringTo(target[w])
    BY DEF IInv, TargetsHeld, NulledAreReferring, HoldsTarget
  <1>3. ASSUME NEW s \in Stored \ {target[w]}
        PROVE  /\ reports'[s] \in Row
               /\ reports'[s].version = reports[s].version
               /\ reports'[s].supersedes =
                    IF reports[s].supersedes = target[w] THEN NoReport ELSE reports[s].supersedes
    <2>1. s \in ReportIds /\ reports[s] \in Row
      BY <1>a DEF TypeOK, Stored
    <2>2. reports'[s] = IF reports[s].supersedes = target[w]
                          THEN [reports[s] EXCEPT !.supersedes = NoReport]
                          ELSE reports[s]
      BY <1>2, <2>1 DEF Without, ReferringTo
    <2> QED
      BY <2>1, <2>2 DEF Row
  <1>4. reports'[target[w]] = NoRow
    BY <1>2 DEF Without, Stored
  <1>5. \A s \in ReportIds \ Stored : reports'[s] = NoRow
    BY <1>2, <1>4 DEF Without, Stored
  <1>6. Stored' = Stored \ {target[w]}
    BY <1>3, <1>4, <1>5 DEF Stored
  <1>7. /\ tpc[w] = "delete" /\ tpc'[w] = "erased"
        /\ \A x \in Takedowns \ {w} : tpc'[x] = tpc[x] /\ nulled'[x] = nulled[x]
    BY <1>a DEF TypeOK
  <1>8. /\ \A b, S : Of(b, S)' = Of(b, S)
        /\ \A r, S : IsNewest(r, S)' <=> IsNewest(r, S)
    BY <1>1 DEF Of, IsNewest, NoLater
  <1>9. /\ \A b : Of(b, Stored)' = Of(b, Stored) \ {target[w]}
        /\ \A b : b # doc[target[w]].building => Of(b, erased)' = Of(b, erased)
        /\ target[w] \in Of(doc[target[w]].building, erased)'
    BY <1>1, <1>6 DEF Of
  <1>10. \A p \in Requests : /\ BuildingOf(p)' = BuildingOf(p)
                             /\ HasBuilding(p)' = HasBuilding(p)
                             /\ Uncommitted(p)' = Uncommitted(p)
                             /\ HoldsBuilding(p)' = HoldsBuilding(p)
    BY <1>1 DEF BuildingOf, HasBuilding, Uncommitted, HoldsBuilding
  <1> QED
    BY <1>1, <1>2, <1>3, <1>6, <1>7, <1>8, <1>9, <1>10 DEF DeleteEffect

\* A row stays next in line when a row other than the one it supersedes goes.
LEMMA DeleteKeepsLine ==
  ASSUME IInv, NEW w \in Takedowns, DeleteEffect(w),
         NEW row, NEW b, NextInLine(row, b), row.supersedes # target[w]
  PROVE  NextInLine(row, b)'
  <1> USE DEF DeleteEffect
  <1>1. CASE target[w] \notin Of(b, Stored)
    <2>1. b # doc[target[w]].building
      BY <1>1 DEF Of
    <2>2. Of(b, Stored) \ {target[w]} = Of(b, Stored)
      BY <1>1
    <2>3. Of(b, Stored)' = Of(b, Stored)
      BY <2>2
    <2>4. Of(b, erased)' = Of(b, erased)
      BY <2>1
    <2> QED
      BY <2>3, <2>4 DEF NextInLine, NewestOrNull
  <1>2. CASE target[w] \in Of(b, Stored)
    <2>1. IsNewest(row.supersedes, Of(b, Stored))
      BY <1>2 DEF NextInLine, NewestOrNull
    <2>2. IsNewest(row.supersedes, Of(b, Stored) \ {target[w]})
      BY <2>1 DEF IsNewest
    <2>3. Stored \in SUBSET ReportIds
      BY DEF Stored
    <2>4. /\ IsFiniteSet(Of(b, Stored)) /\ Cardinality(Of(b, Stored)) \in Nat
          /\ Cardinality(Of(b, Stored) \ {target[w]}) = Cardinality(Of(b, Stored)) - 1
      BY <1>2, <2>3, OfIsFinite, FS_RemoveElement
    <2>5. row.version > Cardinality(Of(b, Stored)) /\ row \in Row
      BY DEF NextInLine
    <2>6. row.version > Cardinality(Of(b, Stored) \ {target[w]})
      BY <2>4, <2>5 DEF Row
    <2>7. Of(b, erased)' # {}
      <3>1. doc[target[w]].building = b
        BY <1>2 DEF Of
      <3> QED
        BY <3>1
    <2>8. NewestOrNull(row.supersedes, Of(b, Stored))'
      BY <2>2 DEF NewestOrNull
    <2> QED
      BY <2>5, <2>6, <2>7, <2>8 DEF NextInLine
  <1> QED
    BY <1>1, <1>2

LEMMA DeleteKeepsIInv ==
  ASSUME IInv, NEW w \in Takedowns, DeleteAndCommit(w)
  PROVE  IInv'
  <1>a. DeleteEffect(w)
    BY DeleteTables
  <1>b. TypeOK /\ TypeOK'
    BY TakedownType DEF IInv, TakedownStep
  <1> USE <1>a, <1>b DEF DeleteEffect
  <1>1. LockExclusive'
    BY DEF IInv, LockExclusive
  <1>2. PlanBeforeInsert'
    <2>1. ASSUME NEW p \in Requests, PlanReady(p)
          PROVE  PlanReady(p)'
      <3>1. CASE ~HasBuilding(p) /\ plan[p] = FirstRow
        BY <3>1 DEF PlanReady
      <3>2. CASE HasBuilding(p) /\ NextInLine(plan[p], BuildingOf(p)) /\ plan[p].supersedes # target[w]
        BY <3>2, DeleteKeepsLine DEF PlanReady
      <3>3. CASE HasBuilding(p) /\ NextInLine(plan[p], BuildingOf(p)) /\ plan[p].supersedes = target[w]
        <4>1. target[w] \in ReportIds /\ target[w] # NoReport
          BY DEF Stored
        <4>2. doc[target[w]].building = BuildingOf(p)
          BY <3>3, <4>1 DEF NextInLine, NewestOrNull, IsNewest, Of
        <4> QED
          BY <3>3, <4>1, <4>2 DEF PlanReady
      <3>4. CASE /\ HasBuilding(p)
                 /\ plan[p].supersedes \in ReportIds \ Stored
                 /\ doc[plan[p].supersedes].building = BuildingOf(p)
        BY <3>4 DEF PlanReady
      <3> QED
        BY <2>1, <3>1, <3>2, <3>3, <3>4 DEF PlanReady
    <2>2. PlanBeforeInsert
      BY DEF IInv
    <2> QED
      BY <2>1, <2>2 DEF PlanBeforeInsert
  <1>3. \A p \in Requests : Uncommitted(p) => plan[p].supersedes # target[w]
    BY DEF IInv, TargetsHeld, HoldsTarget
  <1>4. PlanAfterInsert'
    <2>1. ASSUME NEW p \in Requests, Uncommitted(p), RowReady(p)
          PROVE  RowReady(p)'
      <3>1. ~KeySeen(p)'
        BY <2>1 DEF KeySeen, RowReady
      <3>2. InsertFree(p)'
        BY <2>1 DEF InsertFree, RowReady
      <3>3. HasBuilding(p) => NextInLine(plan[p], BuildingOf(p))'
        BY <1>3, <2>1, DeleteKeepsLine DEF RowReady
      <3> QED
        BY <2>1, <3>1, <3>2, <3>3 DEF RowReady
    <2> QED
      BY <2>1 DEF IInv, PlanAfterInsert
  <1>5. FreshIsNewest'
    <2>1. ASSUME NEW p \in Requests, pc[p] = "commit", HasBuilding(p)
          PROVE  FreshReady(p)'
      <3> DEFINE b == BuildingOf(p)
      <3>1. /\ RowReady(p) /\ FreshReady(p) /\ NextInLine(plan[p], b)
            /\ plan[p].supersedes # target[w]
        BY <1>3, <2>1 DEF IInv, PlanAfterInsert, FreshIsNewest, Uncommitted, RowReady
      <3>2. post[p] # target[w]
        BY <3>1 DEF RowReady
      <3>3. fresh[p] # target[w]
        <4>1. SUFFICES ASSUME fresh[p] = target[w]
                       PROVE  FALSE
          OBVIOUS
        <4>2. IsNewest(target[w], Of(b, Stored))
          BY <3>1, <4>1 DEF FreshReady, IsNewest, Of
        <4>3. IsNewest(plan[p].supersedes, Of(b, Stored))
          BY <3>1, <4>2 DEF NextInLine, NewestOrNull, IsNewest
        <4>4. Of(b, Stored) \in SUBSET ReportIds
          BY DEF Of, Stored
        <4> QED
          BY <3>1, <4>2, <4>3, <4>4, NewestUnique
      <3>4. Of(b, Stored \union {post[p]})' = Of(b, Stored \union {post[p]}) \ {target[w]}
        BY <3>2 DEF Of
      <3>5. IsNewest(fresh[p], Of(b, Stored \union {post[p]}) \ {target[w]})
        BY <3>1, <3>3 DEF FreshReady, IsNewest
      <3> QED
        BY <3>1, <3>4, <3>5 DEF FreshReady
    <2> QED
      BY <2>1 DEF FreshIsNewest
  <1>6. TargetsHeld'
    BY DEF IInv, TargetsHeld, HoldsTarget
  <1>7. NulledAreReferring'
    <2>1. ASSUME NEW x \in Takedowns \ {w}, tpc[x] = "delete"
          PROVE  nulled[x] = ReferringTo(target[x])'
      <3>1. /\ nulled[x] = ReferringTo(target[x]) /\ target[w] \notin nulled[x]
            /\ target[x] # target[w]
        BY <2>1 DEF IInv, NulledAreReferring, TargetsHeld, HoldsTarget
      <3>2. target[x] # NoReport
        BY DEF TypeOK
      <3> QED
        BY <3>1, <3>2 DEF ReferringTo
    <2> QED
      BY <2>1 DEF NulledAreReferring
  <1>8. SupersedesStored'
    <2>1. \A s \in Stored : reports[s].supersedes # NoReport =>
            /\ reports[s].supersedes \in Stored
            /\ doc[reports[s].supersedes].building = doc[s].building
      BY DEF IInv, SupersedesStored
    <2> QED
      BY <2>1 DEF SupersedesStored
  <1>9. VersionsCount'
    <2>1. ASSUME NEW b \in Buildings, Of(b, erased)' = {}
          PROVE  {reports'[r].version : r \in Of(b, Stored)'} = 1 .. Cardinality(Of(b, Stored)')
      <3>1. b # doc[target[w]].building
        BY <2>1
      <3>2. target[w] \notin Of(b, Stored) /\ Of(b, Stored) \subseteq Stored
        BY <3>1 DEF Of
      <3>3. Of(b, Stored)' = Of(b, Stored) /\ Of(b, erased) = {}
        <4>1. Of(b, Stored) \ {target[w]} = Of(b, Stored)
          BY <3>2
        <4> QED
          BY <2>1, <3>1, <4>1
      <3>4. {reports'[r].version : r \in Of(b, Stored)} = {reports[r].version : r \in Of(b, Stored)}
        BY <3>2
      <3>5. {reports[r].version : r \in Of(b, Stored)} = 1 .. Cardinality(Of(b, Stored))
        BY <3>3 DEF IInv, VersionsCount
      <3> QED
        BY <3>3, <3>4, <3>5
    <2> QED
      BY <2>1 DEF VersionsCount
  <1>10. DamageIsNewestUnlessErased'
    <2>1. ASSUME NEW b \in Buildings, Of(b, erased)' = {}
          PROVE  \/ Of(b, Stored)' = {} /\ damage[b] = NoDamage
                 \/ \E n \in ReportIds : IsNewest(n, Of(b, Stored)') /\ damage[b] = doc[n].damage
      <3>1. b # doc[target[w]].building
        BY <2>1
      <3>2. Of(b, Stored) \ {target[w]} = Of(b, Stored)
        BY <3>1 DEF Of
      <3>3. Of(b, Stored)' = Of(b, Stored) /\ Of(b, erased) = {}
        BY <2>1, <3>1, <3>2
      <3> QED
        BY <3>3 DEF IInv, DamageIsNewestUnlessErased
    <2> QED
      BY <2>1 DEF DamageIsNewestUnlessErased
  <1> QED
    BY <1>1, <1>2, <1>4, <1>5, <1>6, <1>7, <1>8, <1>9, <1>10 DEF IInv

------------------------------------------------------------------------------
(* The theorems *)

LEMMA InitIInv == Init => IInv
  <1> SUFFICES ASSUME Init
               PROVE  IInv
    OBVIOUS
  <1> USE DEF Init, HInit
  <1>1. Stored = {}
    BY DEF Stored
  <1>2. \A b : Of(b, Stored) = {}
    BY <1>1 DEF Of
  <1>3. TypeOK
    BY FirstRowIsRow DEF TypeOK
  <1>4. /\ \A q \in Requests : pc[q] = "idle" /\ ~Uncommitted(q) /\ ~HoldsBuilding(q)
        /\ \A w \in Takedowns : tpc[w] = "idle" /\ ~HoldsTarget(w)
    BY DEF Uncommitted, HoldsBuilding, HoldsTarget
  <1>5. LockExclusive /\ PlanBeforeInsert /\ PlanAfterInsert /\ FreshIsNewest
        /\ TargetsHeld /\ NulledAreReferring
    BY <1>4 DEF LockExclusive, PlanBeforeInsert, PlanAfterInsert, FreshIsNewest,
                TargetsHeld, NulledAreReferring
  <1>6. VersionsCount
    <2>1. Cardinality({}) = 0
      BY FS_EmptySet
    <2>2. 1 .. 0 = {}
      OBVIOUS
    <2>3. \A b : /\ {reports[r].version : r \in Of(b, Stored)} = {}
               /\ 1 .. Cardinality(Of(b, Stored)) = {}
      BY <1>2, <2>1, <2>2
    <2> QED
      BY <2>3 DEF VersionsCount
  <1>7. SupersedesStored /\ DamageIsNewestUnlessErased
    BY <1>1, <1>2 DEF SupersedesStored, DamageIsNewestUnlessErased
  <1> QED
    BY <1>3, <1>5, <1>6, <1>7 DEF IInv

LEMMA StutterIInv ==
  ASSUME IInv, UNCHANGED vars
  PROVE  IInv'
  <1>1. SameTables /\ UNCHANGED <<qvars, tvars>>
    BY DEF vars, SameTables, qvars, tvars
  <1>2. TypeOK'
    BY DEF IInv, TypeOK, vars
  <1> USE <1>1, SameTablesSame DEF qvars, tvars
  <1>3. \A p \in Requests : /\ BuildingOf(p)' = BuildingOf(p)
                            /\ HasBuilding(p)' = HasBuilding(p)
                            /\ HoldsBuilding(p)' = HoldsBuilding(p)
                            /\ Uncommitted(p)' = Uncommitted(p)
    BY DEF BuildingOf, HasBuilding, SameTables, HoldsBuilding, Uncommitted
  <1>4. LockExclusive'
    BY <1>3 DEF IInv, LockExclusive
  <1>5. PlanBeforeInsert'
    <2>1. \A p \in Requests : PlanReady(p) => PlanReady(p)'
      BY <1>3 DEF PlanReady, SameTables
    <2> QED
      BY <1>3, <2>1 DEF IInv, PlanBeforeInsert
  <1>6. PlanAfterInsert'
    <2>1. \A p \in Requests : KeySeen(p)' = KeySeen(p) /\ (InsertFree(p) => InsertFree(p)')
      BY <1>3 DEF KeySeen, InsertFree, SameTables
    <2>2. \A p \in Requests : RowReady(p) => RowReady(p)'
      BY <1>3, <2>1 DEF RowReady
    <2> QED
      BY <1>3, <2>2 DEF IInv, PlanAfterInsert
  <1>7. FreshIsNewest'
    BY <1>3 DEF IInv, FreshIsNewest, FreshReady
  <1>8. TargetsHeld' /\ NulledAreReferring'
    BY <1>3 DEF IInv, TargetsHeld, NulledAreReferring, HoldsTarget
  <1> QED
    BY <1>2, <1>4, <1>5, <1>6, <1>7, <1>8, SameTablesInv DEF IInv

LEMMA NextIInv ==
  ASSUME IInv, [Next]_vars
  PROVE  IInv'
  <1>1. ASSUME NEW q \in Requests, SubmitStep(q) \/ AbortSubmit(q)
        PROVE  IInv'
    BY <1>1, QuietSubmitSteps, CommitKeepsIInv
  <1>2. ASSUME NEW w \in Takedowns, TakedownStep(w) \/ AbortTakedown(w)
        PROVE  IInv'
    BY <1>2, QuietTakedownSteps, DeleteKeepsIInv
  <1>3. CASE UNCHANGED vars
    BY <1>3, StutterIInv
  <1> QED
    BY <1>1, <1>2, <1>3 DEF Next, Quiescent

\* The inductive invariant: the locks, the plans of the submits in flight and
\* the tables stay consistent through every step.
THEOREM Inductive == Spec => []IInv
  BY InitIInv, NextIInv, PTL DEF Spec

\* Every variable keeps its type.
THEOREM TypeCorrect == Spec => []TypeOK
  <1>1. IInv => TypeOK
    BY DEF IInv
  <1> QED
    BY <1>1, Inductive, PTL

\* Counting the rows of a building and inserting the next one is one step: the
\* versions of a building no report of which was erased are 1 to n.
THEOREM VersionsAreCounted == Spec => []VersionsCount
  <1>1. IInv => VersionsCount
    BY DEF IInv
  <1> QED
    BY <1>1, Inductive, PTL

\* No row refers to a row that is gone or that is of another building.
THEOREM NoDanglingSupersedes == Spec => []SupersedesStored
  <1>1. IInv => SupersedesStored
    BY DEF IInv
  <1> QED
    BY <1>1, Inductive, PTL

\* Without takedowns, the damage cached for a building is that of its newest row.
THEOREM DamageIsDerived == Spec => []DamageIsNewestUnlessErased
  <1>1. IInv => DamageIsNewestUnlessErased
    BY DEF IInv
  <1> QED
    BY <1>1, Inductive, PTL

\* A takedown that reaches its DELETE never trips over the foreign key.
THEOREM DeleteGoesThrough == Spec => []TakedownUnhindered
  <1>1. IInv => TakedownUnhindered
    BY DEF IInv, TakedownUnhindered, NulledAreReferring, ReferringTo
  <1> QED
    BY <1>1, Inductive, PTL

------------------------------------------------------------------------------
(* What a client is told *)

\* Documents and requests keep their keys, and a row that leaves the table is
\* recorded as erased.
LEMMA KeysAreKept ==
  ASSUME IInv, [Next]_vars
  PROVE  /\ UNCHANGED <<doc, post>>
         /\ erased \subseteq erased'
         /\ Stored \union erased \subseteq (Stored \union erased)'
  <1>1. ASSUME NEW q \in Requests, SubmitStep(q) \/ AbortSubmit(q), ~CommitSubmit(q)
        PROVE  UNCHANGED <<doc, post, erased, reports>>
    BY <1>1 DEF SubmitStep, BeginSubmit, UpsertBuilding, NextVersionForBuilding,
      InsertReplay, InsertKeySeen, InsertPredecessorGone, InsertNew,
      RefreshBuildingCurrentDamage, LookupByKey, ReadBack, AbortSubmit
  <1>2. ASSUME NEW w \in Takedowns, TakedownStep(w) \/ AbortTakedown(w), ~DeleteAndCommit(w)
        PROVE  UNCHANGED <<doc, post, erased, reports>>
    BY <1>2 DEF TakedownStep, LockTarget, RefuseTakedown, NullReferences, AbortTakedown, qvars
  <1>3. ASSUME UNCHANGED vars
        PROVE  UNCHANGED <<doc, post, erased, reports>>
    BY <1>3 DEF vars
  <1>4. ASSUME UNCHANGED <<doc, post, erased, reports>>
        PROVE  /\ UNCHANGED <<doc, post>>
               /\ erased \subseteq erased'
               /\ Stored \union erased \subseteq (Stored \union erased)'
    BY <1>4 DEF Stored
  <1>5. ASSUME NEW q \in Requests, CommitSubmit(q)
        PROVE  /\ UNCHANGED <<doc, post>>
               /\ erased \subseteq erased'
               /\ Stored \union erased \subseteq (Stored \union erased)'
    BY <1>5, CommitTables DEF CommitEffect
  <1>6. ASSUME NEW w \in Takedowns, DeleteAndCommit(w)
        PROVE  /\ UNCHANGED <<doc, post>>
               /\ erased \subseteq erased'
               /\ Stored \union erased \subseteq (Stored \union erased)'
    BY <1>6, DeleteTables DEF DeleteEffect
  <1> QED
    BY <1>1, <1>2, <1>3, <1>4, <1>5, <1>6 DEF Next, Quiescent

\* When a step acknowledges a request, it does so with the document it has just
\* committed, which no row shared a key with, or with a row of the table.
LEMMA AnswerSteps ==
  ASSUME IInv, [Next]_vars, NEW q \in Requests, answer'[q] # answer[q]
  PROVE  /\ answer'[q] = "created" => CommitSubmit(q)
         /\ answer'[q] = "replayed" => KeySeen(q)
  <1>1. ASSUME NEW p \in Requests, SubmitStep(p) \/ AbortSubmit(p)
        PROVE  /\ answer'[q] = "created" => CommitSubmit(q)
               /\ answer'[q] = "replayed" => KeySeen(q)
    <2>1. CASE p # q
      BY <1>1, <2>1 DEF IInv, TypeOK, SubmitStep, BeginSubmit, UpsertBuilding,
        NextVersionForBuilding, InsertReplay, InsertKeySeen, InsertPredecessorGone,
        InsertNew, RefreshBuildingCurrentDamage, CommitSubmit, LookupByKey, ReadBack,
        AbortSubmit
    <2>2. CASE p = q /\ CommitSubmit(q)
      BY <2>2 DEF IInv, TypeOK, CommitSubmit
    <2>3. CASE p = q /\ InsertReplay(q)
      BY <2>3 DEF IInv, TypeOK, InsertReplay, KeySeen
    <2>4. CASE p = q /\ LookupByKey(q)
      BY <2>4 DEF IInv, TypeOK, LookupByKey
    <2>5. CASE p = q /\ (InsertPredecessorGone(q) \/ AbortSubmit(q))
      BY <2>5 DEF IInv, TypeOK, InsertPredecessorGone, AbortSubmit
    <2>6. CASE /\ p = q
               /\ \/ BeginSubmit(q) \/ UpsertBuilding(q) \/ NextVersionForBuilding(q)
                  \/ InsertKeySeen(q) \/ InsertNew(q)
                  \/ RefreshBuildingCurrentDamage(q) \/ ReadBack(q)
      BY <2>6 DEF BeginSubmit, UpsertBuilding, NextVersionForBuilding, InsertKeySeen,
        InsertNew, RefreshBuildingCurrentDamage, ReadBack
    <2> QED
      BY <1>1, <2>1, <2>2, <2>3, <2>4, <2>5, <2>6 DEF SubmitStep
  <1>2. ASSUME NEW w \in Takedowns, TakedownStep(w) \/ AbortTakedown(w)
        PROVE  FALSE
    BY <1>2 DEF TakedownStep, LockTarget, RefuseTakedown, NullReferences,
      DeleteAndCommit, AbortTakedown, qvars
  <1>3. ~UNCHANGED vars
    BY DEF vars
  <1> QED
    BY <1>1, <1>2, <1>3 DEF Next, Quiescent

LEMMA NextAcknowledged ==
  ASSUME IInv, AcknowledgedIsStored, [Next]_vars
  PROVE  AcknowledgedIsStored'
  <1> SUFFICES ASSUME NEW q \in Requests, answer'[q] \in {"created", "replayed"}
               PROVE  \E r \in (Stored \union erased)' : doc'[r].key = doc'[post'[q]].key
    BY DEF AcknowledgedIsStored
  <1>1. CASE answer'[q] = answer[q]
    <2>1. \E r \in Stored \union erased : doc[r].key = doc[post[q]].key
      BY <1>1 DEF AcknowledgedIsStored
    <2> QED
      BY <2>1, KeysAreKept
  <1>2. CASE answer'[q] # answer[q] /\ CommitSubmit(q)
    <2>1. post[q] \in Stored' /\ UNCHANGED <<doc, post>>
      BY <1>2, CommitTables DEF CommitEffect
    <2> QED
      BY <2>1
  <1>3. CASE answer'[q] # answer[q] /\ KeySeen(q)
    BY <1>3, KeysAreKept DEF KeySeen
  <1> QED
    BY <1>1, <1>2, <1>3, AnswerSteps

LEMMA NextCreatedOnce ==
  ASSUME IInv, AcknowledgedIsStored, CreatedOnce, [Next]_vars
  PROVE  CreatedOnce'
  <1>1. UNCHANGED <<doc, post>> /\ erased \subseteq erased'
    BY KeysAreKept
  <1>2. ASSUME NEW p \in Requests, NEW q \in Requests, p # q, CommitSubmit(q),
               answer'[p] = "created", doc[post[p]].key = doc[post[q]].key
        PROVE  \E r \in erased : doc[r].key = doc[post[q]].key
    <2>1. answer[p] = "created"
      BY <1>2 DEF IInv, TypeOK, CommitSubmit
    <2>2. \E r \in Stored \union erased : doc[r].key = doc[post[q]].key
      BY <1>2, <2>1 DEF AcknowledgedIsStored
    <2>3. ~KeySeen(q)
      BY <1>2, CommitTables DEF CommitEffect, RowReady
    <2> QED
      BY <2>2, <2>3 DEF KeySeen
  <1>3. ASSUME NEW p \in Requests, NEW q \in Requests, p # q,
               answer'[p] = "created", answer'[q] = "created",
               doc[post[p]].key = doc[post[q]].key
        PROVE  \E r \in erased : doc[r].key = doc[post[q]].key
    <2>1. CASE answer[p] = "created" /\ answer[q] = "created"
      BY <1>3, <2>1 DEF CreatedOnce
    <2>2. CASE answer[q] # "created"
      <3>1. CommitSubmit(q)
        BY <1>3, <2>2, AnswerSteps
      <3> QED
        BY <1>2, <1>3, <3>1
    <2>3. CASE answer[p] # "created"
      <3>1. CommitSubmit(p)
        BY <1>3, <2>3, AnswerSteps
      <3> QED
        BY <1>2, <1>3, <3>1
    <2> QED
      BY <2>1, <2>2, <2>3
  <1> QED
    BY <1>1, <1>3 DEF CreatedOnce

\* No acknowledged commit is lost: what a client was told is stored, as new or
\* as a replay, is in the table or was erased.
THEOREM AcknowledgedIsStoredAlways == Spec => []AcknowledgedIsStored
  <1>1. Init => AcknowledgedIsStored
    BY DEF Init, AcknowledgedIsStored
  <1> QED
    BY <1>1, Inductive, NextAcknowledged, PTL DEF Spec

\* Of the requests that carry one idempotency key at most one is told that it
\* created a report, unless a report with that key was erased.
THEOREM CreatedOnceAlways == Spec => []CreatedOnce
  <1>1. Init => CreatedOnce
    BY DEF Init, CreatedOnce
  <1> QED
    BY <1>1, Inductive, AcknowledgedIsStoredAlways, NextCreatedOnce, PTL DEF Spec

------------------------------------------------------------------------------
(* The refinement *)

\* The commit of a submit is an Accept of its report.
LEMMA CommitIsAccept ==
  ASSUME IInv, NEW q \in Requests, CommitSubmit(q)
  PROVE  Accept(post[q])
  <1> DEFINE r == post[q]
             b == BuildingOf(q)
  <1>a. CommitEffect(q)
    BY CommitTables
  <1> USE <1>a DEF CommitEffect
  <1>1. r \notin Stored /\ \A s \in Stored : doc[s].key # doc[r].key
    BY DEF RowReady, KeySeen
  <1>2. reports' = [reports EXCEPT ![r] = reports'[r]]
    BY DEF CommitSubmit, IInv, TypeOK
  <1>3. CASE b = NoBuilding
    <2>1. reports'[r] = FirstRow /\ UNCHANGED damage
      BY <1>3 DEF RowReady, HasBuilding, CommitSubmit
    <2> QED
      BY <1>1, <1>2, <1>3, <2>1 DEF Accept, BuildingOf, FirstRow
  <1>4. CASE b # NoBuilding
    <2>1. NextInLine(reports'[r], b)
      BY <1>4 DEF RowReady, HasBuilding
    <2>2. FreshReady(q)
      BY <1>4 DEF IInv, FreshIsNewest, HasBuilding, CommitSubmit
    <2>3. damage' = [damage EXCEPT ![b] = doc[fresh[q]].damage]
      BY <1>4 DEF CommitSubmit, HasBuilding
    <2> QED
      BY <1>1, <1>2, <1>4, <2>1, <2>2, <2>3 DEF Accept, BuildingOf, FreshReady
  <1> QED
    BY <1>3, <1>4

\* The commit of a takedown is an Erase of its target.
LEMMA DeleteIsErase ==
  ASSUME IInv, NEW w \in Takedowns, DeleteAndCommit(w)
  PROVE  Erase(target[w])
  <1>1. target[w] \in Stored /\ nulled[w] = ReferringTo(target[w])
    BY DeleteTables DEF DeleteEffect
  <1> QED
    BY <1>1 DEF Erase, DeleteAndCommit

LEMMA StepSimulation ==
  ASSUME IInv, [Next]_vars
  PROVE  [HNext]_hvars
  <1>1. ASSUME NEW q \in Requests, SubmitStep(q) \/ AbortSubmit(q)
        PROVE  [HNext]_hvars
    <2>1. CASE CommitSubmit(q)
      <3>1. post[q] \in ReportIds
        BY DEF IInv, TypeOK
      <3> QED
        BY <2>1, <3>1, CommitIsAccept DEF HNext
    <2>2. CASE ~CommitSubmit(q)
      BY <1>1, <2>2 DEF SubmitStep, BeginSubmit, UpsertBuilding, NextVersionForBuilding,
        InsertReplay, InsertKeySeen, InsertPredecessorGone, InsertNew,
        RefreshBuildingCurrentDamage, LookupByKey, ReadBack, AbortSubmit, hvars
    <2> QED
      BY <2>1, <2>2
  <1>2. ASSUME NEW w \in Takedowns, TakedownStep(w) \/ AbortTakedown(w)
        PROVE  [HNext]_hvars
    <2>1. CASE DeleteAndCommit(w)
      <3>1. target[w] \in ReportIds
        BY DEF IInv, TypeOK
      <3> QED
        BY <2>1, <3>1, DeleteIsErase DEF HNext
    <2>2. CASE ~DeleteAndCommit(w)
      BY <1>2, <2>2 DEF TakedownStep, LockTarget, RefuseTakedown, NullReferences,
        AbortTakedown, hvars
    <2> QED
      BY <2>1, <2>2
  <1>3. CASE UNCHANGED vars
    BY <1>3 DEF vars, hvars
  <1> QED
    BY <1>1, <1>2, <1>3 DEF Next, Quiescent

\* The interleaved statements of submits and takedowns implement a history of
\* indivisible accepts and erasures: a commit takes effect at once, with the
\* version, the predecessor and the damage it would have had running alone.
THEOREM ImplementsHistory == Spec => HSpec
  <1>1. Init => HInit
    BY DEF Init
  <1> QED
    BY <1>1, Inductive, StepSimulation, PTL DEF Spec, HSpec

------------------------------------------------------------------------------
(* The server beside a footprint load *)

\* A step of the server and the load is a step of the server or none at all.
LEMMA IngestStepIsServerStep ==
  ASSUME [INext]_allvars
  PROVE  [Next]_vars
  <1>1. ASSUME NEW q \in Requests, ServerStep(q) \/ AbortSubmit(q)
        PROVE  Next
    BY <1>1 DEF ServerStep, Next
  <1>2. ASSUME NEW w \in Takedowns, TakedownStep(w) \/ AbortTakedown(w)
        PROVE  Next
    BY <1>2 DEF Next
  <1>3. CASE BeginIngest \/ IngestStep \/ UpsertFails \/ Spin \/ StopIngest
    BY <1>3 DEF BeginIngest, IngestStep, SkipFeature, UpsertBuildingFootprint,
      CommitBatch, FinalCommit, UpsertFails, Spin, StopIngest, allvars
  <1>4. CASE UNCHANGED allvars
    BY <1>4 DEF allvars
  <1>5. CASE Quiescent
    BY <1>5 DEF Next
  <1> QED
    BY <1>1, <1>2, <1>3, <1>4, <1>5 DEF INext

\* A load beside the server takes nothing from what is proved of the server: the
\* rows it holds only make submits wait.
THEOREM ServerBesideIngest == ISpec => Spec
  <1>1. IInit => Init
    BY DEF IInit
  <1> QED
    BY <1>1, IngestStepIsServerStep, PTL DEF ISpec, Spec

\* What the load keeps of the server, and the server of the load.
LEMMA LoadKeepsServer ==
  ASSUME NEW q \in Requests, UNCHANGED vars
  PROVE  /\ HoldsBuilding(q)' = HoldsBuilding(q)
         /\ BuildingOf(q)' = BuildingOf(q)
  BY DEF vars, HoldsBuilding, HasBuilding, BuildingOf

\* A submit comes to hold a building by its upsert only, which waits for the load.
LEMMA HoldsByUpsert ==
  ASSUME TypeOK, TypeOK', NEW q \in Requests, ServerStep(q) \/ AbortSubmit(q),
         NEW p \in Requests
  PROVE  /\ BuildingOf(p)' = BuildingOf(p)
         /\ HoldsBuilding(p)' => \/ HoldsBuilding(p)
                                 \/ BuildingOf(p) \notin HeldByIngest
  <1>1. UNCHANGED <<doc, post>>
    BY DEF ServerStep, SubmitStep, BeginSubmit, UpsertBuilding, NextVersionForBuilding,
      InsertReplay, InsertKeySeen, InsertPredecessorGone, InsertNew,
      RefreshBuildingCurrentDamage, CommitSubmit, LookupByKey, ReadBack, AbortSubmit
  <1>2. BuildingOf(p)' = BuildingOf(p) /\ HasBuilding(p)' = HasBuilding(p)
    BY <1>1 DEF BuildingOf, HasBuilding
  <1>3. p # q => pc'[p] = pc[p]
    BY DEF TypeOK, ServerStep, SubmitStep, BeginSubmit, UpsertBuilding,
      NextVersionForBuilding, InsertReplay, InsertKeySeen, InsertPredecessorGone, InsertNew,
      RefreshBuildingCurrentDamage, CommitSubmit, LookupByKey, ReadBack, AbortSubmit
  <1>4. HasBuilding(q) => \/ pc'[q] \notin {"version", "insert", "refresh", "commit"}
                          \/ pc[q] \in {"version", "insert", "refresh"}
                          \/ pc[q] = "upsert" /\ BuildingOf(q) \notin HeldByIngest
    BY DEF TypeOK, ServerStep, SubmitStep, BeginSubmit, UpsertBuilding,
      NextVersionForBuilding, InsertReplay, InsertKeySeen, InsertPredecessorGone, InsertNew,
      RefreshBuildingCurrentDamage, CommitSubmit, LookupByKey, ReadBack, AbortSubmit
  <1>5. CASE p # q
    BY <1>2, <1>3, <1>5 DEF HoldsBuilding
  <1>6. CASE p = q
    BY <1>2, <1>4, <1>6 DEF HoldsBuilding
  <1> QED
    BY <1>2, <1>5, <1>6

LEMMA InitBatchBounded == IInit => BatchBounded
  <1> SUFFICES ASSUME IInit
               PROVE  BatchBounded
    OBVIOUS
  <1> USE FilesAssumption, LoadsAssumption DEF IInit
  <1>1. TypeOK
    BY InitIInv DEF IInv
  <1>2. ITypeOK
    BY <1>1 DEF ITypeOK
  <1>3. HeldByIngest = {}
    BY DEF HeldByIngest
  <1> QED
    BY <1>2, <1>3 DEF BatchBounded, NoRowHeldTwice, Running

LEMMA NextBatchBounded ==
  ASSUME TypeOK', BatchBounded, [INext]_allvars
  PROVE  BatchBounded'
  <1> USE FilesAssumption, LoadsAssumption
  <1>a. /\ TypeOK /\ ITypeOK /\ NoRowHeldTwice
        /\ load \in 0 .. MaxLoads /\ at \in Nat /\ batch \in Seq(Buildings)
        /\ file \in Seq(Feature) /\ Len(file) \in Nat /\ BatchN \in Nat \ {0}
    BY DEF BatchBounded, ITypeOK
  <1>1. ASSUME UNCHANGED ivars, NoRowHeldTwice'
        PROVE  BatchBounded'
    BY <1>1 DEF BatchBounded, ITypeOK, ivars, Running
  <1>2. ASSUME NEW q \in Requests, ServerStep(q) \/ (AbortSubmit(q) /\ UNCHANGED ivars)
        PROVE  BatchBounded'
    <2>1. UNCHANGED ivars
      BY <1>2 DEF ServerStep
    <2>2. HeldByIngest' = HeldByIngest
      BY <2>1 DEF HeldByIngest, ivars
    <2>3. NoRowHeldTwice'
      BY <1>2, <1>a, <2>2, HoldsByUpsert DEF NoRowHeldTwice
    <2> QED
      BY <1>1, <2>1, <2>3
  <1>3. ASSUME NEW w \in Takedowns, (TakedownStep(w) \/ AbortTakedown(w)) /\ UNCHANGED ivars
        PROVE  BatchBounded'
    <2>1. UNCHANGED <<doc, post, pc>>
      BY <1>3 DEF TakedownStep, LockTarget, RefuseTakedown, NullReferences,
        DeleteAndCommit, AbortTakedown, qvars
    <2>2. NoRowHeldTwice'
      BY <1>3, <1>a, <2>1 DEF NoRowHeldTwice, HoldsBuilding, HasBuilding, BuildingOf,
        HeldByIngest, ivars
    <2> QED
      BY <1>1, <1>3, <2>2
  <1>4. ASSUME UNCHANGED vars
        PROVE  \A q \in Requests : /\ HoldsBuilding(q)' = HoldsBuilding(q)
                                   /\ BuildingOf(q)' = BuildingOf(q)
    BY <1>4, LoadKeepsServer
  <1>5. CASE UNCHANGED vars /\ UNCHANGED ivars
    <2>1. NoRowHeldTwice'
      BY <1>4, <1>5, <1>a DEF NoRowHeldTwice, HeldByIngest, ivars
    <2> QED
      BY <1>1, <1>5, <2>1
  <1>6. ASSUME UNCHANGED <<vars, load, file, footprint, batch>>,
               at' \in 1 .. Len(file) + 1, ipc' \in {"idle", "reading", "commit"},
               ipc' = "idle" => batch = <<>>,
               ipc' = "commit" <=> ipc = "commit"
        PROVE  BatchBounded'
    <2>1. NoRowHeldTwice'
      BY <1>4, <1>6, <1>a DEF NoRowHeldTwice, HeldByIngest
    <2>2. ITypeOK'
      BY <1>6, <1>a DEF ITypeOK
    <2> QED
      BY <1>6, <2>1, <2>2 DEF BatchBounded, Running
  <1>7. CASE BeginIngest
    <2>1. ITypeOK' /\ NoRowHeldTwice'
      <3>1. NoRowHeldTwice'
        BY <1>4, <1>7, <1>a DEF NoRowHeldTwice, HeldByIngest, BeginIngest
      <3>2. load' \in 0 .. MaxLoads
        BY <1>7, <1>a DEF BeginIngest
      <3> QED
        BY <1>7, <1>a, <3>1, <3>2 DEF ITypeOK, BeginIngest
    <2> QED
      BY <1>7, <1>a, <2>1 DEF BatchBounded, BeginIngest, Running
  <1>8. CASE SkipFeature \/ UpsertFails
    <2>1. at <= Len(file) /\ at' = at + 1 /\ ipc = "reading"
          /\ UNCHANGED <<vars, load, file, footprint, batch, ipc>>
      BY <1>8 DEF SkipFeature, UpsertFails, Reads
    <2> QED
      BY <1>6, <1>a, <2>1
  <1>9. CASE UpsertBuildingFootprint
    <2>1. /\ ipc = "reading" /\ at <= Len(file) /\ at' = at + 1
          /\ \A q \in Requests : HoldsBuilding(q) => BuildingOf(q) # file[at].building
          /\ batch' = Append(batch, file[at].building)
          /\ ipc' = IF Len(batch) + 1 >= BatchN THEN "commit" ELSE "reading"
          /\ UNCHANGED <<vars, footprint, load, file>>
      BY <1>9 DEF UpsertBuildingFootprint, Reads
    <2>2. file[at] \in Feature /\ file[at].building \in Buildings
      <3>1. at \in 1 .. Len(file)
        BY <1>a, <2>1 DEF ITypeOK
      <3>2. file[at] \in Feature
        BY <1>a, <3>1, ElementOfSeq
      <3> QED
        BY <3>2 DEF Feature
    <2>3. batch' \in Seq(Buildings) /\ Len(batch') = Len(batch) + 1 /\ Len(batch) \in Nat
      BY <1>a, <2>1, <2>2
    <2>4. Len(batch) < BatchN
      BY <1>a, <2>1, <2>3 DEF BatchBounded
    <2>5. HeldByIngest' = HeldByIngest \union {file[at].building}
      <3>1. DOMAIN batch' = DOMAIN batch \union {Len(batch) + 1}
        BY <1>a, <2>3
      <3>2. /\ \A i \in DOMAIN batch : batch'[i] = batch[i]
            /\ batch'[Len(batch) + 1] = file[at].building
        BY <1>a, <2>1, <2>2
      <3> QED
        BY <3>1, <3>2 DEF HeldByIngest
    <2>6. NoRowHeldTwice'
      BY <1>4, <1>a, <2>1, <2>5 DEF NoRowHeldTwice
    <2>7. ITypeOK'
      BY <1>a, <2>1, <2>3 DEF ITypeOK
    <2>8. Len(batch') <= BatchN /\ (Len(batch') = BatchN <=> ipc' = "commit")
      BY <1>a, <2>1, <2>3, <2>4
    <2> QED
      BY <2>1, <2>6, <2>7, <2>8 DEF BatchBounded, Running
  <1>10. ASSUME batch' = <<>>, ipc' \in {"idle", "reading"}, UNCHANGED <<load, file, at, vars>>,
                footprint' \in [Buildings -> 0 .. MaxLoads]
         PROVE  BatchBounded'
    <2>1. HeldByIngest' = {}
      BY <1>10 DEF HeldByIngest
    <2>2. NoRowHeldTwice'
      BY <2>1 DEF NoRowHeldTwice
    <2>3. ITypeOK'
      BY <1>10, <1>a DEF ITypeOK
    <2> QED
      BY <1>10, <1>a, <2>2, <2>3 DEF BatchBounded, Running
  <1>11. CASE CommitBatch \/ FinalCommit \/ StopIngest
    <2>1. footprint' \in [Buildings -> 0 .. MaxLoads]
      BY <1>11, <1>a DEF ITypeOK, CommitBatch, FinalCommit, StopIngest, Committed
    <2> QED
      BY <1>10, <1>11, <2>1 DEF CommitBatch, FinalCommit, StopIngest
  <1>12. CASE Spin \/ UNCHANGED allvars \/ (Quiescent /\ UNCHANGED ivars)
    BY <1>5, <1>12 DEF Spin, allvars, Quiescent
  <1> QED
    BY <1>2, <1>3, <1>7, <1>8, <1>9, <1>11, <1>12 DEF INext, IngestStep

\* A load never holds the row of a building that a submit holds, and never more
\* than BatchN of them.
THEOREM BatchBoundedAlways == ISpec => []BatchBounded
  <1>1. ISpec => []TypeOK
    BY ServerBesideIngest, TypeCorrect, PTL
  <1> QED
    BY <1>1, InitBatchBounded, NextBatchBounded, PTL DEF ISpec

------------------------------------------------------------------------------
(* The features ahead of a load *)

\* A set of natural numbers has a least element: the induction of this section.
LEMMA NatMinimum ==
  ASSUME NEW T \in SUBSET Nat, T # {}
  PROVE  \E x \in T : \A y \in T : x <= y
  <1> DEFINE R == {ss \in Nat \X Nat : ss[1] < ss[2]}
  <1>1. IsWellFoundedOn(R, Nat)
    BY NatLessThanWellFounded DEF OpToRel
  <1>2. \A x, y \in Nat : <<y, x>> \in R <=> y < x
    OBVIOUS
  <1>3. \E x \in T : \A y \in T : ~ (<<y, x>> \in R)
    <2> HIDE DEF R
    <2> QED
      BY <1>1, WFMin
  <1> HIDE DEF R
  <1>4. PICK x \in T : \A y \in T : ~ (<<y, x>> \in R)
    BY <1>3
  <1>5. \A y \in T : x \in Nat /\ y \in Nat /\ ~ (y < x)
    BY <1>2, <1>4
  <1> QED
    BY <1>5

\* A set gets a new first element: how many elements there are up to each.
LEMMA UptoFirst ==
  ASSUME NEW S \in SUBSET Nat, IsFiniteSet(S), NEW i \in Nat, \A k \in S : i < k
  PROVE  /\ i \notin S
         /\ Cardinality(Upto(S \union {i}, i)) = 1
         /\ \A m \in S : /\ Cardinality(Upto(S, m)) \in Nat \ {0}
                         /\ Cardinality(Upto(S \union {i}, m)) = Cardinality(Upto(S, m)) + 1
  <1> DEFINE U == S \union {i}
  <1>1. i \notin S
    OBVIOUS
  <1>2. ASSUME NEW m \in S
        PROVE  /\ Cardinality(Upto(S, m)) \in Nat \ {0}
               /\ Cardinality(Upto(U, m)) = Cardinality(Upto(S, m)) + 1
    <2>1. Upto(S, m) \subseteq S /\ m \in Upto(S, m)
      BY DEF Upto
    <2>2. IsFiniteSet(Upto(S, m)) /\ Cardinality(Upto(S, m)) \in Nat
      BY <2>1, FS_Subset, FS_CardinalityType
    <2>3. Cardinality(Upto(S, m)) # 0
      BY <2>1, <2>2, FS_EmptySet
    <2>4. Upto(U, m) = Upto(S, m) \union {i} /\ i \notin Upto(S, m)
      BY <1>1 DEF Upto
    <2> QED
      BY <2>2, <2>3, <2>4, FS_AddElement
  <1>3. Cardinality(Upto(U, i)) = 1
    <2>1. \A m \in S : m \in Nat /\ ~ (m <= i)
      OBVIOUS
    <2>2. i \in U /\ i <= i /\ \A m \in U : m <= i => m = i
      BY <2>1
    <2>3. Upto(U, i) = {i}
      BY <2>2 DEF Upto
    <2> QED
      BY <2>3, FS_Singleton
  <1> QED
    BY <1>1, <1>2, <1>3

\* The new element is the first of the set.
LEMMA NthFirst ==
  ASSUME NEW S \in SUBSET Nat, IsFiniteSet(S), NEW i \in Nat, \A k \in S : i < k
  PROVE  /\ Cardinality(S \union {i}) = Cardinality(S) + 1
         /\ Nth(S \union {i}, 1) = i
  <1> DEFINE U == S \union {i}
  <1>a. /\ i \notin S
        /\ Cardinality(Upto(U, i)) = 1
        /\ \A m \in S : /\ Cardinality(Upto(S, m)) \in Nat \ {0}
                        /\ Cardinality(Upto(U, m)) = Cardinality(Upto(S, m)) + 1
    BY UptoFirst
  <1>1. Cardinality(U) = Cardinality(S) + 1
    BY <1>a, FS_AddElement
  <1>2. ASSUME NEW m \in U, Cardinality(Upto(U, m)) = 1
        PROVE  m = i
    BY <1>2, <1>a
  <1>3. {m \in U : Cardinality(Upto(U, m)) = 1} = {i}
    BY <1>2, <1>a
  <1> QED
    BY <1>1, <1>3 DEF Nth

\* The others come one place later than before.
LEMMA NthRest ==
  ASSUME NEW S \in SUBSET Nat, IsFiniteSet(S), NEW i \in Nat, \A k \in S : i < k,
         NEW j \in 1 .. Cardinality(S)
  PROVE  Nth(S \union {i}, j + 1) = Nth(S, j)
  <1> DEFINE U == S \union {i}
  <1>a. /\ i \notin S
        /\ Cardinality(Upto(U, i)) = 1
        /\ \A m \in S : /\ Cardinality(Upto(S, m)) \in Nat \ {0}
                        /\ Cardinality(Upto(U, m)) = Cardinality(Upto(S, m)) + 1
    BY UptoFirst
  <1>1. j \in Nat \ {0}
    BY FS_CardinalityType
  <1>2. ASSUME NEW m \in S
        PROVE  Cardinality(Upto(U, m)) = j + 1 <=> Cardinality(Upto(S, m)) = j
    <2>1. PICK n \in Nat : n = Cardinality(Upto(S, m))
      BY <1>a
    <2>2. Cardinality(Upto(U, m)) = n + 1
      BY <2>1, <1>a
    <2>3. n + 1 = j + 1 <=> n = j
      BY <1>1
    <2> QED
      BY <2>1, <2>2, <2>3
  <1>3. Cardinality(Upto(U, i)) # j + 1
    BY <1>1, <1>a
  <1>4. {m \in U : Cardinality(Upto(U, m)) = j + 1} = {m \in S : Cardinality(Upto(S, m)) = j}
    BY <1>2, <1>3
  <1> QED
    BY <1>4 DEF Nth


LEMMA FileType ==
  ASSUME ITypeOK
  PROVE  /\ file \in Seq(Feature) /\ Len(file) \in Nat
         /\ \A k \in 1 .. Len(file) : file[k] \in Feature /\ file[k].building \in Buildings
  <1>1. file \in Seq(Feature)
    BY FilesAssumption DEF ITypeOK
  <1>2. ASSUME NEW k \in 1 .. Len(file)
        PROVE  file[k] \in Feature /\ file[k].building \in Buildings
    <2>1. file[k] \in Feature
      BY <1>1, ElementOfSeq
    <2> QED
      BY <2>1 DEF Feature
  <1> QED
    BY <1>1, <1>2

\* The features from i on, by whether the one at i has a polygon.
LEMMA PolygonsStep ==
  ASSUME ITypeOK, NEW i \in Nat \ {0}
  PROVE  /\ i > Len(file) => PolygonsFrom(i) = {}
         /\ i <= Len(file) /\ file[i].kind # "polygon" => PolygonsFrom(i) = PolygonsFrom(i + 1)
         /\ i <= Len(file) /\ file[i].kind = "polygon"
              => PolygonsFrom(i) = PolygonsFrom(i + 1) \union {i}
         /\ PolygonsFrom(i) \in SUBSET Nat /\ IsFiniteSet(PolygonsFrom(i))
         /\ \A k \in PolygonsFrom(i + 1) : i < k
  <1>1. Len(file) \in Nat
    BY FileType
  <1>2. \A k \in Nat : /\ k \in i .. Len(file) <=> i <= k /\ k <= Len(file)
                       /\ k \in i + 1 .. Len(file) <=> i < k /\ k <= Len(file)
    BY <1>1
  <1>3. PolygonsFrom(i) \subseteq i .. Len(file) /\ PolygonsFrom(i + 1) \subseteq i + 1 .. Len(file)
    BY DEF PolygonsFrom
  <1>4. i .. Len(file) \subseteq Nat /\ i + 1 .. Len(file) \subseteq Nat
    BY <1>1
  <1>5. IsFiniteSet(PolygonsFrom(i))
    <2>1. IsFiniteSet(i .. Len(file))
      BY <1>1, FS_Interval
    <2> QED
      BY <1>3, <2>1, FS_Subset
  <1>6. ASSUME i > Len(file)
        PROVE  PolygonsFrom(i) = {}
    BY <1>1, <1>3, <1>6
  <1>7. ASSUME NEW k \in Nat, k # i
        PROVE  k \in PolygonsFrom(i) <=> k \in PolygonsFrom(i + 1)
    <2>1. i <= k <=> i < k
      BY <1>7
    <2> QED
      BY <1>2, <2>1 DEF PolygonsFrom
  <1>8. i \notin PolygonsFrom(i + 1)
    BY <1>2, <1>3
  <1>9. i \in PolygonsFrom(i) <=> i <= Len(file) /\ file[i].kind = "polygon"
    BY <1>2 DEF PolygonsFrom
  <1>10. \A k \in PolygonsFrom(i + 1) : i < k
    BY <1>2, <1>3, <1>4
  <1>11. PolygonsFrom(i) \in SUBSET Nat /\ PolygonsFrom(i + 1) \in SUBSET Nat
    BY <1>3, <1>4
  <1>12. i <= Len(file) /\ file[i].kind # "polygon" => PolygonsFrom(i) = PolygonsFrom(i + 1)
    <2> SUFFICES ASSUME i \notin PolygonsFrom(i)
                 PROVE  PolygonsFrom(i) = PolygonsFrom(i + 1)
      BY <1>9
    <2>1. \A k \in Nat : k \in PolygonsFrom(i) <=> k \in PolygonsFrom(i + 1)
      BY <1>7, <1>8
    <2> QED
      BY <1>11, <2>1
  <1>13. i <= Len(file) /\ file[i].kind = "polygon"
           => PolygonsFrom(i) = PolygonsFrom(i + 1) \union {i}
    <2> SUFFICES ASSUME i \in PolygonsFrom(i)
                 PROVE  PolygonsFrom(i) = PolygonsFrom(i + 1) \union {i}
      BY <1>9
    <2>1. \A k \in Nat : k \in PolygonsFrom(i) <=> k \in PolygonsFrom(i + 1) \/ k = i
      BY <1>7
    <2> QED
      BY <1>11, <2>1
  <1> QED
    BY <1>5, <1>6, <1>10, <1>11, <1>12, <1>13

\* The buildings from i on: none past the end, and otherwise those from i + 1 on,
\* after that of the feature at i if it has a polygon.
LEMMA PolygonsUnfold ==
  ASSUME ITypeOK, NEW i \in Nat \ {0}, Polygons(i + 1) \in Seq(Buildings)
  PROVE  /\ i <= Len(file) /\ file[i].kind # "polygon" => Polygons(i) = Polygons(i + 1)
         /\ i <= Len(file) /\ file[i].kind = "polygon"
              => Polygons(i) = <<file[i].building>> \o Polygons(i + 1)
  <1>1. ASSUME i <= Len(file), file[i].kind # "polygon"
        PROVE  Polygons(i) = Polygons(i + 1)
    BY <1>1, PolygonsStep DEF Polygons
  <1>2. ASSUME i <= Len(file), file[i].kind = "polygon"
        PROVE  Polygons(i) = <<file[i].building>> \o Polygons(i + 1)
    <2> DEFINE S == PolygonsFrom(i + 1)
               U == PolygonsFrom(i)
               n == Cardinality(S)
    <2>1. /\ S \in SUBSET Nat /\ IsFiniteSet(S)
          /\ U = S \union {i} /\ \A k \in S : i < k
      <3>1. i + 1 \in Nat \ {0}
        OBVIOUS
      <3> QED
        BY <1>2, <3>1, PolygonsStep
    <2>2. /\ n \in Nat /\ Cardinality(U) = n + 1 /\ Nth(U, 1) = i
          /\ \A j \in 1 .. n : Nth(U, j + 1) = Nth(S, j)
      <3>1. n \in Nat
        BY <2>1, FS_CardinalityType
      <3>2. i \in Nat
        OBVIOUS
      <3> HIDE DEF S, U, n
      <3>3. Cardinality(U) = Cardinality(S) + 1 /\ Nth(U, 1) = i
        BY <2>1, <3>2, NthFirst
      <3>4. \A j \in 1 .. Cardinality(S) : Nth(U, j + 1) = Nth(S, j)
        BY <2>1, <3>2, NthRest
      <3> USE DEF n
      <3> QED
        BY <3>1, <3>3, <3>4
    <2> DEFINE P == Polygons(i + 1)
               Q == <<file[i].building>> \o P
    <2>3. /\ P \in Seq(Buildings) /\ Len(P) = n
          /\ \A j \in 1 .. n : P[j] = file[Nth(S, j)].building
      BY <2>2 DEF Polygons
    <2>4. /\ Q \in Seq(Buildings) /\ Len(Q) = n + 1 /\ Q[1] = file[i].building
          /\ \A j \in 1 .. n : Q[j + 1] = P[j]
      <3>1. file[i].building \in Buildings
        BY <1>2, FileType
      <3> HIDE DEF P
      <3> QED
        BY <2>2, <2>3, <3>1
    <2>5. ASSUME NEW m \in 1 .. n + 1
          PROVE  Q[m] = file[Nth(U, m)].building
      <3>1. CASE m = 1
        BY <2>2, <2>4, <3>1
      <3>2. CASE m # 1
        <4>1. m - 1 \in 1 .. n /\ (m - 1) + 1 = m
          BY <2>2, <3>2
        <4>2. Q[(m - 1) + 1] = P[m - 1] /\ Nth(U, (m - 1) + 1) = Nth(S, m - 1)
          BY <2>2, <2>4, <4>1
        <4> HIDE DEF P, Q, S, U, n
        <4> QED
          BY <2>3, <4>1, <4>2
      <3> QED
        BY <3>1, <3>2
    <2>6. Q = [m \in 1 .. n + 1 |-> file[Nth(U, m)].building]
      <3> HIDE DEF Q
      <3> QED
        BY <2>2, <2>4, <2>5
    <2> HIDE DEF Q
    <2>7. Polygons(i) = [m \in 1 .. n + 1 |-> file[Nth(U, m)].building]
      BY <2>2 DEF Polygons
    <2>8. Polygons(i) = Q
      BY <2>6, <2>7
    <2> QED
      BY <2>8 DEF Q
  <1> QED
    BY <1>1, <1>2

\* The buildings ahead are a sequence, from every feature on: by induction on how
\* many features there are to the end of the file.
LEMMA PolygonsType ==
  ASSUME ITypeOK
  PROVE  \A i \in Nat \ {0} : Polygons(i) \in Seq(Buildings)
  <1> DEFINE Bad == {n \in Nat : \E i \in Nat \ {0} :
                       i + n >= Len(file) + 1 /\ Polygons(i) \notin Seq(Buildings)}
  <1>a. Len(file) \in Nat
    BY FileType
  <1>1. ASSUME Bad # {}
        PROVE  FALSE
    <2>1. PICK n \in Bad : \A m \in Bad : n <= m
      BY <1>1, NatMinimum
    <2>2. PICK i \in Nat \ {0} : i + n >= Len(file) + 1 /\ Polygons(i) \notin Seq(Buildings)
      BY <2>1
    <2>3. i <= Len(file)
      <3>1. SUFFICES ASSUME i > Len(file)
                     PROVE  Polygons(i) \in Seq(Buildings)
        BY <1>a, <2>2
      <3>2. PolygonsFrom(i) = {}
        BY <3>1, PolygonsStep
      <3>3. Polygons(i) = << >>
        BY <3>2, FS_EmptySet DEF Polygons
      <3> QED
        BY <3>3
    <2>4. n \in Nat \ {0}
      BY <1>a, <2>1, <2>2, <2>3
    <2>5. n - 1 \in Nat /\ n - 1 \notin Bad
      <3> HIDE DEF Bad
      <3> QED
        BY <2>1, <2>4
    <2>6. Polygons(i + 1) \in Seq(Buildings)
      <3>1. i + 1 \in Nat \ {0} /\ (i + 1) + (n - 1) >= Len(file) + 1
        BY <1>a, <2>2, <2>4
      <3> QED
        BY <2>5, <3>1
    <2>7. file[i].building \in Buildings
      BY <2>3, FileType
    <2>8. \/ Polygons(i) = Polygons(i + 1)
          \/ Polygons(i) = <<file[i].building>> \o Polygons(i + 1)
      BY <2>3, <2>6, PolygonsUnfold
    <2>9. <<file[i].building>> \in Seq(Buildings)
      BY <2>7
    <2>10. <<file[i].building>> \o Polygons(i + 1) \in Seq(Buildings)
      BY <2>6, <2>9, ConcatProperties
    <2> QED
      BY <2>2, <2>6, <2>8, <2>10
  <1>2. ASSUME NEW i \in Nat \ {0}
        PROVE  Polygons(i) \in Seq(Buildings)
    <2>1. Len(file) + 1 \in Nat /\ i + (Len(file) + 1) >= Len(file) + 1
      BY <1>a
    <2> QED
      BY <1>1, <2>1
  <1> QED
    BY <1>2

------------------------------------------------------------------------------
(* The load implements FootprintLoad *)

\* The buildings that are still to be loaded.
Due == IF Running THEN batch \o Polygons(at) ELSE <<>>

\* The facts of a state the steps below need.
LEMMA LoadFacts ==
  ASSUME BatchBounded
  PROVE  /\ batch \in Seq(Buildings) /\ Len(batch) \in Nat
         /\ at \in Nat \ {0} /\ at + 1 \in Nat \ {0}
         /\ BatchN \in Nat \ {0} /\ Len(batch) <= BatchN
         /\ Polygons(at) \in Seq(Buildings) /\ Polygons(at + 1) \in Seq(Buildings)
         /\ Polygons(1) \in Seq(Buildings)
         /\ Due \in Seq(Buildings)
  <1>1. /\ batch \in Seq(Buildings) /\ Len(batch) \in Nat
        /\ at \in Nat \ {0} /\ at + 1 \in Nat \ {0}
        /\ BatchN \in Nat \ {0} /\ Len(batch) <= BatchN
    BY LoadsAssumption, FileType DEF BatchBounded, ITypeOK
  <1>2. Polygons(at) \in Seq(Buildings) /\ Polygons(at + 1) \in Seq(Buildings)
        /\ Polygons(1) \in Seq(Buildings)
    BY <1>1, PolygonsType DEF BatchBounded
  <1>3. Due \in Seq(Buildings)
    <2>1. batch \o Polygons(at) \in Seq(Buildings)
      BY <1>1, <1>2, ConcatProperties
    <2> QED
      BY <2>1 DEF Due
  <1> QED
    BY <1>1, <1>2, <1>3

\* The features ahead are those of the file, which no step changes.
LEMMA PolygonsSame ==
  ASSUME file' = file
  PROVE  \A i : Polygons(i)' = Polygons(i)
  BY DEF Polygons, PolygonsFrom

LEMMA DueSame ==
  ASSUME UNCHANGED ivars
  PROVE  Due' = Due /\ Running' = Running
  <1>1. file' = file
    BY DEF ivars
  <1>2. Polygons(at)' = Polygons(at)
    BY <1>1 DEF ivars, Polygons, PolygonsFrom
  <1> QED
    BY <1>2 DEF Due, Running, ivars

\* A run starts with every building of the file due.
LEMMA BeginIsBeginLoad ==
  ASSUME BatchBounded, BeginIngest
  PROVE  Promise!BeginLoad
  <1>1. ~Running /\ Running' /\ batch = <<>>
    BY DEF BeginIngest, Running, BatchBounded
  <1>2. Due' = batch \o Polygons(1)
    <2>1. Polygons(at)' = Polygons(1)
      BY DEF BeginIngest, Polygons, PolygonsFrom
    <2> QED
      BY <1>1, <2>1 DEF Due, BeginIngest
  <1>3. Due' \in Seq(Buildings)
    BY <1>1, <1>2, LoadFacts, ConcatProperties
  <1> QED
    BY <1>1, <1>3 DEF Promise!BeginLoad, Due, BeginIngest, vars, Running

\* The building that leaves the file joins the batch in front of the rest.
LEMMA Regroup ==
  ASSUME NEW s \in Seq(Buildings), NEW b \in Buildings, NEW t \in Seq(Buildings)
  PROVE  (s \o <<b>>) \o t = s \o (<<b>> \o t)
  <1>1. ASSUME NEW u \in Seq(Buildings)
        PROVE  (s \o u) \o t = s \o (u \o t)
    BY ConcatAssociative, SMT
  <1>2. <<b>> \in Seq(Buildings)
    OBVIOUS
  <1> QED
    BY <1>1, <1>2, Zenon

\* A feature that is skipped, or added to the batch, leaves the buildings due.
LEMMA FeatureKeepsDue ==
  ASSUME BatchBounded, SkipFeature \/ UpsertBuildingFootprint
  PROVE  Due' = Due /\ Running' = Running
  <1>1. /\ Running /\ Running' /\ UNCHANGED file
        /\ at <= Len(file) /\ at' = at + 1 /\ ITypeOK
    BY LoadFacts DEF SkipFeature, UpsertBuildingFootprint, Reads, Running, BatchBounded
  <1>2. Polygons(at)' = Polygons(at + 1)
    BY <1>1 DEF Polygons, PolygonsFrom
  <1>3. CASE SkipFeature
    <2>1. Polygons(at) = Polygons(at + 1)
      <3>1. file[at].kind # "polygon"
        BY <1>3 DEF SkipFeature, Reads
      <3> QED
        BY <1>1, <3>1, LoadFacts, PolygonsUnfold
    <2> QED
      BY <1>1, <1>2, <1>3, <2>1 DEF Due, SkipFeature
  <1>4. CASE UpsertBuildingFootprint
    <2> DEFINE b == file[at].building
    <2>1. Polygons(at) = <<b>> \o Polygons(at + 1)
      <3>1. file[at].kind = "polygon"
        BY <1>4 DEF UpsertBuildingFootprint, Reads
      <3> QED
        BY <1>1, <3>1, LoadFacts, PolygonsUnfold
    <2>2. b \in Buildings
      BY <1>1, LoadFacts, FileType
    <2>3. batch' = Append(batch, b)
      BY <1>4 DEF UpsertBuildingFootprint
    <2>4. batch' = batch \o <<b>>
      <3> HIDE DEF b
      <3> QED
        BY <2>2, <2>3, LoadFacts, AppendIsConcat
    <2>5. (batch \o <<b>>) \o Polygons(at + 1) = batch \o (<<b>> \o Polygons(at + 1))
      <3>1. batch \in Seq(Buildings) /\ Polygons(at + 1) \in Seq(Buildings)
        BY LoadFacts
      <3> HIDE DEF b
      <3> QED
        BY <2>2, <3>1, Regroup, Zenon
    <2> QED
      BY <1>1, <1>2, <2>1, <2>4, <2>5 DEF Due
  <1> QED
    BY <1>3, <1>4

\* The commit of a full batch loads the first BatchN buildings due.
LEMMA CommitIsLoadBatch ==
  ASSUME BatchBounded, CommitBatch
  PROVE  Promise!LoadBatch
  <1> DEFINE R == Polygons(at)
  <1>1. /\ Running /\ Running' /\ Len(batch) = BatchN
        /\ batch' = <<>> /\ UNCHANGED <<load, damage, file, at>>
    BY DEF CommitBatch, Running, BatchBounded, vars
  <1>2. batch \in Seq(Buildings) /\ R \in Seq(Buildings) /\ BatchN \in Nat \ {0}
    BY LoadFacts
  <1>3. Due = batch \o R
    BY <1>1 DEF Due
  <1>4. Due' = R
    <2>1. R' = R
      BY <1>1 DEF Polygons, PolygonsFrom
    <2>2. <<>> \o R = R
      BY <1>2, ConcatEmptySeq
    <2> QED
      BY <1>1, <2>1, <2>2 DEF Due
  <1> HIDE DEF R
  <1>5. /\ Len(Due) = BatchN + Len(R) /\ Len(R) \in Nat
        /\ \A i \in 1 .. BatchN : Due[i] = batch[i]
        /\ SubSeq(Due, BatchN + 1, Len(Due)) = R
    <2>1. /\ Len(Due) = BatchN + Len(R) /\ Len(R) \in Nat
          /\ \A i \in 1 .. BatchN : Due[i] = batch[i]
      <3>1. Len(R) \in Nat /\ Len(batch \o R) = Len(batch) + Len(R)
        BY <1>2, ConcatProperties
      <3>2. \A i \in 1 .. Len(batch) : (batch \o R)[i] = batch[i]
        BY <1>2
      <3> QED
        BY <1>1, <1>3, <3>1, <3>2
    <2>2. SubSeq(batch \o R, BatchN + 1, Len(batch \o R)) = R
      BY <1>1, <1>2, SubSeqOfConcat2
    <2> QED
      BY <1>3, <2>1, <2>2
  <1>6. {Due[i] : i \in 1 .. BatchN} = HeldByIngest
    <2>1. DOMAIN batch = 1 .. BatchN
      BY <1>1, <1>2
    <2> QED
      BY <1>5, <2>1 DEF HeldByIngest
  <1>7. Promise!Load(BatchN)
    BY <1>6 DEF Promise!Load, CommitBatch, Committed, Due
  <1> QED
    BY <1>1, <1>2, <1>4, <1>5, <1>7 DEF Promise!LoadBatch, Due, Running

\* At the end of the file the rest of the buildings due is the open batch.
LEMMA FinalIsEndLoad ==
  ASSUME BatchBounded, FinalCommit
  PROVE  Promise!EndLoad
  <1>1. /\ Running /\ ~Running' /\ at > Len(file) /\ ipc = "reading"
        /\ UNCHANGED <<load, damage>> /\ ITypeOK
    BY DEF FinalCommit, Running, vars, BatchBounded
  <1>2. Due = batch
    <2>1. Polygons(at) = <<>>
      <3>1. PolygonsFrom(at) = {}
        BY <1>1, LoadFacts, PolygonsStep
      <3> QED
        BY <3>1, FS_EmptySet DEF Polygons
    <2>2. batch \o <<>> = batch
      BY LoadFacts, ConcatEmptySeq
    <2> QED
      BY <1>1, <2>1, <2>2 DEF Due
  <1>3. Len(batch) < BatchN
    BY <1>1, LoadFacts DEF BatchBounded
  <1>4. {Due[i] : i \in 1 .. Len(Due)} = HeldByIngest
    <2>1. DOMAIN batch = 1 .. Len(batch)
      BY LoadFacts
    <2> QED
      BY <1>2, <2>1 DEF HeldByIngest
  <1>5. Promise!Load(Len(Due))
    BY <1>4 DEF Promise!Load, FinalCommit, Committed, Due
  <1> QED
    BY <1>1, <1>2, <1>3, <1>5 DEF Promise!EndLoad, Due, Running

\* A run that ends early leaves the rest of the file.
LEMMA StopIsBreakOff ==
  ASSUME BatchBounded, StopIngest
  PROVE  Promise!BreakOff
  BY DEF StopIngest, Promise!BreakOff, Running, Due, vars

\* An upsert that fails leaves out the building that follows the batch.
LEMMA FailureIsLeaveOut ==
  ASSUME BatchBounded, UpsertFails
  PROVE  Promise!LeaveOut
  <1> DEFINE b == file[at].building
             R == Polygons(at + 1)
             n == Len(batch)
  <1>1. /\ Running /\ Running' /\ UNCHANGED <<file, batch, footprint, load, damage>>
        /\ at <= Len(file) /\ at' = at + 1 /\ file[at].kind = "polygon" /\ ITypeOK
    BY DEF UpsertFails, Reads, Running, BatchBounded, vars
  <1>2. Polygons(at)' = R
    BY <1>1 DEF Polygons, PolygonsFrom
  <1>3. Polygons(at) = <<b>> \o R
    BY <1>1, LoadFacts, PolygonsUnfold
  <1>4. /\ b \in Buildings /\ <<b>> \in Seq(Buildings)
        /\ R \in Seq(Buildings) /\ batch \in Seq(Buildings) /\ n \in Nat
    <2>1. b \in Buildings
      BY <1>1, LoadFacts, FileType
    <2> QED
      BY <2>1, LoadFacts
  <1>5. Due = batch \o (<<b>> \o R) /\ Due' = batch \o R
    BY <1>1, <1>2, <1>3 DEF Due
  <1> HIDE DEF b, R
  <1>6. /\ Len(Due) = n + 1 + Len(R) /\ Len(R) \in Nat
        /\ SubSeq(Due, 1, n) = batch
        /\ SubSeq(Due, n + 2, Len(Due)) = R
    <2>1. <<b>> \o R \in Seq(Buildings) /\ Len(<<b>> \o R) = 1 + Len(R) /\ Len(R) \in Nat
      BY <1>4, ConcatProperties
    <2>2. Len(Due) = n + 1 + Len(R)
      BY <1>4, <1>5, <2>1, ConcatProperties
    <2>3. SubSeq(Due, 1, n) = batch
      BY <1>4, <1>5, <2>1, SubSeqOfConcat1
    <2>4. Due = (batch \o <<b>>) \o R
      <3>1. batch \in Seq(Buildings) /\ b \in Buildings /\ R \in Seq(Buildings)
        BY <1>4
      <3>2. (batch \o <<b>>) \o R = batch \o (<<b>> \o R)
        BY <3>1, Regroup, Zenon
      <3> QED
        BY <1>5, <3>2
    <2>5. batch \o <<b>> \in Seq(Buildings) /\ Len(batch \o <<b>>) = n + 1
      BY <1>4, ConcatProperties
    <2>6. SubSeq(Due, (n + 1) + 1, Len(Due)) = R
      BY <1>4, <2>4, <2>5, SubSeqOfConcat2
    <2>7. (n + 1) + 1 = n + 2
      BY <1>4
    <2> QED
      BY <2>1, <2>2, <2>3, <2>6, <2>7
  <1>7. \E i \in 1 .. Len(Due) : Due' = SubSeq(Due, 1, i - 1) \o SubSeq(Due, i + 1, Len(Due))
    <2>1. n + 1 \in 1 .. Len(Due) /\ (n + 1) - 1 = n /\ (n + 1) + 1 = n + 2
      BY <1>4, <1>6
    <2>2. Due' = SubSeq(Due, 1, (n + 1) - 1) \o SubSeq(Due, (n + 1) + 1, Len(Due))
      BY <1>5, <1>6, <2>1
    <2> QED
      BY <2>1, <2>2
  <1> QED
    BY <1>1, <1>7 DEF Promise!LeaveOut, Due, Running

LEMMA LoadSimulation ==
  ASSUME BatchBounded, [INext]_allvars
  PROVE  [Promise!LNext]_(Promise!lvars)
  <1>1. ASSUME UNCHANGED ivars
        PROVE  [Promise!LNext]_(Promise!lvars)
    <2>1. Due' = Due /\ Running' = Running /\ UNCHANGED <<footprint, load>>
      BY <1>1, DueSame DEF ivars
    <2>2. CASE damage' = damage
      BY <2>1, <2>2 DEF Promise!lvars, Due
    <2>3. CASE damage' # damage
      BY <2>1, <2>3 DEF Promise!LNext, Promise!Report, Due
    <2> QED
      BY <2>2, <2>3
  <1>2. CASE \/ \E q \in Requests : ServerStep(q) \/ (AbortSubmit(q) /\ UNCHANGED ivars)
             \/ \E w \in Takedowns : (TakedownStep(w) \/ AbortTakedown(w)) /\ UNCHANGED ivars
             \/ Spin \/ (Quiescent /\ UNCHANGED ivars) \/ UNCHANGED allvars
    <2>1. UNCHANGED ivars
      BY <1>2 DEF ServerStep, Spin, allvars
    <2> QED
      BY <1>1, <2>1
  <1>3. CASE SkipFeature \/ UpsertBuildingFootprint
    <2>1. Due' = Due /\ Running' = Running
      BY <1>3, FeatureKeepsDue
    <2>2. UNCHANGED <<footprint, load, damage>>
      BY <1>3 DEF SkipFeature, UpsertBuildingFootprint, vars
    <2> QED
      BY <2>1, <2>2 DEF Promise!lvars, Due
  <1>4. CASE BeginIngest
    BY <1>4, BeginIsBeginLoad DEF Promise!LNext
  <1>5. CASE CommitBatch
    BY <1>5, CommitIsLoadBatch DEF Promise!LNext
  <1>6. CASE FinalCommit
    BY <1>6, FinalIsEndLoad DEF Promise!LNext
  <1>7. CASE StopIngest
    BY <1>7, StopIsBreakOff DEF Promise!LNext
  <1>8. CASE UpsertFails
    BY <1>8, FailureIsLeaveOut DEF Promise!LNext
  <1> QED
    BY <1>2, <1>3, <1>4, <1>5, <1>6, <1>7, <1>8 DEF INext, IngestStep

\* A load puts whole batches in place, in the order of the file; what fails costs
\* one building, and what breaks off costs the rest; and no load changes a damage.
THEOREM IngestImplementsLoad == ISpec => LoadSpec
  <1>1. IInit => Promise!LInit
    BY DEF IInit, Promise!LInit, Running
  <1> QED
    BY <1>1, BatchBoundedAlways, LoadSimulation, PTL DEF ISpec, LoadSpec, Promise!LSpec
==============================================================================
