--------------------------- MODULE BuildingVersions --------------------------
(***************************************************************************)
(* The versioning transaction of ReportService.Submit and the takedown     *)
(* transaction of Reports.WithdrawReport, statement by statement, under    *)
(* PostgreSQL's READ COMMITTED isolation: a statement sees what was        *)
(* committed when it started, and what a transaction wrote becomes visible *)
(* at its commit.  The locks of the statements are part of their guards:   *)
(*                                                                         *)
(*   - the upsert of the building row holds that row until the end of the  *)
(*     transaction, so at most one submit per building is past it;         *)
(*   - inserting a row that supersedes row s holds s FOR KEY SHARE (the    *)
(*     self-referencing foreign key), which conflicts with the FOR UPDATE  *)
(*     of a takedown of s, and fails when s is gone;                       *)
(*   - an id or an idempotency key in an uncommitted row makes a second    *)
(*     insert of it wait.                                                  *)
(*                                                                         *)
(* Which locks a transaction holds follows from the statement it is at.    *)
(***************************************************************************)
EXTENDS BuildingHistory

CONSTANTS
  Requests,   \* POSTs in flight, each one HTTP request
  Takedowns,  \* DELETEs in flight
  Strangers   \* those of them whose device did not create the report

ASSUME StrangersAssumption == Strangers \subseteq Takedowns

VARIABLES
  pc,      \* pc[q]: the statement request q is about to run
  post,    \* post[q]: the id of the document q submits
  plan,    \* plan[q]: the row NextVersionForBuilding computed for q
  fresh,   \* fresh[q]: the report whose damage the refresh of q wrote
  answer,  \* answer[q]: what q told its client
  tpc,     \* tpc[w]: the statement takedown w is about to run
  target,  \* target[w]: the report w takes down
  nulled   \* nulled[w]: the rows whose supersedes_report_id w set to NULL

tvars == <<tpc, target, nulled>>
qvars == <<pc, post, plan, fresh, answer>>
vars  == <<doc, reports, damage, erased, pc, post, plan, fresh, answer,
           tpc, target, nulled>>

BuildingOf(q) == doc[post[q]].building
HasBuilding(q) == BuildingOf(q) # NoBuilding

\* normalize: a report starts as version 1 that supersedes nothing.
FirstRow == [version |-> 1, supersedes |-> NoReport]

\* Mutant: the upsert of the building does not lock its row.
HoldsBuildingLate(q) == HasBuilding(q) /\ pc[q] \in {"insert", "refresh", "commit"}

\* q is between the upsert of its building and the end of its transaction.
HoldsBuilding(q) == HasBuilding(q) /\ pc[q] \in {"version", "insert", "refresh", "commit"}

\* q has inserted a row and not committed it.
Uncommitted(q) == pc[q] \in {"refresh", "commit"}

\* w holds its target FOR UPDATE.
HoldsTarget(w) == tpc[w] \in {"nullRefs", "delete"}

Init == /\ HInit
        /\ pc = [q \in Requests |-> "idle"]
        /\ post \in [Requests -> ReportIds]
        /\ plan = [q \in Requests |-> FirstRow]
        /\ fresh = [q \in Requests |-> NoReport]
        /\ answer = [q \in Requests |-> "none"]
        /\ tpc = [w \in Takedowns |-> "idle"]
        /\ target \in [Takedowns -> ReportIds]
        /\ nulled = [w \in Takedowns |-> {}]

------------------------------------------------------------------------------
(* POST /api/v1/reports *)

\* The request has passed the checks in front of the transaction.
BeginSubmit(q) ==
  /\ pc[q] = "idle"
  /\ pc' = [pc EXCEPT ![q] = IF HasBuilding(q) THEN "upsert" ELSE "insert"]
  /\ UNCHANGED <<doc, reports, damage, erased, post, plan, fresh, answer, tvars>>

\* INSERT INTO buildings ... ON CONFLICT DO UPDATE: waits for the row, then
\* holds it.  A NULL current_damage leaves the cached one alone.
UpsertBuilding(q) ==
  /\ pc[q] = "upsert"
  /\ \A p \in Requests : BuildingOf(p) = BuildingOf(q) => ~HoldsBuilding(p)
  /\ pc' = [pc EXCEPT ![q] = "version"]
  /\ UNCHANGED <<doc, reports, damage, erased, post, plan, fresh, answer, tvars>>

\* count(*) + 1 and the newest row, read in one statement.
NextVersionForBuilding(q) ==
  /\ pc[q] = "version"
  /\ LET rows == Of(BuildingOf(q), Stored) IN
     \E n \in ReportIds \union {NoReport} :
       /\ NewestOrNull(n, rows)
       /\ plan' = [plan EXCEPT ![q] = [version |-> Cardinality(rows) + 1,
                                       supersedes |-> n]]
  /\ pc' = [pc EXCEPT ![q] = "insert"]
  /\ UNCHANGED <<doc, reports, damage, erased, post, fresh, answer, tvars>>

\* Mutant: only the primary key waits for uncommitted rows.
InsertFreeOfIds(q) == \A p \in Requests \ {q} : Uncommitted(p) => post[p] # post[q]

\* The insert waits while another transaction has inserted the id or the key.
InsertFree(q) ==
  \A p \in Requests \ {q} :
    Uncommitted(p) => /\ post[p] # post[q]
                      /\ doc[post[p]].key # doc[post[q]].key

\* Mutant: the idempotency key is not unique.
KeySeenById(q) == post[q] \in Stored

\* Mutant: the row to answer a replay with is looked up by the wrong column.
KeySeenByBuilding(q) == Of(BuildingOf(q), Stored) # {}

KeySeen(q) == \E s \in Stored : doc[s].key = doc[post[q]].key

\* ON CONFLICT (id) DO NOTHING: a replay, which inserts nothing and commits.
InsertReplay(q) ==
  /\ pc[q] = "insert" /\ InsertFree(q)
  /\ post[q] \in Stored
  /\ pc' = [pc EXCEPT ![q] = "readback"]
  /\ answer' = [answer EXCEPT ![q] = "replayed"]
  /\ plan' = [plan EXCEPT ![q] = FirstRow]
  /\ UNCHANGED <<doc, reports, damage, erased, post, fresh, tvars>>

\* A new id with a key that is stored: error 23505, the transaction is rolled
\* back and the row with the key is looked up.
InsertKeySeen(q) ==
  /\ pc[q] = "insert" /\ InsertFree(q)
  /\ post[q] \notin Stored /\ KeySeen(q)
  /\ pc' = [pc EXCEPT ![q] = "lookup"]
  /\ plan' = [plan EXCEPT ![q] = FirstRow]
  /\ UNCHANGED <<doc, reports, damage, erased, post, fresh, answer, tvars>>

\* The row that is superseded has been erased: error 23503.
InsertPredecessorGone(q) ==
  /\ pc[q] = "insert" /\ InsertFree(q)
  /\ post[q] \notin Stored /\ ~KeySeen(q)
  /\ plan[q].supersedes \in ReportIds \ Stored
  /\ pc' = [pc EXCEPT ![q] = "answered"]
  /\ answer' = [answer EXCEPT ![q] = "failed"]
  /\ plan' = [plan EXCEPT ![q] = FirstRow]
  /\ UNCHANGED <<doc, reports, damage, erased, post, fresh, tvars>>

\* The row is inserted, once no takedown holds the row it supersedes.
InsertNew(q) ==
  /\ pc[q] = "insert" /\ InsertFree(q)
  /\ post[q] \notin Stored /\ ~KeySeen(q)
  /\ plan[q].supersedes \in Stored \union {NoReport}
  /\ \A w \in Takedowns : HoldsTarget(w) => target[w] # plan[q].supersedes
  /\ pc' = [pc EXCEPT ![q] = IF HasBuilding(q) THEN "refresh" ELSE "commit"]
  /\ UNCHANGED <<doc, reports, damage, erased, post, plan, fresh, answer, tvars>>

\* Mutant: the incoming report's damage is written blindly.
RefreshWithIncoming(q) ==
  /\ pc[q] = "refresh"
  /\ fresh' = [fresh EXCEPT ![q] = post[q]]
  /\ pc' = [pc EXCEPT ![q] = "commit"]
  /\ UNCHANGED <<doc, reports, damage, erased, post, plan, answer, tvars>>

\* UPDATE buildings SET current_damage = that of the newest row, q's included.
RefreshBuildingCurrentDamage(q) ==
  /\ pc[q] = "refresh"
  /\ \E n \in ReportIds :
       /\ IsNewest(n, Of(BuildingOf(q), Stored \union {post[q]}))
       /\ fresh' = [fresh EXCEPT ![q] = n]
  /\ pc' = [pc EXCEPT ![q] = "commit"]
  /\ UNCHANGED <<doc, reports, damage, erased, post, plan, answer, tvars>>

CommitSubmit(q) ==
  /\ pc[q] = "commit"
  /\ reports' = [reports EXCEPT ![post[q]] = plan[q]]
  /\ damage' = IF HasBuilding(q)
                 THEN [damage EXCEPT ![BuildingOf(q)] = doc[fresh[q]].damage]
                 ELSE damage
  /\ pc' = [pc EXCEPT ![q] = "readback"]
  /\ answer' = [answer EXCEPT ![q] = "created"]
  /\ plan' = [plan EXCEPT ![q] = FirstRow]
  /\ fresh' = [fresh EXCEPT ![q] = NoReport]
  /\ UNCHANGED <<doc, erased, post, tvars>>

\* A timeout, a lost connection or a crash ends the transaction, whose writes
\* and locks are gone; after the commit only the answer is lost.
AbortSubmit(q) ==
  /\ pc[q] \in {"upsert", "version", "insert", "refresh", "commit", "lookup", "readback"}
  /\ pc' = [pc EXCEPT ![q] = "answered"]
  /\ answer' = [answer EXCEPT ![q] = "failed"]
  /\ plan' = [plan EXCEPT ![q] = FirstRow]
  /\ fresh' = [fresh EXCEPT ![q] = NoReport]
  /\ UNCHANGED <<doc, reports, damage, erased, post, tvars>>

\* GetByIdempotencyKey after a 23505.
LookupByKey(q) ==
  /\ pc[q] = "lookup"
  /\ answer' = [answer EXCEPT ![q] = IF KeySeen(q) THEN "replayed" ELSE "failed"]
  /\ pc' = [pc EXCEPT ![q] = "answered"]
  /\ UNCHANGED <<doc, reports, damage, erased, post, plan, fresh, tvars>>

\* The final GetByID, whose nil result (the row was taken down meanwhile) is
\* returned with the same `created` flag.
ReadBack(q) ==
  /\ pc[q] = "readback"
  /\ pc' = [pc EXCEPT ![q] = "answered"]
  /\ UNCHANGED <<doc, reports, damage, erased, post, plan, fresh, answer, tvars>>

------------------------------------------------------------------------------
(* DELETE /api/v1/reports/{id} *)

\* Mutant: the foreign key's lock on the superseded row is not waited for.
RowFreeOfTakedowns(w) ==
  \A x \in Takedowns \ {w} :
    /\ HoldsTarget(x) => target[x] # target[w]
    /\ tpc[x] = "delete" => target[w] \notin nulled[x]

\* SELECT ... FOR UPDATE: waits for other takedowns that hold or have updated
\* the row, and for inserts that supersede it.
RowFree(w) ==
  /\ \A x \in Takedowns \ {w} :
       /\ HoldsTarget(x) => target[x] # target[w]
       /\ tpc[x] = "delete" => target[w] \notin nulled[x]
  /\ \A q \in Requests : Uncommitted(q) => plan[q].supersedes # target[w]

LockTarget(w) ==
  /\ tpc[w] = "idle" /\ RowFree(w)
  /\ target[w] \in Stored /\ w \notin Strangers
  /\ tpc' = [tpc EXCEPT ![w] = "nullRefs"]
  /\ UNCHANGED <<doc, reports, damage, erased, qvars, target, nulled>>

\* No such row, or the caller's device did not create it: nothing is changed.
RefuseTakedown(w) ==
  /\ tpc[w] = "idle" /\ RowFree(w)
  /\ target[w] \notin Stored \/ w \in Strangers
  /\ tpc' = [tpc EXCEPT ![w] = "refused"]
  /\ UNCHANGED <<doc, reports, damage, erased, qvars, target, nulled>>

\* Mutant: the takedown also locks the building row, after its target.
NullReferencesAndLockBuilding(w) ==
  /\ tpc[w] = "nullRefs"
  /\ \A x \in Takedowns : HoldsTarget(x) => target[x] \notin ReferringTo(target[w])
  /\ \A q \in Requests : BuildingOf(q) = doc[target[w]].building => ~HoldsBuilding(q)
  /\ nulled' = [nulled EXCEPT ![w] = ReferringTo(target[w])]
  /\ tpc' = [tpc EXCEPT ![w] = "delete"]
  /\ UNCHANGED <<doc, reports, damage, erased, qvars, target>>

\* UPDATE reports SET supersedes_report_id = NULL: waits for the takedowns of
\* the rows it updates.
NullReferences(w) ==
  /\ tpc[w] = "nullRefs"
  /\ \A x \in Takedowns : HoldsTarget(x) => target[x] \notin ReferringTo(target[w])
  /\ nulled' = [nulled EXCEPT ![w] = ReferringTo(target[w])]
  /\ tpc' = [tpc EXCEPT ![w] = "delete"]
  /\ UNCHANGED <<doc, reports, damage, erased, qvars, target>>

\* DELETE, the row of report_withdrawals and the commit; the foreign key lets
\* it through when every row that refers to the target is one w has nulled.
DeleteAndCommit(w) ==
  /\ tpc[w] = "delete"
  /\ ReferringTo(target[w]) \subseteq nulled[w]
  /\ reports' = Without(target[w], nulled[w])
  /\ erased' = erased \union {target[w]}
  /\ tpc' = [tpc EXCEPT ![w] = "erased"]
  /\ nulled' = [nulled EXCEPT ![w] = {}]
  /\ UNCHANGED <<doc, damage, qvars, target>>

\* The deferred rollback after an error.
AbortTakedown(w) ==
  /\ HoldsTarget(w)
  /\ tpc' = [tpc EXCEPT ![w] = "refused"]
  /\ nulled' = [nulled EXCEPT ![w] = {}]
  /\ UNCHANGED <<doc, reports, damage, erased, qvars, target>>

------------------------------------------------------------------------------

\* One statement of request q or of takedown w that is not a failure.
SubmitStep(q) == \/ BeginSubmit(q) \/ UpsertBuilding(q) \/ NextVersionForBuilding(q)
                 \/ InsertReplay(q) \/ InsertKeySeen(q) \/ InsertPredecessorGone(q)
                 \/ InsertNew(q) \/ RefreshBuildingCurrentDamage(q) \/ CommitSubmit(q)
                 \/ LookupByKey(q) \/ ReadBack(q)
TakedownStep(w) == LockTarget(w) \/ RefuseTakedown(w) \/ NullReferences(w) \/ DeleteAndCommit(w)

\* Every request has been answered.
Quiescent == /\ \A q \in Requests : pc[q] = "answered"
             /\ \A w \in Takedowns : tpc[w] \in {"refused", "erased"}
             /\ UNCHANGED vars

Next == \/ \E q \in Requests : SubmitStep(q) \/ AbortSubmit(q)
        \/ \E w \in Takedowns : TakedownStep(w) \/ AbortTakedown(w)
        \/ Quiescent

Spec == Init /\ [][Next]_vars

------------------------------------------------------------------------------
(* Properties *)

TypeOK ==
  /\ doc \in [ReportIds -> Doc]
  /\ reports \in [ReportIds -> Row \union {NoRow}]
  /\ damage \in [Buildings -> Damages \union {NoDamage}]
  /\ erased \subseteq ReportIds
  /\ pc \in [Requests -> {"idle", "upsert", "version", "insert", "refresh",
                          "commit", "lookup", "readback", "answered"}]
  /\ post \in [Requests -> ReportIds]
  /\ plan \in [Requests -> Row]
  /\ fresh \in [Requests -> ReportIds \union {NoReport}]
  /\ answer \in [Requests -> {"none", "created", "replayed", "failed"}]
  /\ tpc \in [Takedowns -> {"idle", "nullRefs", "delete", "erased", "refused"}]
  /\ target \in [Takedowns -> ReportIds]
  /\ nulled \in [Takedowns -> SUBSET ReportIds]

\* As long as no report of a building was erased, its n rows carry the versions
\* 1 to n, whatever submits, replays and failures were interleaved: the row lock
\* of NextVersionForBuilding makes counting and inserting one step.
VersionsCount ==
  \A b \in Buildings :
    Of(b, erased) = {} =>
      LET rows == Of(b, Stored) IN
      {reports[r].version : r \in rows} = 1 .. Cardinality(rows)

\* Two rows of a building never share a version number.
VersionsDistinct ==
  \A r, s \in Stored :
    r # s /\ doc[r].building = doc[s].building /\ doc[r].building # NoBuilding
      => reports[r].version # reports[s].version

\* A row supersedes a row that exists and is of the same building, also when
\* the predecessor is taken down while the submit that supersedes it runs.
SupersedesStored ==
  \A r \in Stored :
    reports[r].supersedes # NoReport =>
      /\ reports[r].supersedes \in Stored
      /\ doc[reports[r].supersedes].building = doc[r].building

\* The damage shown for a building is that of its newest row, in whatever order
\* the reports came in: RefreshBuildingCurrentDamage.
DamageIsNewest ==
  \A b \in Buildings :
    \/ Of(b, Stored) = {} /\ damage[b] = NoDamage
    \/ \E n \in ReportIds : IsNewest(n, Of(b, Stored)) /\ damage[b] = doc[n].damage

\* The same, of the buildings none of whose reports was erased.
DamageIsNewestUnlessErased ==
  \A b \in Buildings :
    Of(b, erased) = {} =>
      \/ Of(b, Stored) = {} /\ damage[b] = NoDamage
      \/ \E n \in ReportIds : IsNewest(n, Of(b, Stored)) /\ damage[b] = doc[n].damage

\* A report the server acknowledged, as new or as a replay, is in the table
\* (under its id or its idempotency key) or was erased: no commit is lost.
AcknowledgedIsStored ==
  \A q \in Requests :
    answer[q] \in {"created", "replayed"} =>
      \E r \in Stored \union erased :
        r = post[q] \/ doc[r].key = doc[post[q]].key

\* At-least-once delivery creates a report once: of the requests that carry one
\* idempotency key, at most one is told it created a report, unless a report
\* with that key was erased in between.
CreatedOnce ==
  \A p, q \in Requests :
    /\ p # q
    /\ answer[p] = "created" /\ answer[q] = "created"
    /\ doc[post[p]].key = doc[post[q]].key
    => \E r \in erased : doc[r].key = doc[post[q]].key

\* A takedown that reaches its DELETE is not refused by the foreign key: no row
\* came to supersede the target after the references were nulled.
TakedownUnhindered ==
  \A w \in Takedowns :
    tpc[w] = "delete" => ReferringTo(target[w]) \subseteq nulled[w] /\ nulled[w] \subseteq Stored

\* The inductive invariant behind the properties above.

\* At most one transaction is past the upsert of a building.
LockExclusive ==
  \A p, q \in Requests :
    p # q /\ HoldsBuilding(p) /\ HoldsBuilding(q) => BuildingOf(p) # BuildingOf(q)

\* Before its insert, the plan of q is next in line, unless the row it is to
\* supersede has been erased since it was read.
PlanReady(q) ==
  \/ ~HasBuilding(q) /\ plan[q] = FirstRow
  \/ HasBuilding(q) /\ NextInLine(plan[q], BuildingOf(q))
  \/ /\ HasBuilding(q)
     /\ plan[q].supersedes \in ReportIds \ Stored
     /\ doc[plan[q].supersedes].building = BuildingOf(q)

PlanBeforeInsert ==
  \A q \in Requests : /\ pc[q] = "idle" => plan[q] = FirstRow
                      /\ pc[q] \in {"upsert", "version"} => HasBuilding(q)
                      /\ pc[q] = "insert" => PlanReady(q)

\* Once the row of q is inserted, it stays the one row of its id and of its key,
\* and next in line, until the commit.
RowReady(q) ==
  /\ post[q] \notin Stored /\ ~KeySeen(q) /\ InsertFree(q)
  /\ IF HasBuilding(q) THEN NextInLine(plan[q], BuildingOf(q))
                       ELSE plan[q] = FirstRow /\ pc[q] = "commit"

PlanAfterInsert == \A q \in Requests : Uncommitted(q) => RowReady(q)

\* The damage the refresh of q read is still that of the newest row.
FreshReady(q) == /\ fresh[q] \in ReportIds
                 /\ IsNewest(fresh[q], Of(BuildingOf(q), Stored \union {post[q]}))

FreshIsNewest ==
  \A q \in Requests : pc[q] = "commit" /\ HasBuilding(q) => FreshReady(q)

\* A takedown holds a row nobody else is erasing, unlinking or superseding.
TargetsHeld ==
  \A w \in Takedowns :
    HoldsTarget(w) =>
      /\ target[w] \in Stored
      /\ \A q \in Requests : Uncommitted(q) => plan[q].supersedes # target[w]
      /\ \A x \in Takedowns :
           /\ x # w /\ HoldsTarget(x) => target[x] # target[w]
           /\ tpc[x] = "delete" => target[w] \notin nulled[x]

\* The rows a takedown has unlinked are the ones that supersede its target.
NulledAreReferring ==
  \A w \in Takedowns : tpc[w] = "delete" => nulled[w] = ReferringTo(target[w])

IInv == /\ TypeOK
        /\ LockExclusive
        /\ PlanBeforeInsert
        /\ PlanAfterInsert
        /\ FreshIsNewest
        /\ TargetsHeld
        /\ NulledAreReferring
        /\ SupersedesStored
        /\ VersionsCount
        /\ DamageIsNewestUnlessErased

\* The row locks of submits and takedowns never wait on each other in a circle:
\* every request that has arrived is answered.  FootprintIngest states when.
EveryRequestAnswered ==
  /\ \A q \in Requests : pc[q] # "idle" ~> pc[q] = "answered"
  /\ \A w \in Takedowns : <>(tpc[w] \in {"refused", "erased"})
==============================================================================
