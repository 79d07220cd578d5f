---------------------------- MODULE ReportEvidence ---------------------------
(***************************************************************************)
(* The photo of a report and the analyst's decision about the report.  The *)
(* photo is a file, written outside any transaction, and a column of the   *)
(* row that says it is there; an upload, a takedown and a crash may meet   *)
(* between the two, and so may the requests of two reports whose ids make  *)
(* the same file name.  A decision is one transaction that locks the row,  *)
(* looks for a photo, writes an audit row and changes the status.          *)
(***************************************************************************)
EXTENDS Naturals, Sequences

CONSTANTS
  ReportIds,
  NameOf,      \* photoFileName: several ids may have the same file name
  NoRow,       \* an id with no row in `reports`
  Uploads,     \* POST .../photo, the handlers that run at the same time
  Takedowns,   \* DELETE, likewise
  Analysts,    \* PATCH .../verification, likewise
  MaxPosts,    \* bound: how often each report is posted anew after a takedown
  MaxDecisions,  \* bound: decisions about a row of each report
  MaxFaults    \* bound: crashes and failed writes

Verifications == {"pending", "verified", "flagged"}

\* owned: the row has a submitter; photo: photo_url is set.
Row   == [owned : BOOLEAN, photo : BOOLEAN, verification : Verifications]
Audit == [from : Verifications, to : Verifications, forced : BOOLEAN]

Names == {NameOf[r] : r \in ReportIds}

\* The other reports whose photo goes by the name of that of r.
Sharing(r) == {q \in ReportIds \ {r} : NameOf[q] = NameOf[r]}

\* A file that was opened for writing is "partial" until it is closed; two that
\* were written at a time may leave a "garbled" one.
Files == {"none", "partial", "whole", "garbled"}

ASSUME BoundsAssumption == /\ MaxPosts \in [ReportIds -> Nat]
                           /\ MaxDecisions \in [ReportIds -> Nat]
                           /\ MaxFaults \in Nat
ASSUME NoRowAssumption == NoRow \notin Row
ASSUME ReportIdsAssumption == ReportIds # {}
ASSUME NameOfAssumption == DOMAIN NameOf = ReportIds

VARIABLES
  row,     \* row[r]: the row with id r, or NoRow
  audit,   \* audit[r]: its rows of report_verification_audit, oldest first
  file,    \* file[n]: the file with name n in PhotoDir
  posts,   \* posts[r]: how often r was posted
  erased,  \* the ids that were taken down
  upc, job,      \* what upload u does next, and its report
  linked,  \* linked[u]: the file that u is writing is the one in PhotoDir
  mixed,   \* mixed[u]: another upload wrote to that file at the same time
  tpc, target,   \* what takedown t does next, and its report
  apc, decision, \* what analyst a does next, and the decision
  faults,  \* crashes and failures so far
  collided, \* the names of files that uploads wrote at the same time
  usurped  \* the ids whose file an upload or a takedown of another report has
           \* truncated or removed since they last opened it themselves

rvars == <<row, audit, posts, erased>>
uvars == <<upc, job, linked, mixed, collided, usurped>>
tvars == <<tpc, target>>
avars == <<apc, decision>>
vars  == <<row, audit, file, posts, erased, upc, job, linked, mixed, tpc, target,
           apc, decision, faults, collided, usurped>>

Decision == [of : ReportIds, from : Verifications, to : Verifications, forced : BOOLEAN]

\* What stands for the report of a handler that has none.
SomeReport == CHOOSE r \in ReportIds : TRUE
Undecided == [of |-> SomeReport, from |-> "pending", to |-> "pending",
              forced |-> FALSE]

Init == /\ row = [r \in ReportIds |-> NoRow]
        /\ audit = [r \in ReportIds |-> <<>>]
        /\ file = [n \in Names |-> "none"]
        /\ posts = [r \in ReportIds |-> 0]
        /\ erased = {}
        /\ upc = [u \in Uploads |-> "idle"]
        /\ job = [u \in Uploads |-> SomeReport]
        /\ linked = [u \in Uploads |-> FALSE]
        /\ mixed = [u \in Uploads |-> FALSE]
        /\ tpc = [t \in Takedowns |-> "idle"]
        /\ target = [t \in Takedowns |-> SomeReport]
        /\ apc = [a \in Analysts |-> "idle"]
        /\ decision = [a \in Analysts |-> Undecided]
        /\ faults = 0
        /\ collided = {} /\ usurped = {}

\* POST /api/v1/reports of an id that is not stored; without a submitter when
\* the device could not be resolved.
PostReport(r) ==
  /\ row[r] = NoRow /\ posts[r] <= MaxPosts[r]
  /\ \E o \in BOOLEAN :
       row' = [row EXCEPT ![r] = [owned |-> o, photo |-> FALSE, verification |-> "pending"]]
  /\ posts' = [posts EXCEPT ![r] = posts[r] + 1]
  /\ UNCHANGED <<audit, file, erased, faults, uvars, tvars, avars>>

\* Mutant: a decision does not lock its row.
LockedByNobody(r) == FALSE

\* An analyst's transaction holds the row of r FOR UPDATE.
Locked(r) == \E a \in Analysts : apc[a] = "locked" /\ decision[a].of = r

------------------------------------------------------------------------------
(* POST /api/v1/reports/{id}/photo *)

UGoto(u, label) == upc' = [upc EXCEPT ![u] = label]
Answer(u) == UGoto(u, "idle") /\ job' = [job EXCEPT ![u] = SomeReport]

\* Mutant: the photo is recorded before it is written.
AuthorizeAndRecord(u) ==
  /\ upc[u] = "idle"
  /\ \E r \in ReportIds :
       /\ row[r] # NoRow /\ ~Locked(r)
       /\ row[r].owned \/ ~row[r].photo
       /\ job' = [job EXCEPT ![u] = r]
       /\ row' = [row EXCEPT ![r].photo = TRUE]
  /\ UGoto(u, "open")
  /\ UNCHANGED <<audit, file, posts, erased, faults, linked, mixed, collided, usurped, tvars, avars>>

\* The caller is the report's device; without one, it may add a first photo (as
\* long as the upload window is open, which it may be).
Authorize(u) ==
  /\ upc[u] = "idle"
  /\ \E r \in ReportIds :
       /\ row[r] # NoRow
       /\ row[r].owned \/ ~row[r].photo
       /\ job' = [job EXCEPT ![u] = r]
  /\ UGoto(u, "open")
  /\ UNCHANGED <<file, faults, linked, mixed, collided, usurped, rvars, tvars, avars>>

\* The uploads other than u that are writing the file with name n.
Writing(u, n) == {v \in Uploads \ {u} : upc[v] = "write" /\ NameOf[job[v]] = n /\ linked[v]}

\* os.WriteFile opens the file, new or truncated ...
OpenFile(u) ==
  /\ upc[u] = "open"
  /\ LET n      == NameOf[job[u]]
         others == Writing(u, n) IN
     /\ file' = [file EXCEPT ![n] = "partial"]
     /\ mixed' = [v \in Uploads |-> mixed[v] \/ (others # {} /\ v \in others \union {u})]
     /\ collided' = IF others = {} THEN collided ELSE collided \union {n}
  /\ linked' = [linked EXCEPT ![u] = TRUE]
  /\ usurped' = (usurped \ {job[u]}) \union Sharing(job[u])
  /\ UGoto(u, "write")
  /\ UNCHANGED <<job, faults, rvars, tvars, avars>>

\* ... and writes it.  If the file was unlinked meanwhile nothing of it remains.
WriteFile(u) ==
  /\ upc[u] = "write"
  /\ LET n == NameOf[job[u]] IN
     IF ~linked[u] \/ Writing(u, n) # {} THEN UNCHANGED file
     ELSE \E f \in IF mixed[u] THEN {"whole", "garbled"} ELSE {"whole"} :
            file' = [file EXCEPT ![n] = f]
  /\ linked' = [linked EXCEPT ![u] = FALSE]
  /\ mixed' = [mixed EXCEPT ![u] = FALSE]
  /\ UGoto(u, "record")
  /\ UNCHANGED <<job, faults, collided, usurped, rvars, tvars, avars>>

\* The disk is full, say: what was written stays.
WriteFails(u) ==
  /\ upc[u] = "write" /\ faults < MaxFaults
  /\ faults' = faults + 1
  /\ linked' = [linked EXCEPT ![u] = FALSE]
  /\ mixed' = [mixed EXCEPT ![u] = FALSE]
  /\ Answer(u)
  /\ UNCHANGED <<file, collided, usurped, rvars, tvars, avars>>

\* Mutant: an upload whose report is gone leaves its file.
SetPhotoURLOnly(u) ==
  /\ upc[u] = "record" /\ ~Locked(job[u])
  /\ row' = IF row[job[u]] = NoRow THEN row ELSE [row EXCEPT ![job[u]].photo = TRUE]
  /\ Answer(u)
  /\ UNCHANGED <<audit, file, posts, erased, faults, linked, mixed, collided, usurped, tvars, avars>>

\* UPDATE reports SET photo_url: no row means the report was taken down.
SetPhotoURL(u) ==
  /\ upc[u] = "record" /\ ~Locked(job[u])
  /\ IF row[job[u]] = NoRow
       THEN UGoto(u, "remove") /\ UNCHANGED <<row, job>>
       ELSE row' = [row EXCEPT ![job[u]].photo = TRUE] /\ Answer(u)
  /\ UNCHANGED <<audit, file, posts, erased, faults, linked, mixed, collided, usurped, tvars, avars>>

\* The update fails or the request is cancelled: an internal error, and no more.
SetPhotoURLFails(u) ==
  /\ upc[u] = "record" /\ faults < MaxFaults
  /\ faults' = faults + 1
  /\ Answer(u)
  /\ UNCHANGED <<file, linked, mixed, collided, usurped, rvars, tvars, avars>>

\* os.Remove: whoever is writing the file goes on writing one without a name.
Unlink(r) == /\ file' = [file EXCEPT ![NameOf[r]] = "none"]
             /\ linked' = [u \in Uploads |-> linked[u] /\ NameOf[job[u]] # NameOf[r]]
             /\ usurped' = usurped \union Sharing(r)

RemovePhoto(u) ==
  /\ upc[u] = "remove"
  /\ Unlink(job[u])
  /\ Answer(u)
  /\ UNCHANGED <<mixed, faults, collided, rvars, tvars, avars>>

------------------------------------------------------------------------------
(* DELETE /api/v1/reports/{id} *)

\* The transaction of WithdrawReport; the audit rows go with the report.
EraseReport(t) ==
  /\ tpc[t] = "idle"
  /\ \E r \in ReportIds :
       /\ row[r] # NoRow /\ row[r].owned /\ ~Locked(r)
       /\ row' = [row EXCEPT ![r] = NoRow]
       /\ audit' = [audit EXCEPT ![r] = <<>>]
       /\ erased' = erased \union {r}
       /\ target' = [target EXCEPT ![t] = r]
  /\ tpc' = [tpc EXCEPT ![t] = "unlink"]
  /\ UNCHANGED <<file, posts, faults, uvars, avars>>

\* The photo, after the row is gone.
ErasePhoto(t) ==
  /\ tpc[t] = "unlink"
  /\ Unlink(target[t])
  /\ tpc' = [tpc EXCEPT ![t] = "idle"]
  /\ target' = [target EXCEPT ![t] = SomeReport]
  /\ UNCHANGED <<upc, job, mixed, collided, faults, rvars, avars>>

------------------------------------------------------------------------------
(* PATCH /api/v1/reports/{id}/verification *)

\* Mutant: the photo gate is gone.
DecideBlindly(a) ==
  /\ apc[a] = "idle"
  /\ \E r \in ReportIds, s \in Verifications, forced \in BOOLEAN :
       /\ row[r] # NoRow /\ ~Locked(r)
       /\ Len(audit[r]) < MaxDecisions[r]
       /\ decision' = [decision EXCEPT ![a] = [of |-> r, from |-> row[r].verification,
                                               to |-> s, forced |-> forced]]
  /\ apc' = [apc EXCEPT ![a] = "locked"]
  /\ UNCHANGED <<file, faults, rvars, uvars, tvars>>

\* SELECT ... FOR UPDATE, and the gate: a report without a photo is verified
\* only by force.  A refusal ends the transaction, which changed nothing.
Decide(a) ==
  /\ apc[a] = "idle"
  /\ \E r \in ReportIds, s \in Verifications, forced \in BOOLEAN :
       /\ row[r] # NoRow /\ ~Locked(r)
       /\ Len(audit[r]) < MaxDecisions[r]
       /\ s = "verified" => row[r].photo \/ forced
       /\ decision' = [decision EXCEPT ![a] = [of |-> r, from |-> row[r].verification,
                                               to |-> s, forced |-> forced]]
  /\ apc' = [apc EXCEPT ![a] = "locked"]
  /\ UNCHANGED <<file, faults, rvars, uvars, tvars>>

\* The audit row, the new status and the commit.
UpdateVerification(a) ==
  /\ apc[a] = "locked"
  /\ LET d == decision[a] IN
     /\ row[d.of] # NoRow
     /\ audit' = [audit EXCEPT ![d.of] =
                    Append(audit[d.of], [from |-> d.from, to |-> d.to, forced |-> d.forced])]
     /\ row' = [row EXCEPT ![d.of].verification = d.to]
  /\ apc' = [apc EXCEPT ![a] = "idle"]
  /\ decision' = [decision EXCEPT ![a] = Undecided]
  /\ UNCHANGED <<file, posts, erased, faults, uvars, tvars>>

\* The server stops: transactions roll back, files stay as they are.
Crash ==
  /\ faults < MaxFaults
  /\ faults' = faults + 1
  /\ upc' = [u \in Uploads |-> "idle"]
  /\ job' = [u \in Uploads |-> SomeReport]
  /\ linked' = [u \in Uploads |-> FALSE]
  /\ mixed' = [u \in Uploads |-> FALSE]
  /\ tpc' = [t \in Takedowns |-> "idle"]
  /\ target' = [t \in Takedowns |-> SomeReport]
  /\ apc' = [a \in Analysts |-> "idle"]
  /\ decision' = [a \in Analysts |-> Undecided]
  /\ UNCHANGED <<file, collided, usurped, rvars>>

Idle == /\ \A u \in Uploads : upc[u] = "idle"
        /\ \A t \in Takedowns : tpc[t] = "idle"
        /\ \A a \in Analysts : apc[a] = "idle"

\* Every request has been answered.
Quiescent == Idle /\ UNCHANGED vars

UploadStep(u) == \/ Authorize(u) \/ OpenFile(u) \/ WriteFile(u) \/ WriteFails(u)
                 \/ SetPhotoURL(u) \/ SetPhotoURLFails(u) \/ RemovePhoto(u)

Next == \/ \E r \in ReportIds : PostReport(r)
        \/ \E u \in Uploads : UploadStep(u)
        \/ \E t \in Takedowns : EraseReport(t) \/ ErasePhoto(t)
        \/ \E a \in Analysts : Decide(a) \/ UpdateVerification(a)
        \/ Crash
        \/ Quiescent

Spec == Init /\ [][Next]_vars

------------------------------------------------------------------------------
(* Properties *)

TypeOK ==
  /\ row \in [ReportIds -> Row \union {NoRow}]
  /\ audit \in [ReportIds -> Seq(Audit)]
  /\ file \in [Names -> Files]
  /\ posts \in [ReportIds -> Nat] /\ \A r \in ReportIds : posts[r] <= MaxPosts[r] + 1
  /\ erased \subseteq ReportIds
  /\ upc \in [Uploads -> {"idle", "open", "write", "record", "remove"}]
  /\ job \in [Uploads -> ReportIds]
  /\ linked \in [Uploads -> BOOLEAN] /\ mixed \in [Uploads -> BOOLEAN]
  /\ tpc \in [Takedowns -> {"idle", "unlink"}]
  /\ target \in [Takedowns -> ReportIds]
  /\ apc \in [Analysts -> {"idle", "locked"}]
  /\ decision \in [Analysts -> Decision]
  /\ faults \in 0 .. MaxFaults
  /\ collided \subseteq Names /\ usurped \subseteq ReportIds

\* The audit trail tells the whole story of a status: it starts at pending, each
\* decision starts where the one before it ended, and the last one is the
\* status the row has, whichever analysts decided at the same time.  Every
\* variable keeps its type.
AuditIsChained ==
  /\ TypeOK
  /\ \A r \in ReportIds : row[r] # NoRow =>
       LET n == Len(audit[r])
           before(i) == IF i = 1 THEN "pending" ELSE audit[r][i - 1].to IN
       /\ \A i \in 1 .. n : audit[r][i].from = before(i)
       /\ row[r].verification = before(n + 1)

\* A verified report has a photo on record unless the audit trail says that the
\* gate was forced.
VerifiedHasPhoto ==
  \A r \in ReportIds :
    row[r] # NoRow =>
      (row[r].verification = "verified"
         => row[r].photo \/ audit[r][Len(audit[r])].forced)

\* Uploads and takedowns, in any order, leave no photo without a report that
\* refers to it, as long as nothing fails.
NoOrphanPhoto ==
  Idle /\ faults = 0 =>
    \A n \in Names : file[n] # "none" =>
      \E r \in ReportIds : NameOf[r] = n /\ row[r] # NoRow /\ row[r].photo

\* A photo on record is a whole file, but while it is being replaced: for a
\* report that was never taken down, while no report with the same file name has
\* opened or removed the file after it and no two uploads wrote it at a time, as
\* long as nothing fails.  What the other reports record, decide or take down
\* does not touch it.
RecordedPhotoIsWhole ==
  \A r \in ReportIds \ (erased \union usurped) :
    /\ faults = 0
    /\ NameOf[r] \notin collided
    /\ \A u \in Uploads : job[u] = r => upc[u] # "write"
    /\ row[r] # NoRow
    => (row[r].photo => file[NameOf[r]] = "whole")
==============================================================================
