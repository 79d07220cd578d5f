---------------------------- MODULE SubmitPipeline ---------------------------
(***************************************************************************)
(* POST /api/v1/reports from the arrival of a document to the answer, as   *)
(* concurrent handlers run it: the device is resolved to a submitter, the  *)
(* id is looked up to recognise a replay, the rate limits and the near-    *)
(* duplicate check read committed rows, and only then does a transaction   *)
(* insert the row.  Every query before the transaction sees the table as   *)
(* it is at that moment, and nothing keeps it that way until the insert.   *)
(* A client may deliver a document any number of times, and takes reports  *)
(* down.  BuildingVersions looks inside the transaction.                   *)
(***************************************************************************)
EXTENDS Integers, FiniteSets

CONSTANTS
  ReportIds, Keys,  \* client-generated ids and idempotency keys
  Devices,          \* the devices that send reports
  NoDevice,         \* a NULL submitter_id
  NoSpot,           \* a report whose location is unresolved
  NoRow,            \* an id with no row in `reports`
  NoReport,         \* a handler with no document
  Drafts,           \* the sets of documents the clients of a behaviour hold
  Workers,          \* handlers that run at the same time
  BurstMax, BurstWindow, SustainedMax, SustainedWindow, DedupRadius, DedupWindow,
  MaxNow,           \* bound: the clock stops here
  MaxFaults         \* bound: reads that fail and are ignored

\* spot is a point on a line, and the times are those of the client's clock.
Doc == [key : Keys, device : Devices, spot : Int \union {NoSpot},
        captured : Int, footprint : BOOLEAN]

\* path: whether the guards let the request through ("checked"), were skipped
\* because its id was stored ("replay"), or after a failed read ("unguarded").
Paths == {"checked", "replay", "unguarded"}
Row == [device : Devices \union {NoDevice}, created : Nat, path : Paths]

ASSUME ReportIdsAssumption == ReportIds \subseteq Nat /\ IsFiniteSet(ReportIds)
ASSUME DraftsAssumption == Drafts \subseteq [ReportIds -> Doc]
ASSUME WorkersAssumption == IsFiniteSet(Workers)
ASSUME LimitsAssumption == /\ BurstMax \in Nat \ {0} /\ SustainedMax \in Nat \ {0}
                           /\ BurstWindow \in Nat /\ SustainedWindow \in Nat
                           /\ DedupRadius \in Nat /\ DedupWindow \in Nat
                           /\ MaxNow \in Nat /\ MaxFaults \in Nat
ASSUME NullsAssumption == NoDevice \notin Devices /\ NoReport \notin ReportIds /\ NoRow \notin Row

VARIABLES
  doc,      \* doc[r]: the document with id r
  now,      \* the server's clock
  faults,   \* reads that failed so far
  reports,  \* reports[r]: the row with id r, or NoRow
  erased,   \* the ids that were taken down
  pc,       \* pc[w]: the statement handler w is about to run
  job,      \* job[w]: the id of the document it handles
  device,   \* device[w]: the submitter it resolved
  since,    \* since[w]: the clock when the guards of w began
  path,     \* path[w]: how the request passed the guards
  refused,  \* refused[w]: the guards refused the last request of w (429 or 409)
  arrived   \* arrived[w]: its report was stored already when the document arrived

table == <<doc, now, reports, erased>>
vars  == <<doc, now, faults, reports, erased, pc, job, device, since, path,
           refused, arrived>>

Stored == {r \in ReportIds : reports[r] # NoRow}
KeyStored(r) == \E s \in Stored : doc[s].key = doc[r].key

Abs(n) == IF n < 0 THEN -n ELSE n

Init == /\ doc \in Drafts
        /\ now = 0 /\ faults = 0 /\ erased = {}
        /\ reports = [r \in ReportIds |-> NoRow]
        /\ pc = [w \in Workers |-> "idle"]
        /\ job = [w \in Workers |-> NoReport]
        /\ device = [w \in Workers |-> NoDevice]
        /\ since = [w \in Workers |-> 0]
        /\ path = [w \in Workers |-> "unguarded"]
        /\ refused = [w \in Workers |-> FALSE]
        /\ arrived = [w \in Workers |-> FALSE]

------------------------------------------------------------------------------

Goto(w, label) == pc' = [pc EXCEPT ![w] = label]

\* w has answered and is free again.
Free(w) == /\ Goto(w, "idle")
           /\ device' = [device EXCEPT ![w] = NoDevice]
           /\ since' = [since EXCEPT ![w] = 0]
           /\ path' = [path EXCEPT ![w] = "unguarded"]

\* w answers with the report, new or old, or with an internal error.
Finish(w) == /\ Free(w)
             /\ job' = [job EXCEPT ![w] = NoReport]
             /\ arrived' = [arrived EXCEPT ![w] = FALSE]
             /\ UNCHANGED refused

\* w refuses its document: 429, or 409 about the latest of its duplicates.
Refuse(w) == /\ Free(w)
             /\ refused' = [refused EXCEPT ![w] = TRUE]
             /\ UNCHANGED <<job, arrived>>

\* w goes on to the statement at label.
Proceed(w, label) == Goto(w, label) /\ UNCHANGED <<job, device, refused, arrived>>

\* A document arrives, for the first time or again, and its device is resolved
\* to a submitter; when that fails the report has none, and no guard applies.
Receive(w, r) ==
  /\ pc[w] = "idle"
  /\ job' = [job EXCEPT ![w] = r]
  /\ refused' = [refused EXCEPT ![w] = FALSE]
  /\ arrived' = [arrived EXCEPT ![w] = r \in Stored]
  /\ \/ /\ device' = [device EXCEPT ![w] = doc[r].device]
        /\ Goto(w, "known") /\ UNCHANGED faults
     \/ /\ faults < MaxFaults /\ faults' = faults + 1
        /\ Goto(w, "insert") /\ UNCHANGED device
  /\ UNCHANGED <<table, since, path>>

\* Mutant: a replay is recognised by nothing.
LookupNothing(w) ==
  /\ pc[w] = "known"
  /\ since' = [since EXCEPT ![w] = now]
  /\ Proceed(w, "burst")
  /\ UNCHANGED <<table, faults, path>>

\* Mutant: the first lookup also goes by the idempotency key.
LookupByIdOrKey(w) ==
  /\ pc[w] = "known"
  /\ \/ /\ job[w] \in Stored \/ KeyStored(job[w])
        /\ path' = [path EXCEPT ![w] = "replay"]
        /\ Proceed(w, "insert") /\ UNCHANGED since
     \/ /\ job[w] \notin Stored /\ ~KeyStored(job[w])
        /\ since' = [since EXCEPT ![w] = now]
        /\ Proceed(w, "burst") /\ UNCHANGED path
  /\ UNCHANGED <<table, faults>>

\* The replay check in front of the guards: GetByID.
LookupById(w) ==
  /\ pc[w] = "known"
  /\ \/ /\ job[w] \in Stored
        /\ path' = [path EXCEPT ![w] = "replay"]
        /\ Proceed(w, "insert") /\ UNCHANGED since
     \/ /\ job[w] \notin Stored
        /\ since' = [since EXCEPT ![w] = now]
        /\ Proceed(w, "burst") /\ UNCHANGED path
  /\ UNCHANGED <<table, faults>>

\* When GetByID fails, the guards are skipped.
LookupFails(w) ==
  /\ pc[w] = "known" /\ faults < MaxFaults
  /\ faults' = faults + 1
  /\ Proceed(w, "insert")
  /\ UNCHANGED <<table, since, path>>

\* CountRecentBySubmitter: the rows d created at time t or later.
Recent(d, t) == {r \in Stored : reports[r].device = d /\ reports[r].created >= t}

\* Mutant: the comparison with the limit is off by one.
CountBurstOver(w) ==
  /\ pc[w] = "burst"
  /\ IF Cardinality(Recent(device[w], since[w] - BurstWindow)) > BurstMax
       THEN Refuse(w)
       ELSE Proceed(w, "sustained") /\ UNCHANGED <<since, path>>
  /\ UNCHANGED <<table, faults>>

CountBurst(w) ==
  /\ pc[w] = "burst"
  /\ IF Cardinality(Recent(device[w], since[w] - BurstWindow)) >= BurstMax
       THEN Refuse(w)
       ELSE Proceed(w, "sustained") /\ UNCHANGED <<since, path>>
  /\ UNCHANGED <<table, faults>>

\* The near-duplicate check applies to a point that is not a tapped footprint.
Deduplicated(r) == ~doc[r].footprint /\ doc[r].spot # NoSpot

Pass(w) == /\ path' = [path EXCEPT ![w] = "checked"]
           /\ since' = [since EXCEPT ![w] = 0]
           /\ Proceed(w, "insert")

CountSustained(w) ==
  /\ pc[w] = "sustained"
  /\ IF Cardinality(Recent(device[w], since[w] - SustainedWindow)) >= SustainedMax
       THEN Refuse(w)
       ELSE IF Deduplicated(job[w]) THEN Proceed(w, "dedup") /\ UNCHANGED <<since, path>>
                                    ELSE Pass(w)
  /\ UNCHANGED <<table, faults>>

\* FindDuplicateBySubmitter: a report captured at most DedupWindow before r, or
\* at any time after it.
Duplicates(r, d) ==
  {s \in Stored \ {r} : /\ reports[s].device = d
                        /\ Deduplicated(s)
                        /\ doc[s].captured >= doc[r].captured - DedupWindow
                        /\ Abs(doc[s].spot - doc[r].spot) <= DedupRadius}

\* Mutant: only earlier captures are compared.
FindEarlierDuplicate(w) ==
  /\ pc[w] = "dedup"
  /\ LET found == {s \in Duplicates(job[w], device[w]) : doc[s].captured <= doc[job[w]].captured}
     IN IF found = {} THEN Pass(w) ELSE Refuse(w)
  /\ UNCHANGED <<table, faults>>

FindDuplicate(w) ==
  /\ pc[w] = "dedup"
  /\ LET found == Duplicates(job[w], device[w])
     IN IF found = {} THEN Pass(w) ELSE Refuse(w)
  /\ UNCHANGED <<table, faults>>

\* The transaction: DO NOTHING on a stored id, an error on a stored key, and a
\* new row otherwise.
InsertReplay(w) ==
  /\ pc[w] = "insert" /\ job[w] \in Stored
  /\ Finish(w)
  /\ UNCHANGED <<table, faults>>

InsertKeySeen(w) ==
  /\ pc[w] = "insert" /\ job[w] \notin Stored /\ KeyStored(job[w])
  /\ Proceed(w, "lookup")
  /\ UNCHANGED <<table, faults, since, path>>

InsertNew(w) ==
  /\ pc[w] = "insert" /\ job[w] \notin Stored /\ ~KeyStored(job[w])
  /\ reports' = [reports EXCEPT ![job[w]] =
                   [device |-> device[w], created |-> now, path |-> path[w]]]
  /\ Finish(w)
  /\ UNCHANGED <<doc, now, erased, faults>>

\* GetByIdempotencyKey after the error.
LookupByKey(w) ==
  /\ pc[w] = "lookup"
  /\ Finish(w)
  /\ UNCHANGED <<table, faults>>

\* A guard's query or the transaction fails, or the request times out.
Fail(w) ==
  /\ pc[w] # "idle"
  /\ Finish(w)
  /\ UNCHANGED <<table, faults>>

\* DELETE /api/v1/reports/{id} by the device that created the report.
WithdrawReport(r) ==
  /\ r \in Stored /\ reports[r].device # NoDevice
  /\ reports' = [reports EXCEPT ![r] = NoRow]
  /\ erased' = erased \union {r}
  /\ UNCHANGED <<doc, now, faults, pc, job, device, since, path, refused, arrived>>

Tick ==
  /\ now < MaxNow
  /\ now' = now + 1
  /\ UNCHANGED <<doc, faults, reports, erased, pc, job, device, since, path, refused,
                 arrived>>

HandlerStep(w) == \/ \E r \in ReportIds : Receive(w, r)
                  \/ LookupById(w) \/ LookupFails(w)
                  \/ CountBurst(w) \/ CountSustained(w) \/ FindDuplicate(w)
                  \/ InsertReplay(w) \/ InsertKeySeen(w) \/ InsertNew(w)
                  \/ LookupByKey(w) \/ Fail(w)

Next == \/ \E w \in Workers : HandlerStep(w)
        \/ \E r \in ReportIds : WithdrawReport(r)
        \/ Tick

Spec == Init /\ [][Next]_vars

------------------------------------------------------------------------------
(* Properties *)

TypeOK ==
  /\ doc \in [ReportIds -> Doc]
  /\ now \in 0 .. MaxNow /\ faults \in 0 .. MaxFaults
  /\ reports \in [ReportIds -> Row \union {NoRow}]
  /\ erased \subseteq ReportIds
  /\ pc \in [Workers -> {"idle", "known", "burst", "sustained", "dedup", "insert", "lookup"}]
  /\ job \in [Workers -> ReportIds \union {NoReport}]
  /\ \A w \in Workers : pc[w] # "idle" => job[w] # NoReport
  /\ device \in [Workers -> Devices \union {NoDevice}]
  /\ since \in [Workers -> 0 .. MaxNow]
  /\ path \in [Workers -> Paths]
  /\ refused \in [Workers -> BOOLEAN]
  /\ arrived \in [Workers -> BOOLEAN]

\* The rows of device d that went through the guards in the window that ends now.
Admitted(d, window) == {r \in Recent(d, now - window) : reports[r].path = "checked"}

\* The guards read before they write, so handlers that run together may each
\* see room for one more: a device gets at most one report too many for each
\* further handler, in any window, however the requests are spaced; and every
\* variable keeps its type.
RateOvershootBounded ==
  /\ TypeOK
  /\ \A d \in Devices :
       /\ Cardinality(Admitted(d, BurstWindow)) <= BurstMax + Cardinality(Workers) - 1
       /\ Cardinality(Admitted(d, SustainedWindow)) <= SustainedMax + Cardinality(Workers) - 1

\* Two documents of one device that the near-duplicate check is about.
Near(r, s) == /\ doc[r].device = doc[s].device
              /\ Deduplicated(r) /\ Deduplicated(s)
              /\ Abs(doc[r].spot - doc[s].spot) <= DedupRadius
              /\ Abs(doc[r].captured - doc[s].captured) <= DedupWindow

\* Reports that are pairwise near-duplicates all passed the check while the
\* others were in flight: there are no more of them than handlers.
NearDuplicatesBounded ==
  \A S \in SUBSET {r \in Stored : reports[r].path = "checked"} :
    (\A r, s \in S : r # s => Near(r, s)) => Cardinality(S) <= Cardinality(Workers)

\* Replays are told from new reports: a POST of a report that is stored when it
\* arrives never trips the limits or the duplicate check, unless the report is
\* taken down meanwhile; and skipping them creates a row only when its id was
\* taken down between the lookup and the insert.
ReplaysRecognised ==
  /\ \A w \in Workers : refused[w] /\ arrived[w] => job[w] \in erased
  /\ \A r \in Stored : reports[r].path = "replay" => r \in erased
==============================================================================
