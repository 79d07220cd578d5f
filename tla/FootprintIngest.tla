--------------------------- MODULE FootprintIngest ---------------------------
(***************************************************************************)
(* cmd/ingest-footprints beside the server: it streams a file of features  *)
(* into `buildings`, BatchN upserts to a transaction, and so holds the     *)
(* rows of a whole batch that the submits of BuildingVersions wait for.    *)
(* One load runs at a time; it is a command of the operator.               *)
(***************************************************************************)
EXTENDS BuildingVersions, Sequences

CONSTANTS
  Files,     \* the files the operator may have
  BatchN,    \* rows per commit
  MaxLoads   \* bound: how often the operator runs the command

\* What becomes of a feature: it is upserted ("polygon"); it has no geometry or
\* no id ("bare"); PostGIS refuses the geometry ("invalid"); it decodes with a
\* type error ("odd"); or the decoder cannot get past it ("broken").
Feature == [kind : {"polygon", "bare", "invalid", "odd", "broken"}, building : Buildings]

ASSUME FilesAssumption == Files \subseteq Seq(Feature)
ASSUME LoadsAssumption == BatchN \in Nat \ {0} /\ MaxLoads \in Nat

VARIABLES
  footprint,  \* footprint[b]: the load whose polygon b shows, 0 for none
  load,       \* the loads begun so far
  file,       \* the features in the array
  at,         \* the feature that dec.Decode is to return next
  batch,      \* the buildings upserted since the last commit, in order
  ipc         \* what the command is doing

ivars == <<footprint, load, file, at, batch, ipc>>
allvars == <<vars, ivars>>

Running == ipc \in {"reading", "commit"}

\* The upserted rows are locked until the commit.
HeldByIngest == {batch[i] : i \in DOMAIN batch}

IInit == /\ Init
         /\ footprint = [b \in Buildings |-> 0]
         /\ load = 0
         /\ file \in Files
         /\ at = 1
         /\ batch = <<>>
         /\ ipc = "idle"

------------------------------------------------------------------------------

\* A run, or a rerun: everything from the first feature on.
BeginIngest ==
  /\ ipc = "idle" /\ load < MaxLoads
  /\ load' = load + 1
  /\ at' = 1
  /\ ipc' = "reading"
  /\ UNCHANGED <<footprint, file, batch, vars>>

\* There is a feature, and it is of one of these kinds.
Reads(kinds) == ipc = "reading" /\ at <= Len(file) /\ file[at].kind \in kinds

\* Mutant: the decoder does not get past a feature of the wrong type.
SkipKnownFeature ==
  /\ Reads({"bare", "invalid"})
  /\ at' = at + 1
  /\ UNCHANGED <<footprint, load, file, batch, ipc, vars>>

\* Skipped, or failed with no effect: the savepoint is rolled back.
SkipFeature ==
  /\ Reads({"bare", "invalid", "odd"})
  /\ at' = at + 1
  /\ UNCHANGED <<footprint, load, file, batch, ipc, vars>>

\* SAVEPOINT, upsert and RELEASE: the upsert waits for the submit that holds the
\* row.  Enough of them are followed by a commit.
UpsertBuildingFootprint ==
  /\ Reads({"polygon"})
  /\ \A q \in Requests : HoldsBuilding(q) => BuildingOf(q) # file[at].building
  /\ at' = at + 1
  /\ batch' = Append(batch, file[at].building)
  /\ ipc' = IF Len(batch) + 1 >= BatchN THEN "commit" ELSE "reading"
  /\ UNCHANGED <<footprint, load, file, vars>>

\* ON CONFLICT sets the footprint, its derived point and its provenance.
Committed == footprint' = [b \in Buildings |-> IF b \in HeldByIngest THEN load ELSE footprint[b]]

\* Mutant: ON CONFLICT sets every column of the new row.
CommitBatchOfRows ==
  /\ ipc = "commit"
  /\ Committed
  /\ damage' = [b \in Buildings |-> IF b \in HeldByIngest THEN NoDamage ELSE damage[b]]
  /\ batch' = <<>>
  /\ ipc' = "reading"
  /\ UNCHANGED <<load, file, at, doc, reports, erased, qvars, tvars>>

\* Mutant: the count of the batch is not reset.
CommitBatchUncounted ==
  /\ ipc = "commit"
  /\ Committed
  /\ ipc' = "reading"
  /\ UNCHANGED <<load, file, at, batch, vars>>

CommitBatch ==
  /\ ipc = "commit"
  /\ Committed
  /\ batch' = <<>>
  /\ ipc' = "reading"
  /\ UNCHANGED <<load, file, at, vars>>

\* dec.More is false at the end of the array, and at the end of a file that was
\* cut between two features.
FinalCommit ==
  /\ ipc = "reading" /\ at > Len(file)
  /\ Committed
  /\ batch' = <<>>
  /\ ipc' = "idle"
  /\ UNCHANGED <<load, file, at, vars>>

\* The decoder returns the same error again and again, and dec.More stays true.
Spin == Reads({"broken"}) /\ UNCHANGED allvars

\* fatal, a crash, a lost connection or the operator: the open batch is lost.
StopIngest ==
  /\ Running
  /\ batch' = <<>>
  /\ ipc' = "idle"
  /\ UNCHANGED <<footprint, load, file, at, vars>>

\* The victim of a deadlock with a formation or a dismissal, which update several
\* buildings too: it counts as failed, and the batch goes on.
UpsertFails ==
  /\ Reads({"polygon"})
  /\ at' = at + 1
  /\ UNCHANGED <<footprint, load, file, batch, ipc, vars>>

IngestStep == SkipFeature \/ UpsertBuildingFootprint \/ CommitBatch \/ FinalCommit

\* The upsert of a submit also waits for the rows of the open batch.
ServerStep(q) ==
  /\ pc[q] = "upsert" => BuildingOf(q) \notin HeldByIngest
  /\ SubmitStep(q)
  /\ UNCHANGED ivars

INext == \/ \E q \in Requests : ServerStep(q) \/ (AbortSubmit(q) /\ UNCHANGED ivars)
         \/ \E w \in Takedowns : (TakedownStep(w) \/ AbortTakedown(w)) /\ UNCHANGED ivars
         \/ BeginIngest \/ IngestStep \/ UpsertFails \/ Spin \/ StopIngest
         \/ Quiescent /\ UNCHANGED ivars

ISpec == IInit /\ [][INext]_allvars

\* A handler that can run its next statement does: the connection pool and the
\* lock queues of the database starve nobody, and the handlers do not stop.  A
\* takedown has arrived from the start; a submit may never come.  The 25 seconds
\* after which a request that waits is cancelled are not counted on.  The command,
\* once begun, runs; nobody has to run it, and nobody has to stop it.
IFairness ==
  /\ \A q \in Requests : WF_allvars(pc[q] # "idle" /\ ServerStep(q))
  /\ \A w \in Takedowns : WF_allvars(TakedownStep(w) /\ UNCHANGED ivars)
  /\ WF_allvars(IngestStep)

IFairSpec == ISpec /\ IFairness

------------------------------------------------------------------------------
(* Properties *)

ITypeOK ==
  /\ TypeOK
  /\ footprint \in [Buildings -> 0 .. MaxLoads]
  /\ load \in 0 .. MaxLoads
  /\ file \in Files
  /\ at \in 1 .. Len(file) + 1
  /\ batch \in Seq(Buildings)
  /\ ipc \in {"idle", "reading", "commit"}

\* No building row is held by the open batch and by a submit at once.
NoRowHeldTwice ==
  \A q \in Requests : HoldsBuilding(q) => BuildingOf(q) \notin HeldByIngest

\* A batch is committed as soon as it is full, so a load holds up the submits of
\* at most BatchN buildings, and of none that a submit holds.
BatchBounded ==
  /\ ITypeOK
  /\ NoRowHeldTwice
  /\ Len(batch) <= BatchN
  /\ Len(batch) = BatchN <=> ipc = "commit"
  /\ ~Running => batch = <<>>

\* The features from i on that have a polygon, and the j-th of some positions.
PolygonsFrom(i) == {k \in i .. Len(file) : file[k].kind = "polygon"}
Upto(S, k) == {m \in S : m <= k}
Nth(S, j) == CHOOSE k \in {m \in S : Cardinality(Upto(S, m)) = j} : TRUE

\* The buildings with a polygon among the features from i on, in order.
Polygons(i) ==
  [j \in 1 .. Cardinality(PolygonsFrom(i)) |-> file[Nth(PolygonsFrom(i), j)].building]

Promise == INSTANCE FootprintLoad WITH
             due <- IF Running THEN batch \o Polygons(at) ELSE <<>>,
             loading <- Running

\* The load implements what FootprintLoad promises: whole batches, in order, a
\* bad feature costing only itself, and the damage of a building untouched.
LoadSpec == Promise!LSpec

Readable == \A i \in DOMAIN file : file[i].kind # "broken"

\* A file whose every feature decodes is loaded to its end, whatever the submits
\* lock meanwhile.
IngestEnds == Readable /\ Running ~> ipc = "idle"

\* The rows that a batch holds until it commits hold up submits, and only that:
\* with a readable file, no circle of waits comes of it, and no request depends
\* on its timeout to be answered.
RequestsOutliveIngest == Readable => EveryRequestAnswered
==============================================================================
