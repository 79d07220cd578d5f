# A verification project for beacon-backend

beacon-backend is the HTTP server of a crowd-sourced damage-assessment system. Phones
that are often offline post damage reports of buildings, analysts review them, and
exports go to mapping tools. Everything lives in PostgreSQL, with photos in a directory.
The program keeps almost nothing in memory: what is hard about it is what concurrent
requests, retries, takedowns, background goroutines and restarts do to the same rows.

This project models those parts in TLA+, checks them on small instances with TLC, and
proves some of the results for instances of every size with TLAPS. Paths below are
relative to `src/`.

## The system and its parts

| part | state it keeps | operations | what makes it correct |
|---|---|---|---|
| submission (`internal/service/report_service.go`, `internal/store/write.go`) | `reports`, `buildings` | `Submit`: normalise, guards, crisis, one transaction, best-effort follow-ups | a report is created once however often it is sent; versions count the reports of a building; the damage shown is the newest |
| takedown (`handler/withdraw.go`, `store/reports.go`) | the same, the photo file | `WithdrawReport` | no reference dangles, nobody waits forever |
| submission guards (`report_service.go` 356-403) | counts of committed rows | two rate windows, near-duplicates, replay lookup | limits hold up to what runs at once; replays pass |
| crises (`store/crisis.go`, `handler/crisis.go`) | `crises`, `crisis_id` of reports and buildings | assign, detect, confirm, dismiss | a formation takes what was counted; a dismissal releases |
| photos (`handler/photo.go`) | `PHOTO_DIR`, `photo_url` | upload, serve, erase | a recorded photo is a whole file, though ids may share a file name; no file without a report |
| verification (`handler/verification.go`, `write.go` 238-276) | status, audit rows | `UpdateVerification` | the audit trail is the history of the status; verified means evidence |
| boundaries (`internal/boundary`, `store/admin.go`) | `admin_areas`, the admin chain of a report, an in-flight set | resolve, lazy load of a country, coverage and sweep at startup | each layer fetched once; reports end with the best area, inside the outline of their country |
| listing (`handler/reports.go`, `store/reports.go` 180-320) | none | filters, keyset cursor, numbered pages | nothing twice, nothing missed |
| export (`handler/export.go`, `service/export_*.go`) | temporary files | GeoJSON, CSV, KML, GeoPackage, Shapefile | one moment, consistent members, refused or whole |
| startup (`cmd/server/main.go`, `internal/seed`) | accounts, demonstration, baseline | gated seeds, H3 backfill | restart anywhere leaves consistent rows |
| overview (`handler/stats.go`, `service/stats_service.go`, `store/stats.go`) | none | four aggregates, one after the other | the numbers fit together, up to what changed between the queries |
| map reads (`handler/reports.go`, `store/reports.go` 486-794) | none | pins, tiles, timelines, areas | each building by its newest report, the same one everywhere |
| sign-in (`handler/auth.go`, `mfa.go`, `internal/auth`, `store/users.go`) | `users`: `mfa_secret`, `mfa_enabled` | login, enrol, verify, disable | a factor that is on can be used; only a server that can open it clears it or turns it on |
| footprint ingest (`cmd/ingest-footprints`) | `buildings` | batched upserts with savepoints | whole batches in the order of the file, the damage known of a building survives, no request is blocked for good |
| report detail, form schema, profile, settings, translation, configuration, crypto, router | none, or a row replaced whole | | pure, or a single statement; see PROJECT.json for each |

How they interact. A POST runs through the guards, resolves its areas and its crisis
with single queries, stores the report in a transaction that locks the building row, then
tries to form an emergent crisis and leaves a goroutine behind that loads the boundaries of
its country. A takedown deletes the row in a transaction of its own and then the
photo. Analysts change the status of reports and crises. Background goroutines (boundary
passes, H3 backfill) update the rows of reports while all of this goes on. The parts
share no memory except the loader's in-flight set: they meet in the tables.

What is hard: checks in one query and effects in a later one (guards, emergent gate, crisis
assignment, areas); retries and delayed deliveries; row locks in several orders; a
takedown at any moment in another request; a file and a row that cannot be written
together; failures of best-effort steps; restarts between any two statements.
`PROJECT.json` lists these hazards with the line where each bites and the properties
that cover it.

## The modules

| module | what it models | runs |
|---|---|---|
| `BuildingHistory` | what the table promises: each accepted report and each takedown is one step | (abstract) |
| `BuildingVersions` | the transactions of `Submit` and `WithdrawReport`, statement by statement, with locks and waits; refines `BuildingHistory` | `building_versions`, `building_version_reuse`, `building_stale_damage` |
| `BuildingVersionsProofs` | proofs for `BuildingVersions` and `FootprintIngest`, both refinements | |
| `SubmitPipeline` | a POST before the transaction: submitter, replay lookup, rate windows, near-duplicates; retries, takedowns, the clock | `submit_pipeline` |
| `SubmitPipelineProofs` | proofs for `SubmitPipeline` | |
| `FootprintLoad` | what a load of footprints promises: the file in order, in whole batches, a rerun from the start, and no change of the damage shown | (abstract) |
| `FootprintIngest` | extends `BuildingVersions`: the command's batches, savepoints, commits, faults and reruns beside submits and takedowns; refines `FootprintLoad` | `building_liveness` |
| `CrisisLifecycle` | pin and containment, assignment, insert, emergent gate and formation, status changes, takedown | `crisis_formation` |
| `CrisisLifecycleProofs` | proofs for `CrisisLifecycle` | |
| `ReportEvidence` | uploads, the photo file, takedown, verification with its audit trail, crash | `report_evidence` |
| `ReportEvidenceProofs` | proofs for `ReportEvidence` | |
| `BoundaryLoader` | resolution, the goroutine of a submit, the startup's passes, one country's load | `boundary_loader`, `boundary_two_countries` |
| `BoundaryLoaderProofs` | proofs for `BoundaryLoader` | |
| `ReportListing` | a client that walks through the list while it changes | in `report_reads` |
| `Export` | extends `ReportListing`: one export over the same table | in `report_reads` |
| `Dashboard` | extends `Export`: the overview and the map over the same table | `report_reads` |
| `DashboardProofs` | proofs for `ReportListing`, `Export` and `Dashboard`, alone and composed | |
| `SignIn` | one analyst's second factor under several tabs and restarts with another key | `sign_in` |
| `SignInProofs` | proofs for `SignIn` | |
| `Startup` | seed, baseline, backfill, the first requests, restarts | `startup` |
| `StartupProofs` | proofs for `Startup` | |

`MC*` modules give the constants their values. The map in `PROJECT.json` names, for each
definition, the lines it stands for. Definitions that begin with the comment "Mutant:"
are deliberate faults: each shows that a property can fail, and no specification uses them.

### Submission and takedown: `BuildingHistory`, `BuildingVersions`

`doc` holds the documents the clients send, by id; `reports` the rows, of which version,
predecessor and the erased ids matter; `damage` is `buildings.current_damage`. A
request `q` has a program counter, the row it is about to insert (`plan`) and what its
damage refresh read (`fresh`); a takedown `w` its target and the rows it unlinked
(`nulled`). One action is one SQL statement. PostgreSQL is modelled by what it does to
these statements under READ COMMITTED: a row lock is held from the statement that takes it
to the commit (`HoldsBuilding`, `HoldsTarget`), an insert waits for an uncommitted row
with its id or key (`InsertFree`), a reference to a row that is being deleted waits and
then fails (`InsertPredecessorGone`), the effects of a transaction become visible at its
commit, and any statement may fail and roll back (`AbortSubmit`, `AbortTakedown`). Requests
deliver any document any number of times, so a retry is just another request.

`BuildingHistory` is the promise: `Accept(r)` gives a report the next version of its
building, the newest row as predecessor and refreshes the damage; `Erase(r)` removes a row
and the references to it. `HSpec` says every behaviour of the statements is one of these
atomic ones: the refinement maps the tables to themselves, a commit to `Accept` or
`Erase`, and every other statement to a stutter.

### Guards: `SubmitPipeline`

Each handler looks its id up, counts the two windows, looks for near-duplicates and
inserts, as separate steps. `path` records whether a row was checked, a replay or unguarded
(the submitter could not be resolved). Positions are points on a line and times a few
ticks, which is enough for being near or not and for being inside a window or not.

### Crises: `CrisisLifecycle`

`crisisOf` and `scopeOf` are the `crisis_id` of reports and buildings. The count of a
cluster (`CountCluster`) and the formation (`FormCrisis`) are two steps, as in the code, and
so are the assignment and the insert. `gated`, `alone`, `formation` and `released` are
history variables that only properties read. A building's scope starts as `NoRow`, free, or
that of a declared crisis its footprint was loaded for; a takedown removes the report and
leaves the scope of its building.

### Footprints: `FootprintLoad`, `FootprintIngest`

The command reads a file feature by feature into one transaction of up to `BatchN`
features, each behind a savepoint, so it keeps the rows of all buildings it has upserted
locked until the commit, in the order of the file, while a submit locks one. The rows
are those of `BuildingVersions`: an upsert waits for a submit that holds its building and
submits wait for the batch. A bad polygon is rolled back to its savepoint, a failed
commit ends the command, and it may be run again (`MaxLoads`) on the same file. `LoadSpec`
says that this implements `FootprintLoad`, whose steps are the features themselves.

### Evidence: `ReportEvidence`

An upload authorizes, opens (truncates), writes, records, and removes its file when the
report is gone. Files go by name, and `NameOf` (`photoFileName`) may give several ids one
name: an upload or a takedown of one then truncates or removes the file of the other.
Since a takedown unlinks by name, `linked` says whether the file an upload
writes to is still the one in the directory. `collided` (names that two uploads wrote at a
time) and `usurped` (ids whose file a request of another id has opened or removed since they
opened it last) are history variables. A decision locks the row, reads the status and
commits the audit row with it.

### Boundaries: `BoundaryLoader`

The constant `Atlas` holds the areas there are, of the baseline, the seed and either
layer, each once for each point that it contains; `Points` are as many as the areas tell
apart. Nothing is assumed of where they lie: a point may be in an official area and in no
outline of the baseline, in the outlines of two countries, or in nothing. `areas` are those
that are stored, `chain` the resolution stored with each report ("none" for a report
outside of every area or whose resolution failed), `inflight` the loader's set.
`Resolve` is the best stored area at a point; `InCountry` goes by the baseline's
outline, as `ReportsInCountry` does, and `MissingRegion` holds the reports with a country or
less. Processes are the goroutines that submits leave
behind and `Boot`, the startup's goroutine with its coverage pass (by country, in `plan`) and
its sweep (by report, in `left`). `EnsureForPoint` returns without a load for a point outside
of every area, in the seed, or when its query fails. Ingest is
row by row, as the code commits it; the second level waits for the parent that the area
names. `held` is a resolution that was read and not stored yet. `late` is a history variable: the
reports whose chain was out of date when they were inserted.

### Reading: `ReportListing`, `Export`, `Dashboard`

The table here is whether each row matches the filter, and it changes at any time.
A walk follows the cursor or counts pages; `steady` are the rows that matched all the
time. An export reads columns, creates its temporary files, runs its one row query,
writes row after row and copies; each of these can fail. Cells are abstracted to which
column holds an answer; the columns' naming (`Snake`, `Reserved`, `Fixed`) is kept because
properties are about collisions in it.

An overview is four actions (`StatsCounts`, `AreaGroups`, `TimeSeries`, `Recent`), one for each
query, whose results collect in `overview`; a map is `LatestPerBuilding`, at most one tile and one
timeline. `stayed` and `ever` are the reports that matched all the time and at any time since
the page was opened: they bracket what a correct answer may contain. A timeline is not
bound to a crisis in the code, so it may hold any of the rows that do not match. The
three kinds of readers share the table and are used one at a time, so their states add up and do
not multiply.

### Sign-in: `SignIn`

`mfa_secret` and `mfa_enabled` of one row. A verify and a disable are a check and a write, two
statements with anything in between; an enrolment overwrites the secret and its answer may
be lost, in which case the analyst's app does not know it. It asks for no code, so any
session that is signed in turns a live factor off by enrolling; a disable clears whatever
secret is in the row when it writes. A code is the secret it
was computed from. A restart may come with another encryption key, or none, after which stored
secrets cannot be opened.

### Startup: `Startup`

The main goroutine step by step from the seed to serving, the backfill beside it, live
requests once it serves, and `Restart` at any point.

## What each run checks

Passing runs:

- `building_versions`: three requests, two takedowns, two buildings, seven sets of
  documents (tied and out-of-order capture times, shared keys, no building). The inductive
  invariant `IInv`, versions 1..n while nothing was erased (`VersionsCount`), references to
  stored rows of the same building, the newest damage while nothing was erased, no
  acknowledged report lost, none created twice, and the refinement `HSpec`.
- `building_liveness`: two requests and a takedown beside a load of footprints that may fail
  and be repeated. While every feature of the file decodes, every request is answered and
  every load ends, though a batch holds many buildings (`RequestsOutliveIngest`, `IngestEnds`); a
  batch is bounded and no building is locked by two transactions (`BatchBounded`); the load
  implements `FootprintLoad` (`LoadSpec`).
- `submit_pipeline`: a limit is exceeded by at most one report per further handler
  (`RateOvershootBounded`), near-duplicates slip in only as many as handlers, the retry of
  a stored report is never refused, and only an id that was erased meanwhile gets past the
  guards as a replay (`ReplaysRecognised`).
- `crisis_formation`: an undisturbed detection attaches exactly what it counted; a
  dismissal releases for good; no cluster is missed by inserts at the same time; and a
  building is filed under a crisis that it has a report of, unless its footprint brought
  the crisis along or a report of it was taken down (`ScopeHasReport`).
- `report_evidence`: the audit trail is a chain that ends at the status; verified rows
  have a photo or a forced decision; no orphan file unless something failed; and no recorded
  photo without its whole file unless something failed, uploads overlapped, the report was taken down, or a
  request for another report of the same file name touched the file after it. Two reports
  with one file name, so what each leaves alone of the other is checked as well.
- `boundary_loader`: no stored layer is fetched again, no report loses an area for a
  lesser one, and all end with the best area. A report whose chain was stale when it was
  inserted is excepted (`late`): a load may have listed the reports before it was there; and
  so is one in an official area that reaches beyond the outline of its country (`Listed`),
  which is a disagreement below.
- `report_reads`: cursor walks deliver nothing twice and miss nothing that stayed,
  numbered pages do so on a table at rest, and exports hold one moment, keep every answer
  that had a column, have members that agree and leave no temporary file. The tiers of an
  overview add up to its total, its chart counts every report of its moment once whatever its age,
  and numbers of different queries differ by no more than what came or went in between
  (`OverviewAddsUp`). Pins, tiles and timelines show the newest report of each building
  and agree with each other (`MapAgrees`).
- `startup`: a recorded photo exists, the seed inserts oldest first into an otherwise
  empty table, the backfill ends, and leaves no row that it could stamp behind unless a
  whole page of rows without a cell hid it.
- `sign_in`: a factor that is on has a secret, which the analyst has unless an enrolment
  crossed a verification; and a factor is cleared or turned on only while the server runs
  with the key that sealed it, though the key may change between requests
  (`WritesOnlyWhatItCanOpen`).

Runs that show a disagreement between the code and what it says of itself (each with its
quotation under "findings"):

- `building_version_reuse`: the version is a count plus one, so a takedown makes
  the next submit repeat a version that is in use.
- `building_stale_damage`: a takedown does not refresh the building's damage.
- `boundary_two_countries`: the load of one country overwrites a chain that the
  load of another has just improved.

Disagreements that were met while modelling and have no run:

- a factor can be taken away without a code. `internal/handler/mfa.go` 89-90 says of the
  disable "so a hijacked session cannot silently strip it", but an enrolment from any
  signed-in session overwrites the secret and resets the flag (`SetMFAPending`,
  `internal/store/users.go` 61-66), and a disable clears the secret that an enrolment put
  there after its check. No property claims that a code comes first.
- two reports can share a photo. `photoFileName` (`internal/handler/photo.go` 235-238) maps
  several characters to `_` and ids are only checked not to be empty
  (`report_service.go` 302), so `a b` and `a_b` have one file, and an upload or
  takedown of one truncates or removes the recorded photo of the other, while `photo.go` 43 says "so a
  stranger can't overwrite someone else's photo". `RecordedPhotoIsWhole` exempts exactly
  the reports this happened to.
- a report that lies beyond the coarse outline of its country (the baseline is ne_110m) but
  inside an official area is listed by no official load: `EnsureForPoint` finds no country to load
  (`internal/boundary/loader.go` 138-140), and `ReportsInCountry` (`internal/store/admin.go`
  163-168) goes by the outline, while `loader.go` 219 says "upgrade ALL the country's
  reports". `AreasUpToDate` exempts exactly these (`Listed`); without the exemption
  the run `boundary_loader` violates it. A geoBoundaries load does reach them, because
  `regeocodeMissing` goes by the missing region.

And in brief: the replay lookup of the
guards is by id only, while `openapi.yaml` 138-141 says that a re-POST of a stored
`idempotencyKey` never trips them; the near-duplicate window has no upper bound on the
capture time, while `openapi.yaml` 165 says within 10 minutes of the previous pin; a seed
that is interrupted between a verified report and its photo leaves what
`internal/seed/photos.go` 53-54 says "must never appear"; a modular section named like an
SQL keyword makes every GeoPackage export fail; of two detections of one cluster, the second may
form a crisis with fewer reports than the threshold, because the gate counts outside of the
transaction that attaches, while `internal/store/crisis.go` 215-219 says "exactly the gated
reports attach" (`GatedReportsAttach` in `CrisisLifecycle`, which a run of it violates); a
footprint file with a syntax error makes the ingest spin with its batch's rows locked.

## Bounds

| bound | value | why it is enough |
|---|---|---|
| requests, takedowns | 3 and 2 (2 and 1 beside the ingest) | three submits show first, second and a successor after a takedown; two takedowns show waits of takedowns for each other |
| ingest | 2 ids, `BatchN` 2, `MaxLoads` 2 | a batch that holds two buildings while submits hold either, a second batch, and a second run after a failure |
| report ids, keys | 3 | an id delivered twice, two ids with one key |
| handlers of the pipeline | 2 | one can come between any two steps of the other; overshoot is per further handler |
| windows | burst 1 in 0 ticks, sustained 2 in 1 tick, `MaxNow` 1 | both limits are reached and left |
| crises | one declared, three emergent; threshold 2; at most two changes of status | a second formation, a third after a dismissal; a takedown counts as a change |
| uploads, takedowns, analysts | 2, 1 and 2; two reports with one file name, one of them with up to 2 decisions and posted anew once, the other with none of either | overlap of one report's uploads and of two reports', a chain of two decisions, a second life of the id |
| areas | one country with a report inside its outline, one in an area of the seed as well, and one beyond the outline in an area of either layer (two countries of one point in the finding) | better, equal and missing chains; a report that only some of the lists hold |
| listing | 4 reports, two of them of one moment, pages of 2 under a cap of 3 | two full pages, ties across the boundary of a page |
| pages | 4 reports, two of one moment and one building, `MaxChanges` 3, five times of the clock, 2 recent reports and 2 pins | a change between any two queries; a report of the future, the 48 hours at which hours become days and the hour after, a month of days; the cap reached and not reached |
| sign-in | 3 tabs, 2 keys, `MaxSecrets` 3, `MaxRestarts` 2 | a verify and a disable under way while a third tab enrols again; a key that is changed and changed back |
| startup | 4 seeds, 4 legacy rows, pages of 2, `MaxCrashes` 2 | a restart during the seed and one during the recovery from it |
| `MaxFaults` | 1 | each best-effort step fails somewhere |

Requests, handlers, uploads, analysts, tabs and keys are symmetric; symmetry is declared for them in
runs that check safety only. `CHECK_DEADLOCK FALSE` is set for the boundary loader alone: the
model of a country stops when every goroutine has ended. In the other models somebody can
always go on, or the finished state is given an explicit stutter.

## Fairness

`building_liveness` (`IFairSpec`) assumes weak fairness of each takedown, of each submit that
has begun, and of the ingest's loop: a goroutine that can run its next statement eventually does, and a statement that
waits for a lock can run again when the holder commits (PostgreSQL grants locks in order
of arrival, and the pool hands out connections likewise). No client is forced to send a
report, nobody is forced to start a load, and failures are never forced. The timeout of a request
(`internal/api/router.go` 28) would end a wait as well; the property does not count on it.
A file whose syntax is broken is excepted by the property, since the command then spins. `startup` assumes it of the backfill's two statements only.
No other run uses fairness.

## What is proved

Every safety invariant and action property that a passing run checks, and both refinements, are
also theorems: TLAPS checks them for every finite number of requests, takedowns, reports,
buildings, handlers, countries and so on, from the named assumptions in the modules (finite sets
of processes and ids, null values outside of the sets, documents of the right type, limits
that are positive). An invariant that a theorem needs and no property names (`CrisisInv`,
`DecisionInv`, ...) is stated in the proof module, with a comment on each conjunct. In each
proof the invariant is preserved by one step per action; steps that leave the
variables of a conjunct alone share a lemma (`...Same`, `...Unchanged`).

`BuildingVersionsProofs`: `IInv` is inductive. `VersionsCount` and
`DamageIsNewestUnlessErased` alone are not, since a submit decides its version several
statements before it commits. The strengthening says what holds in between: one
transaction is past the upsert of a building (`LockExclusive`); the plan of a
request before its insert is next in line, or its predecessor has been erased, and then
the insert fails (`PlanBeforeInsert`); once inserted it is still next in line and its id and
key are free of any other row (`PlanAfterInsert`); the damage read by the refresh is that
of the newest row (`FreshIsNewest`); a takedown holds a row that nobody else erases, unlinks
or supersedes (`TargetsHeld`), and has unlinked exactly the rows that refer to it
(`NulledAreReferring`). Steps that commit nothing are dealt with together, since they leave
the tables alone (`SameTablesInv`, `QuietSubmitSteps`, `QuietTakedownSteps`); the commit and
the deletion have lemmas of their own. From it follow `TypeCorrect`,
`VersionsAreCounted`, `NoDanglingSupersedes`, `DamageIsDerived`, `DeleteGoesThrough` (the
foreign key never refuses a takedown's DELETE), `AcknowledgedIsStoredAlways`,
`CreatedOnceAlways` and `ImplementsHistory`, the refinement of `BuildingHistory`.

The same module deals with `FootprintIngest`. `ServerBesideIngest` says that a server beside a
load behaves like one without: every step of the load is a stutter of `BuildingVersions`
or only makes its requests wait, so all of the above holds there too. `BatchBoundedAlways` adds
that a batch stays within `BatchN` and that no building is locked twice.
`IngestImplementsLoad` is the refinement of `FootprintLoad`, for files of any length.

`SubmitPipelineProofs`: a guard counts first and the insert comes later, so the bound on the
rows alone is not inductive. `SubmitInv` counts the rows of a window together with
the handlers that passed its guard and have not inserted yet: the two are at most the limit plus
the handlers less one (`RateInv`). A handler that passes saw less than the limit, so the
sum may grow by it; a handler that inserts moves from one term to the other; the clock and a
takedown only lower the sum. `NearInv` is the same for near-duplicates. `ReplayInv` says that
an id whose report was stored when the document arrived has it stored still or taken down, and that
a handler that goes past the lookup with such an id saw it taken down.

`CrisisLifecycleProofs`: `CrisisInv` says that a report has one handler, which inserts it
once (`HandlerInv`), that a released report was stored (`ReleasedInv`), what a detection that
nobody disturbed has counted (`GateInv`, `FormedInv`), and, for `NoClusterMissed`, that every complete
cluster without a crisis still has a handler that will look at it (`ClusterInv`, while nothing failed
and no crisis released reports): of those that complete a cluster, the last to insert sees all of
the others. The centroid and extent of a crisis are
folds over reports; the proof uses only that they are values.

`ReportEvidenceProofs`: `DecisionInv` says that what a decision read is still in the row
while it holds the lock, that one decision at a time does (`LockInv`), and that the trail is
a chain that ends at the status (`TrailInv`). `PhotoInv` describes the file by what the uploads
still have to do: a file has a row that refers to it, an upload that will record or remove it or a takedown
that will unlink it (`TendedInv`), only an upload that is writing has a file open, and two that mix
their bytes have collided (`OpenInv`); and while nothing failed and a report saw no takedown, no two uploads of its file at a time
and no request of another id of its file name since it opened the file, its
recorded photo is whole whenever nobody writes it (`SteadyInv`). The theorems hold for any
assignment of file names to ids.

`BoundaryLoaderProofs`: `LoaderInv` says that the in-flight set admits one loader per
country and that what a gate saw missing is missing until this loader stores it, which
gives `OnlyMissingLayersFetchedAlways`. `RankInv` says that what a loader holds for a report where no other country has
an area of a layer is still the best when it writes it: so a chain gets worse only by a
loader that resolves reports again, where another country than the loader's has an area too
(`OnlyOthersDowngrade`, for any number of countries and any areas). With one country that
is `NoDowngradeOfOneCountry`; with two it is the disagreement that
`boundary_two_countries` shows. `FreshInv` says which reports a loader still has before it (`Tends`),
and gives `AreasUpToDateOfOneCountry`; that a report lies where a load lists it (`Listed`) is
part of the property, and nothing is assumed of outlines and points. `OneCountry` is a
hypothesis of these two theorems and the situation of the run `boundary_loader`, not an
assumption of the module.

`DashboardProofs`, the walk: `CursorInv` says that what the client has got, and
everything that stayed in the list before the cursor, is the same as seen from the
cursor; `BeforeTotal` and `BeforeTransitive` make the order of the pages a total one,
which is what equal capture times would break. It gives `EachOnceAlways` and
`WalkCompleteAlways` for tables and pages of any size. `PagesInv` says that the numbered pages of a
table at rest are its initial segments, which gives `QuietPagesCompleteAlways`.
`DashKeepsListing` says that exports and readers of the overview beside a walk are stutters of the
listing, so the three hold of the composition that `report_reads` checks.

The export: `ExportInv` relates, in each phase, what has been written to the snapshot
of the one row query (`RowsInv`, `MembersInv`, `BoxBeforeRows`) and the columns of the table that was
created to the answers of the rows (`KeysInv`). It gives `WholeFileIsOneMomentAlways`,
`ColumnsFitAlways` and `ContainerWholeOrRefusedAlways`. It rests on the assumption that no key
becomes reserved by the prefix `x_` that moves it away from a reserved word.

The overview and the map: `DashInv` says that each part is what its query computes of the reports of
some moment since the page was opened, and that such a moment lies between `stayed` and `ever`.
Whether the parts fit together is then a matter of the aggregates, each with a lemma: counts by
any key add up to the number of reports (`CountsAddUp`, a bijection), they grow with the set, no report falls
out of the chart (`BucketInChart`, whatever its capture time), a page that leaves a report
out is full (`PageIsFull`), each building has one latest report (`LatestShows`). It gives
`OverviewAddsUpAlways` and `MapAgreesAlways`.

`StartupProofs`: `SeedInv` says for each step of the seed what the steps before it have done,
in this life or an earlier one (`StepInv`). `BackfillInv` says that a page that was not full held every row
without a cell that could be stamped, and that nothing adds such a row (`PageInv`): new rows bring
their cell. They give `RecordedPhotoExistsAlways`, `SeedsOldestFirstAlways` and
`BackfillLeavesNoneAlways`.

`SignInProofs`: `SInv` adds to the properties what a request between its check and its write
may count on (`CheckedOrCrossed`: the secret it checked is still in the row, or none, or one
whose enrolment saw it there; `OpensWhatItChecked`: what is in the row then is sealed by the
key the server runs with, since a restart ends every request and an enrolment seals with it) and that no secret is made twice (`OnlyMade`). It gives
`EnabledHasSecretAlways`, `NotLockedOutAlways` and `WritesOnlyWhatItCanOpenAlways`, for any number of
tabs, enrolments and restarts.

Model-checked only: liveness (`RequestsOutliveIngest`, `IngestEnds`, `BackfillEnds`), and with it
the fairness of locks and everything with ENABLED, deadlock freedom included. The
disagreements are counterexamples and have nothing to prove. The library's theorems of
induction take an operator as a parameter, which the installed provers cannot instantiate; where a
proof needs induction over numbers or over a file it takes the least element of the set of
counterexamples instead. What a fold or a recursive function computes is used nowhere
except as a value.

## What is not modelled, and why

Validation and normalisation of a document, the public projection, the bytes of tiles, the tile
of footprints, the detail of one report, the form schema and cryptography are pure functions of one input or one snapshot. Roles
and scopes are guards that refuse without an effect. Migrations run before anything
else. Bytes of formats and images are abstracted away except the offsets and boxes that a
Shapefile's members must agree on. `PROJECT.json` gives the reason for each component.

## Plan

Order of work, most important first; done parts are marked.

1. Versioning transaction and its refinement, with proofs (done).
2. Guards, crises, evidence, boundaries, listing, export, startup (done).
3. `SignIn` with its proofs (done).
4. `FootprintIngest` and its refinement of `FootprintLoad` (done).
5. An abstract specification of the guards (a limit on what one device has stored) that
   `SubmitPipeline` refines with one handler; a run of key replays.
6. `Dashboard`; takedowns and the scope of buildings in `CrisisLifecycle` (done).
7. Proofs: every safety invariant, action property and refinement of the passing runs (done).
8. Next: deadlock freedom of submits, takedowns and the load as an invariant on who waits for whom
   (no cycle), which is a safety property and can be proved; `AreasUpToDate` with several
   countries, up to the chains that `OnlyOthersDowngrade` allows to be overwritten.
