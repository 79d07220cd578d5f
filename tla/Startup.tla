------------------------------ MODULE Startup ------------------------------
(***************************************************************************)
(* What one start of the server does to the database and to PHOTO_DIR      *)
(* (cmd/server/main.go run): the demonstration seed (internal/seed), the   *)
(* background stamping of H3 cells, the country baseline, then serving.    *)
(* Every statement is committed on its own, so the process may die between *)
(* any two of them, and the next start finds whatever the last one left.   *)
(*                                                                         *)
(* Data.  Seeded reports are the numbers 1 .. NumSeeds in the order in     *)
(* which Run inserts them, oldest capture first; BuildIndex is the place   *)
(* of each in the slice BuildReports makes, by which photos are assigned   *)
(* before the sort.  One building stands for all: OnBuilding are the seeds *)
(* that name it, and shown is the report whose damage its row shows.       *)
(***************************************************************************)
EXTENDS Integers, FiniteSets, FiniteSetsExt

CONSTANTS
    NumUsers,      \* demonstration accounts
    NumAreas,      \* seeded admin areas, in order of insertion
    Countries,     \* features of the embedded baseline
    NumSeeds,      \* seeded reports
    Verified,      \* the seeds whose verification is "verified"
    BuildIndex,    \* the place (from 0) of a seed in the slice that is built
    OnBuilding,    \* the seeds that name the building
    Legacy,        \* located reports older than the h3_r8 column
    Cellable,      \* the legacy reports whose position has a cell
    Live,          \* reports that arrive while the server runs
    Chunk,         \* rows of one page of the backfill
    MaxCrashes     \* bound of the model: how often the process dies

Seeds == 1 .. NumSeeds
Reports == Seeds \union Legacy \union Live

ASSUME StartupAssumption ==
    /\ {NumUsers, NumAreas, NumSeeds, Chunk} \subseteq Nat \ {0}
    /\ MaxCrashes \in Nat
    /\ Verified \subseteq Seeds /\ OnBuilding \subseteq Seeds
    /\ BuildIndex \in [Seeds -> 0 .. NumSeeds - 1]
    /\ Cellable \subseteq Legacy
    /\ Seeds \intersect Legacy = {} /\ Seeds \intersect Live = {}
    /\ Legacy \intersect Live = {} /\ IsFiniteSet(Legacy) /\ IsFiniteSet(Live)

NoReport == 0

VARIABLES
    users, areas, baseline, crisis,    \* tables: counts, loaded countries, the crisis row
    reports, h3, url,                  \* report rows; those with a cell; those with photo_url
    shown,                             \* the report whose damage the building row shows
    file,                              \* seeds whose photo is in PHOTO_DIR
    pc, next, todo,                    \* the main goroutine: step, seed, countries left
    bpc, page, full,                   \* the backfill: step, ids of its page, page was full
    crashes

tables == <<users, areas, baseline, crisis>>
rows == <<reports, h3, url, shown>>
main == <<pc, next, todo>>
backfill == <<bpc, page, full>>
vars == <<tables, rows, file, main, backfill, crashes>>

MainSteps == {"boot", "users", "reports", "areas", "crisis", "building",
              "report", "photo", "url", "baseline", "countries", "serve"}

TypeOK ==
    /\ users \in 0 .. NumUsers /\ areas \in 0 .. NumAreas
    /\ baseline \subseteq Countries /\ crisis \in BOOLEAN
    /\ reports \subseteq Reports /\ h3 \subseteq reports
    /\ url \subseteq reports \intersect Seeds /\ file \subseteq Seeds
    /\ shown \in OnBuilding \union {NoReport}
    /\ pc \in MainSteps /\ next \in 1 .. NumSeeds + 1 /\ todo \subseteq Countries
    /\ bpc \in {"off", "select", "update", "done", "failed"}
    /\ page \subseteq Legacy /\ full \in BOOLEAN
    /\ crashes \in 0 .. MaxCrashes

\* A new database, or one that an older release left: some of its rows have no cell.
Init ==
    /\ reports \in SUBSET Legacy
    /\ users = IF reports = {} THEN 0 ELSE NumUsers
    /\ areas = IF reports = {} THEN 0 ELSE NumAreas
    /\ baseline = IF reports = {} THEN {} ELSE Countries
    /\ crisis = (reports # {})
    /\ h3 = {} /\ url = {} /\ file = {} /\ shown = NoReport
    /\ pc = "boot" /\ next = 1 /\ todo = {}
    /\ bpc = "off" /\ page = {} /\ full = FALSE
    /\ crashes = 0

----------------------------------------------------------------------------
(* The seed *)

\* A verified report always gets a photo, another only at an even place of the slice.
Photographed == {i \in Seeds : i \in Verified \/ BuildIndex[i] % 2 = 0}

\* The seed is over: run spawns the backfill and goes on to the baseline.
Proceed == pc' = "baseline" /\ bpc' = "select" /\ UNCHANGED <<page, full>>

\* RUN_SEED is off.
SkipSeed ==
    /\ pc = "boot" /\ Proceed
    /\ UNCHANGED <<tables, rows, file, next, todo, crashes>>

\* seedUsers: only if there is no account at all.
CountUsers ==
    /\ pc = "boot"
    /\ pc' = IF users = 0 THEN "users" ELSE "reports"
    /\ UNCHANGED <<tables, rows, file, next, todo, backfill, crashes>>

CreateUser ==
    /\ pc = "users"
    /\ users' = users + 1
    /\ pc' = IF users' < NumUsers THEN "users" ELSE "reports"
    /\ UNCHANGED <<areas, baseline, crisis, rows, file, next, todo, backfill, crashes>>

\* Mutant: the seed runs whatever reports are stored.
CountReportsUngated ==
    /\ pc = "reports"
    /\ pc' = IF areas = 0 /\ baseline = {} THEN "areas" ELSE "crisis"
    /\ UNCHANGED <<tables, rows, file, next, todo, backfill, crashes>>

\* Run stops at once if any report is stored; otherwise seedAdminAreas looks
\* whether any area is, of whatever source.
CountReports ==
    /\ pc = "reports"
    /\ IF reports # {}
          THEN Proceed
          ELSE /\ pc' = IF areas = 0 /\ baseline = {} THEN "areas" ELSE "crisis"
               /\ UNCHANGED backfill
    /\ UNCHANGED <<tables, rows, file, next, todo, crashes>>

InsertArea ==
    /\ pc = "areas"
    /\ areas' = areas + 1
    /\ pc' = IF areas' < NumAreas THEN "areas" ELSE "crisis"
    /\ UNCHANGED <<users, baseline, crisis, rows, file, next, todo, backfill, crashes>>

\* The step that begins seed i, if there is one: its building first, if it names one.
BeginSeed(i) ==
    IF i > NumSeeds THEN Proceed
    ELSE /\ pc' = IF i \in OnBuilding THEN "building" ELSE "report"
         /\ UNCHANGED backfill

SeedCrisis ==
    /\ pc = "crisis"
    /\ crisis' = TRUE /\ next' = 1
    /\ BeginSeed(1)
    /\ UNCHANGED <<users, areas, baseline, rows, file, todo, crashes>>

\* UpsertBuilding: the damage of the row becomes that of the report in hand.
SeedBuilding ==
    /\ pc = "building"
    /\ shown' = next /\ pc' = "report"
    /\ UNCHANGED <<tables, reports, h3, url, file, next, todo, backfill, crashes>>

\* UpsertReport stamps the cell and never carries photo_url.
SeedReport ==
    /\ pc = "report"
    /\ reports' = reports \union {next} /\ h3' = h3 \union {next}
    /\ IF next \in Photographed
          THEN pc' = "photo" /\ UNCHANGED <<next, backfill>>
          ELSE next' = next + 1 /\ BeginSeed(next + 1)
    /\ UNCHANGED <<tables, url, shown, file, todo, crashes>>

\* Mutant: photo_url is recorded before the image is written.
InstallSeedPhotoLate ==
    /\ pc = "photo"
    /\ url' = url \union {next} /\ pc' = "url"
    /\ UNCHANGED <<tables, reports, h3, shown, file, next, todo, backfill, crashes>>

InstallSeedPhoto ==
    /\ pc = "photo"
    /\ file' = file \union {next} /\ pc' = "url"
    /\ UNCHANGED <<tables, rows, next, todo, backfill, crashes>>

SetPhotoURL ==
    /\ pc = "url"
    /\ url' = url \union {next} /\ next' = next + 1
    /\ BeginSeed(next + 1)
    /\ UNCHANGED <<tables, reports, h3, shown, file, todo, crashes>>

----------------------------------------------------------------------------
(* The country baseline, and serving *)

\* LoadCountriesBaseline: nothing to do once any row of it is stored; a count
\* that fails reads as none.
CountBaseline ==
    /\ pc = "baseline"
    /\ \/ baseline # {} /\ pc' = "serve" /\ UNCHANGED todo
       \/ pc' = "countries" /\ todo' = Countries
    /\ UNCHANGED <<tables, rows, file, next, backfill, crashes>>

\* One feature of the file; a row that fails is logged and skipped.
LoadCountry ==
    /\ pc = "countries"
    /\ \E c \in todo :
          /\ todo' = todo \ {c}
          /\ baseline' \in {baseline, baseline \union {c}}
          /\ pc' = IF todo' = {} THEN "serve" ELSE "countries"
    /\ UNCHANGED <<users, areas, crisis, rows, file, next, backfill, crashes>>

\* A report submitted to the running server is stored with its cell.
Submit(r) ==
    /\ pc = "serve" /\ r \in Live \ reports
    /\ reports' = reports \union {r} /\ h3' = h3 \union {r}
    /\ UNCHANGED <<tables, url, shown, file, main, backfill, crashes>>

\* Any report may be taken down. Its row goes first, then its file, which
\* stays behind if the removal fails.
Takedown(r) ==
    /\ pc = "serve" /\ r \in reports
    /\ reports' = reports \ {r} /\ h3' = h3 \ {r} /\ url' = url \ {r}
    /\ file' \in {file, file \ {r}}
    /\ UNCHANGED <<tables, shown, main, backfill, crashes>>

----------------------------------------------------------------------------
(* BackfillH3R8, in a goroutine of its own while the rest goes on *)

Missing == reports \ h3

\* A page is any Chunk of the rows without a cell, or all of them if fewer.
Pages == kSubset(Min({Cardinality(Missing), Chunk}), Missing)

ReadPage(P) ==
    /\ bpc = "select"
    /\ page' = P \intersect Cellable
    /\ full' = (Cardinality(P) = Chunk)
    /\ UNCHANGED <<tables, rows, file, main, crashes>>

\* Mutant: only an empty page ends the loop.
SelectPageSpinning ==
    \E P \in Pages :
        ReadPage(P) /\ bpc' = IF P = {} THEN "done" ELSE "update"

\* Mutant: a page with a row that has no cell ends the loop.
SelectPageStopping ==
    \E P \in Pages :
        ReadPage(P) /\ bpc' = IF P = {} \/ page' # P THEN "done" ELSE "update"

\* A page in which no row has a cell to be given ends the loop.
SelectPage ==
    \E P \in Pages :
        ReadPage(P) /\ bpc' = IF page' = {} THEN "done" ELSE "update"

UpdatePage ==
    /\ bpc = "update"
    /\ h3' = h3 \union (page \intersect reports)
    /\ page' = {} /\ full' = FALSE
    /\ bpc' = IF full THEN "select" ELSE "done"
    /\ UNCHANGED <<tables, reports, url, shown, file, main, crashes>>

\* A statement fails, or the thirty minutes are over: the rest is for the next start.
BackfillFails ==
    /\ bpc \in {"select", "update"}
    /\ bpc' = "failed" /\ page' = {} /\ full' = FALSE
    /\ UNCHANGED <<tables, rows, file, main, crashes>>

----------------------------------------------------------------------------

\* The process dies, is stopped, or exits because a statement of the seed
\* failed; it is started again.
Restart ==
    /\ crashes < MaxCrashes
    /\ crashes' = crashes + 1
    /\ pc' = "boot" /\ next' = 1 /\ todo' = {}
    /\ bpc' = "off" /\ page' = {} /\ full' = FALSE
    /\ UNCHANGED <<tables, rows, file>>

Next ==
    \/ SkipSeed \/ CountUsers \/ CreateUser \/ CountReports \/ InsertArea
    \/ SeedCrisis \/ SeedBuilding \/ SeedReport \/ InstallSeedPhoto \/ SetPhotoURL
    \/ CountBaseline \/ LoadCountry
    \/ \E r \in Live : Submit(r)
    \/ \E r \in Reports : Takedown(r)
    \/ SelectPage \/ UpdatePage \/ BackfillFails
    \/ Restart

Spec == Init /\ [][Next]_vars

\* The goroutine of the backfill is scheduled for as long as the process runs.
FairSpec == Spec /\ WF_vars(SelectPage) /\ WF_vars(UpdatePage)

----------------------------------------------------------------------------
(* Properties *)

\* A report that says it has a photo has one in PHOTO_DIR, wherever the
\* process died: the file is written before photo_url is.  Every variable keeps
\* its type.
RecordedPhotoExists == TypeOK /\ url \subseteq file

\* While the seed inserts, the stored reports are exactly the oldest seeds up
\* to the one in hand, whatever earlier starts and takedowns left; the
\* photographed ones before it have their photo, and once one of them names
\* the building, the building shows the newest that does, or the one in hand.
SeedsOldestFirst ==
    pc \in {"building", "report", "photo", "url"} =>
        LET before == 1 .. next - 1 IN
        /\ reports = IF pc \in {"photo", "url"} THEN 1 .. next ELSE before
        /\ Photographed \intersect before \subseteq url
        /\ before \intersect OnBuilding # {} =>
              \/ shown = Max(before \intersect OnBuilding)
              \/ shown = next /\ pc # "building"

\* A backfill that ends without an error leaves no row without the cell it
\* could have, unless a whole page of rows without one hid it: fewer than
\* Chunk such rows never do, in whatever pages they come and whatever is
\* submitted or taken down between the read of a page and its update.
BackfillLeavesNone ==
    [][bpc # "done" /\ bpc' = "done" /\ Cardinality(Missing' \ Cellable) < Chunk
         => Missing' \intersect Cellable = {}]_vars

\* The backfill ends, whatever rows it cannot stamp: it never spins on them.
BackfillEnds == bpc = "select" ~> bpc \in {"done", "failed", "off"}

=============================================================================
