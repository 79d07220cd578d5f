---------------------------- MODULE StartupProofs ----------------------------
(***************************************************************************)
(* What any number of restarts, takedowns and pages of the backfill leave  *)
(* true of the seed's rows and photos, for seeds, tables and pages of any  *)
(* size.  The seed is one sequential program, so the invariant says of     *)
(* each of its steps what the ones before it have done; the backfill       *)
(* shares the rows with it and with the requests, so its invariant says    *)
(* what none of them can add behind its back.                              *)
(***************************************************************************)
EXTENDS Startup, FiniteSetTheorems, TLAPS

SeedSteps == {"building", "report", "photo", "url"}

\* What each step may count on.
StepInv ==
    /\ pc = "users" => users < NumUsers
    /\ pc = "areas" => areas < NumAreas
    /\ pc \in {"areas", "crisis"} => reports = {}
    /\ pc \in SeedSteps =>
          /\ next \in Seeds
          /\ pc = "building" => next \in OnBuilding
          /\ pc # "building" /\ next \in OnBuilding => shown = next
          /\ pc = "url" => next \in file

SeedInv == TypeOK /\ url \subseteq file /\ StepInv /\ SeedsOldestFirst

\* A page that was not full held every row without a cell, and no row without a
\* cell has come since.
PageInv == bpc = "update" /\ ~full => Missing \intersect Cellable \subseteq page

BackfillInv == TypeOK /\ PageInv

----------------------------------------------------------------------------
(* The seed *)

LEMMA MaxIsLast ==
    ASSUME NEW i \in Nat \ {0}, NEW S \in SUBSET Nat, i \in S
    PROVE  Max((1 .. i) \intersect S) = i
<1> DEFINE T == (1 .. i) \intersect S
<1>1. i \in T /\ \A y \in T : y \in Nat /\ y <= i
    OBVIOUS
<1>2. \A x \in T : (\A y \in T : x >= y) => x = i
    BY <1>1
<1> QED
    BY <1>1, <1>2 DEF Max

LEMMA InitSeed == Init => SeedInv
<1> SUFFICES ASSUME Init PROVE SeedInv
    OBVIOUS
<1> USE StartupAssumption
<1>1. TypeOK
    <2>1. /\ {NumUsers, NumAreas, NumSeeds} \subseteq Nat \ {0} /\ MaxCrashes \in Nat
          /\ reports \subseteq Reports
        BY DEF Init, Reports
    <2>2. users \in 0 .. NumUsers /\ areas \in 0 .. NumAreas /\ baseline \subseteq Countries
        BY <2>1 DEF Init
    <2>3. next \in 1 .. NumSeeds + 1 /\ crashes \in 0 .. MaxCrashes
        BY <2>1 DEF Init
    <2> QED
        BY <2>1, <2>2, <2>3 DEF Init, TypeOK, MainSteps, NoReport
<1>2. url \subseteq file /\ StepInv /\ SeedsOldestFirst
    BY DEF Init, StepInv, SeedSteps, SeedsOldestFirst
<1> QED
    BY <1>1, <1>2 DEF SeedInv

\* The steps before and after the seed's rows.
LEMMA OutsideSeed ==
    ASSUME SeedInv, TypeOK', url' \subseteq file', pc' \notin SeedSteps,
           pc' = "users" => users' < NumUsers,
           pc' = "areas" => areas' < NumAreas,
           pc' \in {"areas", "crisis"} => reports' = {}
    PROVE  SeedInv'
BY DEF SeedInv, StepInv, SeedsOldestFirst, SeedSteps

\* The seed goes on from `next - 1`: what is stored are the seeds before `next`.
LEMMA BeginsSeed ==
    ASSUME TypeOK', url' \subseteq file', next' \in 1 .. NumSeeds + 1, BeginSeed(next'),
           reports' = 1 .. next' - 1,
           Photographed \intersect (1 .. next' - 1) \subseteq url',
           (1 .. next' - 1) \intersect OnBuilding # {} =>
               shown' = Max((1 .. next' - 1) \intersect OnBuilding)
    PROVE  SeedInv'
<1> USE StartupAssumption
<1>1. CASE next' > NumSeeds
    BY <1>1 DEF BeginSeed, Proceed, SeedInv, StepInv, SeedsOldestFirst, SeedSteps
<1>2. CASE next' <= NumSeeds /\ next' \in OnBuilding
    <2>1. pc' = "building" /\ next' \in Seeds
        BY <1>2 DEF BeginSeed, Seeds
    <2> QED
        BY <1>2, <2>1 DEF SeedInv, StepInv, SeedsOldestFirst, SeedSteps
<1>3. CASE next' <= NumSeeds /\ next' \notin OnBuilding
    <2>1. pc' = "report" /\ next' \in Seeds
        BY <1>3 DEF BeginSeed, Seeds
    <2> QED
        BY <1>3, <2>1 DEF SeedInv, StepInv, SeedsOldestFirst, SeedSteps
<1> QED
    BY <1>1, <1>2, <1>3

\* The building shows the newest seed that names it, once the seed in hand is done.
LEMMA ShownMoves ==
    ASSUME SeedInv, pc \in {"report", "photo", "url"},
           (1 .. next) \intersect OnBuilding # {}
    PROVE  shown = Max((1 .. next) \intersect OnBuilding)
<1> USE StartupAssumption
<1>0. next \in Nat \ {0} /\ next \in Seeds /\ OnBuilding \subseteq Nat
    BY DEF SeedInv, StepInv, SeedSteps, Seeds
<1>1. CASE next \in OnBuilding
    BY <1>0, <1>1, MaxIsLast DEF SeedInv, StepInv, SeedSteps
<1>2. CASE next \notin OnBuilding
    <2>1. (1 .. next) \intersect OnBuilding = (1 .. next - 1) \intersect OnBuilding
        BY <1>0, <1>2
    <2>2. shown # next
        BY <1>0, <1>2 DEF SeedInv, TypeOK, NoReport
    <2>3. \/ shown = Max((1 .. next - 1) \intersect OnBuilding)
          \/ shown = next
        BY <2>1 DEF SeedInv, SeedsOldestFirst
    <2> QED
        BY <2>1, <2>2, <2>3
<1> QED
    BY <1>1, <1>2

\* What is done outside of the seed's steps.
LEMMA MainKeepsSeed ==
    ASSUME SeedInv,
           \/ SkipSeed \/ CountUsers \/ CreateUser \/ CountReports \/ InsertArea
           \/ CountBaseline \/ LoadCountry \/ Restart
           \/ \E r \in Live : Submit(r)
           \/ \E r \in Reports : Takedown(r)
    PROVE  SeedInv'
<1> USE StartupAssumption DEF tables, rows, main, backfill, Proceed
<1>0. TypeOK /\ {NumUsers, NumAreas, NumSeeds} \subseteq Nat \ {0} /\ MaxCrashes \in Nat
    BY DEF SeedInv
<1>1. CASE SkipSeed \/ CountUsers \/ CountReports \/ CountBaseline \/ LoadCountry \/ Restart
    <2>1. TypeOK'
        <3>1. /\ UNCHANGED <<users, areas, crisis, reports, h3, url, shown, file>>
              /\ pc' \in MainSteps /\ next' \in 1 .. NumSeeds + 1 /\ todo' \subseteq Countries
              /\ bpc' \in {"off", "select", "update", "done", "failed"}
              /\ page' \subseteq Legacy /\ full' \in BOOLEAN
              /\ crashes' \in 0 .. MaxCrashes /\ baseline' \subseteq Countries
            <4>1. CASE SkipSeed \/ CountUsers \/ CountReports
                BY <1>0, <4>1 DEF SkipSeed, CountUsers, CountReports, TypeOK, MainSteps
            <4>2. CASE CountBaseline
                BY <1>0, <4>2 DEF CountBaseline, TypeOK, MainSteps
            <4>3. CASE LoadCountry
                BY <1>0, <4>3 DEF LoadCountry, TypeOK, MainSteps
            <4>4. CASE Restart
                <5>1. NumSeeds \in Nat /\ crashes + 1 \in 0 .. MaxCrashes /\ 1 \in 1 .. NumSeeds + 1
                    BY <1>0, <4>4 DEF Restart, TypeOK
                <5> QED
                    BY <1>0, <4>4, <5>1 DEF Restart, TypeOK, MainSteps
            <4> QED
                BY <1>1, <4>1, <4>2, <4>3, <4>4
        <3> QED
            BY <1>0, <3>1 DEF TypeOK
    <2>2. /\ pc' \in {"baseline", "users", "reports", "areas", "crisis", "countries", "serve", "boot"}
          /\ pc' = "users" => users' < NumUsers
          /\ pc' = "areas" => areas' < NumAreas
          /\ pc' \in {"areas", "crisis"} => reports' = {}
          /\ url' \subseteq file'
        BY <1>0, <1>1 DEF SkipSeed, CountUsers, CountReports, CountBaseline, LoadCountry, Restart, SeedInv
    <2> QED
        BY <2>1, <2>2, OutsideSeed DEF SeedSteps
<1>2. CASE CreateUser \/ InsertArea
    <2>1. /\ UNCHANGED <<baseline, crisis, rows, file, next, todo, backfill, crashes>>
          /\ users' \in 0 .. NumUsers /\ areas' \in 0 .. NumAreas
          /\ pc' \in {"users", "reports", "areas", "crisis"}
          /\ pc' = "users" => users' < NumUsers
          /\ pc' = "areas" => areas' < NumAreas
          /\ pc' \in {"areas", "crisis"} => reports' = {}
        <3>1. CASE CreateUser
            BY <1>0, <3>1 DEF CreateUser, SeedInv, StepInv, TypeOK
        <3>2. CASE InsertArea
            BY <1>0, <3>2 DEF InsertArea, SeedInv, StepInv, TypeOK
        <3> QED
            BY <1>2, <3>1, <3>2
    <2>2. TypeOK' /\ url' \subseteq file'
        BY <1>0, <2>1 DEF TypeOK, MainSteps, SeedInv
    <2> QED
        BY <2>1, <2>2, OutsideSeed DEF SeedSteps
<1>3. ASSUME NEW r \in Live, Submit(r) PROVE SeedInv'
    <2>1. TypeOK' /\ url' \subseteq file'
        BY <1>0, <1>3 DEF Submit, TypeOK, Reports, SeedInv
    <2> QED
        BY <1>3, <2>1, OutsideSeed DEF Submit, SeedSteps
<1>4. ASSUME NEW r \in Reports, Takedown(r) PROVE SeedInv'
    <2>1. TypeOK' /\ url' \subseteq file'
        BY <1>0, <1>4 DEF Takedown, TypeOK, SeedInv
    <2> QED
        BY <1>4, <2>1, OutsideSeed DEF Takedown, SeedSteps
<1> QED
    BY <1>1, <1>2, <1>3, <1>4

\* BeginSeed leaves the types alone.
LEMMA BeginTyped ==
    ASSUME TypeOK, NEW i, BeginSeed(i)
    PROVE  /\ pc' \in MainSteps /\ bpc' \in {"off", "select", "update", "done", "failed"}
           /\ page' \subseteq Legacy /\ full' \in BOOLEAN
BY DEF BeginSeed, Proceed, backfill, TypeOK, MainSteps

LEMMA SeedKeepsSeed ==
    ASSUME SeedInv,
           SeedCrisis \/ SeedBuilding \/ SeedReport \/ InstallSeedPhoto \/ SetPhotoURL
    PROVE  SeedInv'
<1> USE StartupAssumption DEF tables
<1>0. TypeOK /\ {NumUsers, NumAreas, NumSeeds} \subseteq Nat \ {0} /\ MaxCrashes \in Nat
    BY DEF SeedInv
<1>s. pc \in SeedSteps => /\ next \in Seeds /\ next + 1 \in 1 .. NumSeeds + 1
                          /\ next \in Nat \ {0} /\ 1 .. next + 1 - 1 = 1 .. next
    BY <1>0 DEF SeedInv, StepInv, Seeds
<1>1. CASE SeedCrisis
    <2>1. TypeOK'
        BY <1>0, <1>1, BeginTyped DEF SeedCrisis, TypeOK, rows
    <2>2. reports' = {} /\ next' = 1 /\ url' \subseteq file' /\ BeginSeed(next')
        BY <1>1 DEF SeedCrisis, SeedInv, StepInv, rows
    <2>3. 1 .. next' - 1 = {} /\ next' \in 1 .. NumSeeds + 1
        BY <1>0, <2>2
    <2> QED
        BY <2>1, <2>2, <2>3, BeginsSeed
<1>2. CASE SeedBuilding
    <2>1. /\ pc = "building" /\ pc' = "report" /\ shown' = next /\ next \in OnBuilding
          /\ UNCHANGED <<users, areas, baseline, crisis, reports, h3, url, file, next, todo, backfill, crashes>>
          /\ next \in Seeds
        BY <1>2 DEF SeedBuilding, SeedInv, StepInv, SeedSteps
    <2>2. TypeOK'
        BY <1>0, <2>1 DEF TypeOK, MainSteps, backfill
    <2>3. StepInv' /\ url' \subseteq file'
        BY <2>1 DEF SeedInv, StepInv, SeedSteps
    <2>4. SeedsOldestFirst'
        BY <2>1 DEF SeedInv, SeedsOldestFirst
    <2> QED
        BY <2>2, <2>3, <2>4 DEF SeedInv
<1>3. CASE SeedReport
    <2>1. /\ pc = "report" /\ pc \in SeedSteps /\ reports' = reports \union {next}
          /\ h3' = h3 \union {next} /\ next \in Seeds /\ next \in Nat \ {0}
          /\ UNCHANGED <<users, areas, baseline, crisis, url, shown, file, todo, crashes>>
        BY <1>3, <1>s DEF SeedReport, SeedSteps
    <2>2. reports' = 1 .. next /\ Photographed \intersect (1 .. next - 1) \subseteq url
        BY <2>1 DEF SeedInv, SeedsOldestFirst
    <2>3. reports' \subseteq Reports /\ h3' \subseteq reports' /\ url' \subseteq reports' \intersect Seeds
        BY <1>0, <2>1 DEF TypeOK, Reports
    <2>4. CASE next \in Photographed
        <3>1. pc' = "photo" /\ UNCHANGED <<next, backfill>>
            BY <1>3, <2>4 DEF SeedReport
        <3>2. TypeOK'
            BY <1>0, <2>1, <2>3, <3>1 DEF TypeOK, MainSteps, backfill
        <3>3. StepInv' /\ url' \subseteq file'
            BY <2>1, <3>1 DEF SeedInv, StepInv, SeedSteps
        <3>4. SeedsOldestFirst'
            BY <2>1, <2>2, <3>1 DEF SeedInv, SeedsOldestFirst
        <3> QED
            BY <3>2, <3>3, <3>4 DEF SeedInv
    <2>5. CASE next \notin Photographed
        <3>1. next' = next + 1 /\ BeginSeed(next')
            BY <1>3, <2>5 DEF SeedReport
        <3>2. TypeOK'
            <4>1. /\ pc' \in MainSteps /\ bpc' \in {"off", "select", "update", "done", "failed"}
                  /\ page' \subseteq Legacy /\ full' \in BOOLEAN
                BY <1>0, <3>1, BeginTyped
            <4> QED
                BY <1>0, <1>s, <2>1, <2>3, <3>1, <4>1 DEF TypeOK
        <3>3. Photographed \intersect (1 .. next) \subseteq url'
            BY <2>1, <2>2, <2>5 DEF Seeds
        <3>4. url' \subseteq file'
            BY <2>1 DEF SeedInv
        <3> QED
            BY <1>s, <2>1, <2>2, <3>1, <3>2, <3>3, <3>4, BeginsSeed, ShownMoves
    <2> QED
        BY <2>4, <2>5
<1>4. CASE InstallSeedPhoto
    <2>1. /\ pc = "photo" /\ pc' = "url" /\ file' = file \union {next} /\ next \in Seeds
          /\ UNCHANGED <<users, areas, baseline, crisis, reports, h3, url, shown, next, todo, backfill, crashes>>
        BY <1>4, <1>s DEF InstallSeedPhoto, SeedSteps, rows
    <2>2. TypeOK'
        BY <1>0, <2>1 DEF TypeOK, MainSteps, backfill
    <2>3. StepInv' /\ url' \subseteq file'
        BY <2>1 DEF SeedInv, StepInv, SeedSteps
    <2>4. SeedsOldestFirst'
        BY <2>1 DEF SeedInv, SeedsOldestFirst
    <2> QED
        BY <2>2, <2>3, <2>4 DEF SeedInv
<1>5. CASE SetPhotoURL
    <2>1. /\ pc = "url" /\ pc \in SeedSteps /\ url' = url \union {next}
          /\ next \in Seeds /\ next \in Nat \ {0} /\ next' = next + 1 /\ BeginSeed(next')
          /\ UNCHANGED <<users, areas, baseline, crisis, reports, h3, shown, file, todo, crashes>>
        BY <1>5, <1>s DEF SetPhotoURL, SeedSteps
    <2>2. reports' = 1 .. next /\ Photographed \intersect (1 .. next - 1) \subseteq url
        BY <2>1 DEF SeedInv, SeedsOldestFirst
    <2>3. TypeOK'
        <3>1. /\ pc' \in MainSteps /\ bpc' \in {"off", "select", "update", "done", "failed"}
              /\ page' \subseteq Legacy /\ full' \in BOOLEAN
            BY <1>0, <2>1, BeginTyped
        <3>2. next \in reports
            BY <2>1, <2>2
        <3> QED
            BY <1>0, <1>s, <2>1, <3>1, <3>2 DEF TypeOK
    <2>4. Photographed \intersect (1 .. next) \subseteq url'
        BY <2>1, <2>2 DEF Seeds
    <2>5. url' \subseteq file'
        BY <2>1 DEF SeedInv, StepInv, SeedSteps
    <2> QED
        BY <1>s, <2>1, <2>2, <2>3, <2>4, <2>5, BeginsSeed, ShownMoves
<1> QED
    BY <1>1, <1>2, <1>3, <1>4, <1>5

\* The backfill stamps cells and touches nothing the seed counts on.
LEMMA BackfillKeepsSeed ==
    ASSUME SeedInv, SelectPage \/ UpdatePage \/ BackfillFails
    PROVE  SeedInv'
<1>1. /\ UNCHANGED <<tables, reports, url, shown, file, main, crashes>>
      /\ h3' \subseteq reports /\ page' \subseteq Legacy /\ full' \in BOOLEAN
      /\ bpc' \in {"select", "update", "done", "failed"}
    BY StartupAssumption
    DEF SelectPage, ReadPage, UpdatePage, BackfillFails, SeedInv, TypeOK, rows
<1>2. TypeOK'
    BY <1>1 DEF SeedInv, TypeOK, tables, main
<1> QED
    BY <1>1, <1>2 DEF SeedInv, StepInv, SeedsOldestFirst, tables, main

LEMMA SeedNext == SeedInv /\ [Next]_vars => SeedInv'
<1> SUFFICES ASSUME SeedInv, [Next]_vars PROVE SeedInv'
    OBVIOUS
<1>1. CASE UNCHANGED vars
    BY <1>1 DEF SeedInv, TypeOK, StepInv, SeedsOldestFirst, vars, tables, rows, main, backfill
<1>2. CASE Next
    BY <1>2, MainKeepsSeed, SeedKeepsSeed, BackfillKeepsSeed DEF Next
<1> QED
    BY <1>1, <1>2

\* What each step of the seed may count on, wherever the process died before.
THEOREM SeedInvariant == Spec => []SeedInv
BY InitSeed, SeedNext, PTL DEF Spec

\* Every variable keeps its type, and a report that says it has a photo has one,
\* after any number of restarts and takedowns.
THEOREM RecordedPhotoExistsAlways == Spec => []RecordedPhotoExists
<1>1. SeedInv => RecordedPhotoExists
    BY DEF SeedInv, RecordedPhotoExists
<1> QED
    BY <1>1, SeedInvariant, PTL

\* The seed inserts oldest first into a table that holds nothing else, with each
\* photo before the next report and the building showing the newest.
THEOREM SeedsOldestFirstAlways == Spec => []SeedsOldestFirst
<1>1. SeedInv => SeedsOldestFirst
    BY DEF SeedInv
<1> QED
    BY <1>1, SeedInvariant, PTL

----------------------------------------------------------------------------
(* The backfill *)

LEMMA MinOfTwo ==
    ASSUME NEW a \in Nat, NEW b \in Nat
    PROVE  Min({a, b}) \in {a, b} /\ Min({a, b}) <= a /\ Min({a, b}) <= b
BY DEF Min

LEMMA MissingFinite ==
    ASSUME TypeOK
    PROVE  /\ IsFiniteSet(Missing) /\ Cardinality(Missing) \in Nat
           /\ \A S \in SUBSET Missing : /\ IsFiniteSet(S) /\ Cardinality(S) \in Nat
                                        /\ Cardinality(S) <= Cardinality(Missing)
                                        /\ Cardinality(S) = Cardinality(Missing) => S = Missing
<1>1. IsFiniteSet(Reports)
    <2>1. IsFiniteSet(Seeds)
        BY StartupAssumption, FS_Interval DEF Seeds
    <2> QED
        BY <2>1, StartupAssumption, FS_Union DEF Reports
<1>2. Missing \subseteq Reports
    BY DEF TypeOK, Missing
<1>3. IsFiniteSet(Missing)
    BY <1>1, <1>2, FS_Subset
<1> QED
    BY <1>3, FS_Subset, FS_CardinalityType

\* A page that is not full holds every row without a cell.
LEMMA ShortPageHoldsAll ==
    ASSUME TypeOK, NEW P \in Pages, Cardinality(P) < Chunk
    PROVE  P = Missing
<1>1. P \in SUBSET Missing /\ Cardinality(P) = Min({Cardinality(Missing), Chunk})
    BY DEF Pages, kSubset
<1>2. Chunk \in Nat
    BY StartupAssumption
<1> QED
    BY <1>1, <1>2, MissingFinite, MinOfTwo

\* Nobody but the backfill adds a row without a cell, or takes a cell away.
LEMMA OthersAddNoMissing ==
    ASSUME TypeOK, Next, ~UpdatePage
    PROVE  Missing' \subseteq Missing
<1> USE DEF Missing, rows
<1>1. CASE SeedReport \/ (\E r \in Live : Submit(r)) \/ (\E r \in Reports : Takedown(r))
    BY <1>1 DEF SeedReport, Submit, Takedown
<1>2. CASE reports' = reports /\ h3' = h3
    BY <1>2
<1> QED
    BY <1>1, <1>2 DEF Next, SkipSeed, CountUsers, CreateUser, CountReports, InsertArea, SeedCrisis,
       SeedBuilding, InstallSeedPhoto, SetPhotoURL, CountBaseline, LoadCountry, SelectPage, ReadPage,
       BackfillFails, Restart

\* What the main goroutine, a request or a restart does to the backfill.
LEMMA OthersKeepPage ==
    ASSUME Next, ~SelectPage, ~UpdatePage, ~BackfillFails
    PROVE  bpc' \in {"off", "select"} \/ UNCHANGED <<bpc, page, full>>
BY DEF Next, SkipSeed, CountUsers, CreateUser, CountReports, InsertArea, SeedCrisis, SeedReport,
   SeedBuilding, InstallSeedPhoto, SetPhotoURL, CountBaseline, LoadCountry, Submit, Takedown,
   Restart, BeginSeed, Proceed, backfill

LEMMA PageNext ==
    ASSUME TypeOK, PageInv, [Next]_vars
    PROVE  PageInv'
<1>1. CASE SelectPage
    <2>1. PICK P \in Pages : ReadPage(P) /\ bpc' = IF page' = {} THEN "done" ELSE "update"
        BY <1>1 DEF SelectPage
    <2>2. Missing' = Missing
        BY <2>1 DEF ReadPage, Missing, rows
    <2>3. P \in SUBSET Missing /\ Cardinality(P) <= Chunk /\ Cardinality(P) \in Nat /\ Chunk \in Nat
        <3>1. Cardinality(Missing) \in Nat /\ Chunk \in Nat
            BY StartupAssumption, MissingFinite
        <3>2. P \in SUBSET Missing /\ Cardinality(P) = Min({Cardinality(Missing), Chunk})
            BY <2>1 DEF Pages, kSubset
        <3> QED
            BY <3>1, <3>2, MinOfTwo
    <2>4. ~full' => P = Missing
        <3>1. ~full' => Cardinality(P) # Chunk
            BY <2>1 DEF ReadPage
        <3>2. ~full' => Cardinality(P) < Chunk
            BY <2>3, <3>1
        <3> QED
            BY <3>2, ShortPageHoldsAll
    <2> QED
        BY <2>1, <2>2, <2>4 DEF PageInv, ReadPage
<1>2. CASE UpdatePage \/ BackfillFails
    BY <1>2 DEF UpdatePage, BackfillFails, PageInv
<1>3. CASE Next /\ ~SelectPage /\ ~UpdatePage /\ ~BackfillFails
    BY <1>3, OthersKeepPage, OthersAddNoMissing DEF PageInv
<1>4. CASE UNCHANGED vars
    BY <1>4 DEF PageInv, Missing, vars, rows, backfill
<1> QED
    BY <1>1, <1>2, <1>3, <1>4

\* A page that was not full is all there was, however the rows change before its
\* update.
THEOREM BackfillInvariant == Spec => []BackfillInv
<1>1. Init => PageInv
    BY DEF Init, PageInv
<1>2. SeedInv /\ PageInv /\ [Next]_vars => PageInv'
    BY PageNext DEF SeedInv
<1>3. SeedInv /\ PageInv => BackfillInv
    BY DEF SeedInv, BackfillInv
<1> QED
    BY <1>1, <1>2, <1>3, SeedInvariant, PTL DEF Spec

\* The backfill ends without an error only when no row is left that it could
\* stamp, or a whole page of rows without a cell hid it.
THEOREM BackfillLeavesNoneAlways == Spec => BackfillLeavesNone
<1> DEFINE Leaves == bpc # "done" /\ bpc' = "done" /\ Cardinality(Missing' \ Cellable) < Chunk
                       => Missing' \intersect Cellable = {}
<1>1. BackfillInv /\ [Next]_vars => [Leaves]_vars
    <2> SUFFICES ASSUME BackfillInv, Next, bpc # "done", bpc' = "done",
                        Cardinality(Missing' \ Cellable) < Chunk
                 PROVE  Missing' \intersect Cellable = {}
        OBVIOUS
    <2>0. TypeOK /\ Chunk \in Nat
        BY StartupAssumption DEF BackfillInv
    <2>1. CASE SelectPage
        <3>1. PICK P \in Pages : ReadPage(P) /\ bpc' = IF page' = {} THEN "done" ELSE "update"
            BY <2>1 DEF SelectPage
        <3>2. Missing' = Missing /\ P \intersect Cellable = {}
            BY <3>1 DEF ReadPage, Missing, rows
        <3>3. P \in SUBSET (Missing \ Cellable)
            BY <3>2 DEF Pages, kSubset
        <3>4. Cardinality(P) <= Cardinality(Missing \ Cellable)
            BY <2>0, <3>3, MissingFinite, FS_Subset
        <3>5. Cardinality(P) < Chunk
            BY <2>0, <3>2, <3>3, <3>4, MissingFinite
        <3> QED
            BY <2>0, <3>2, <3>5, ShortPageHoldsAll
    <2>2. CASE UpdatePage
        <3>1. ~full /\ bpc = "update"
            BY <2>2 DEF UpdatePage
        <3>2. Missing \intersect Cellable \subseteq page
            BY <3>1 DEF BackfillInv, PageInv
        <3> QED
            BY <2>2, <3>2 DEF UpdatePage, Missing
    <2>3. CASE ~SelectPage /\ ~UpdatePage
        BY <2>3, OthersKeepPage DEF BackfillFails
    <2> QED
        BY <2>1, <2>2, <2>3
<1>2. BackfillLeavesNone <=> [][Leaves]_vars
    BY DEF BackfillLeavesNone
<1> QED
    BY <1>1, <1>2, BackfillInvariant, PTL DEF Spec

============================================================================
