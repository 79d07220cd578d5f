------------------------------ MODULE Dashboard ------------------------------
(***************************************************************************)
(* The pages that show many reports at once, over the table of             *)
(* ReportListing while it changes: the overview of the dashboard, whose    *)
(* numbers come from four queries one after the other, and the map, whose  *)
(* pins, tiles and timelines are requests of their own.  A page is open    *)
(* from its first query until the client leaves it.                        *)
(*                                                                         *)
(* Data.  A row matches if it is in the crisis and the caller's tier sees  *)
(* it.  Times are hours.  Of the counts of the overview the tiers stand    *)
(* also for verification and synced, which are counted alike; what viewers *)
(* get of its recent reports is left out.                                  *)
(***************************************************************************)
EXTENDS Export

CONSTANTS
  Tier,       \* Tier[r]: damage_tier of report r
  PlaceOf,    \* PlaceOf[r]: its place, or NoPlace
  NoPlace,
  Cell,       \* Cell[r]: the cell of a report that has a position
  BuildingOf, \* BuildingOf[r]: its building, or NoBuilding
  NoBuilding,
  Started,    \* when the crisis started
  Clocks,     \* the times at which a query may run
  RecentSize,
  PinCap,     \* mapPinCap
  MaxChanges  \* bound: changes of the table while a page is open

Rank == [minimal |-> 0, partial |-> 1, complete |-> 2]

ASSUME DashboardAssumption == /\ Tier \in [ReportIds -> DOMAIN Rank]
                              /\ Cell \in [Resolved -> Nat]
                              /\ Started \in Int /\ Clocks \subseteq Int
                              /\ DOMAIN PlaceOf = ReportIds /\ DOMAIN BuildingOf = ReportIds
                              /\ {RecentSize, PinCap, MaxChanges} \subseteq Nat

VARIABLES
  view,     \* the page that is open, and how far it is
  overview, \* the parts of the overview read so far
  map,      \* what the map shows
  stayed,   \* the reports that matched ever since the page was opened
  ever,     \* those that matched at any time since then
  changes   \* of the table since then

Blank == [none |-> TRUE]
dash == <<view, overview, map, stayed, ever, changes>>
dashVars == <<readVars, dash>>

DashInit == /\ ReadsInit
            /\ view = "off" /\ overview = Blank /\ map = Blank
            /\ stayed = {} /\ ever = {} /\ changes = 0

------------------------------------------------------------------------------
(* The aggregates, each a function of the reports of one moment *)

Count(S, P(_)) == Cardinality({r \in S : P(r)})
\* The sum of the counts f: it has so many pairs of a key and a number up to its count.
Total(f) == Cardinality(UNION {{k} \X (1 .. f[k]) : k \in DOMAIN f})
Ceil(a, b) == -((-a) \div b)

\* Half up, as math.Round does for these; of no reports 0.
Pct(n, total) == IF total = 0 THEN 0 ELSE (200 * n + total) \div (2 * total)

TierCounts(S) == [t \in DOMAIN Rank |-> Count(S, LAMBDA r : Tier[r] = t)]

WorstOf(S) == Max({Rank[Tier[r]] : r \in S})

\* The reports of S by key, each group with its count and its worst tier.
Groups(S, key) ==
  [k \in {key[r] : r \in S} |->
     LET group == {r \in S : key[r] = k} IN [n |-> Cardinality(group), worst |-> WorstOf(group)]]

\* The areas by name; the clusters of a tile with low zoom, and as these the
\* areas by H3 cell.
ByPlace(S) == Groups({r \in S : PlaceOf[r] # NoPlace}, PlaceOf)
ByCell(S)  == Groups(S \intersect Resolved, Cell)

\* Hours of a bucket, and how many buckets, for a crisis of this age.
Width(age) == IF age > 48 THEN 24 ELSE 1
Buckets(age) == IF age > 48 THEN Min({30, Max({7, Ceil(age, 24)})}) ELSE 12

\* Mutant: what is older than the chart is in no bucket.
BucketUncapped(r, now, age) == Max({0, now - CapturedAt[r]}) \div Width(age)

Bucket(r, now, age) == Min({Buckets(age) - 1, Max({0, now - CapturedAt[r]}) \div Width(age)})

Series(S, now, age) ==
  [b \in 0 .. Buckets(age) - 1 |-> Count(S, LAMBDA r : Bucket(r, now, age) = b)]

SameBuilding(r, s) == BuildingOf[r] = BuildingOf[s] /\ BuildingOf[r] # NoBuilding

\* Mutant: ranked before the filter, a newer report that does not match hides
\* the one that does.
LatestOfAll(S) ==
  {r \in S : ~\E s \in ReportIds : row[s] # "absent" /\ SameBuilding(r, s) /\ Before(s, r)}

\* One report of each building, and those of none.
Latest(S) == {r \in S : ~\E s \in S : SameBuilding(r, s) /\ Before(s, r)}

------------------------------------------------------------------------------
(* The overview *)

\* A page is opened: what has matched since is observed from here on.
Open == /\ view = "off" /\ step = "idle" /\ pc = "idle"
        /\ stayed' = Matching /\ ever' = Matching
        /\ UNCHANGED <<readVars, changes>>

\* A page with a part more.
With(parts, part) ==
  [k \in DOMAIN parts \union DOMAIN part |-> IF k \in DOMAIN part THEN part[k] ELSE parts[k]]

Read(part, next) == /\ overview' = With(overview, part)
                    /\ view' = next
                    /\ UNCHANGED <<readVars, map, stayed, ever, changes>>

StatsCounts ==
  /\ Open
  /\ LET tiers == TierCounts(Matching)
         total == Cardinality(Matching)
     IN overview' = [total |-> total, tiers |-> tiers,
                     completePct |-> Pct(tiers.complete, total),
                     severePlusPct |-> Pct(tiers.partial + tiers.complete, total)]
  /\ view' = "areas" /\ UNCHANGED map

AreaGroups == view = "areas" /\ Read([areas |-> ByPlace(Matching)], "series")

\* The age is asked for first; when that fails it counts as 0.
TimeSeries ==
  /\ view = "series"
  /\ \E now \in Clocks : \E age \in {0, now - Started} :
       Read([series |-> Series(Matching, now, age)], "recent")

Recent == view = "recent" /\ Read([recent |-> First(Matching, RecentSize)], "overview")

------------------------------------------------------------------------------
(* The map *)

Draw(part, next) == /\ map' = With(map, part)
                    /\ view' = next
                    /\ UNCHANGED <<readVars, overview, stayed, ever, changes>>

LatestPerBuilding ==
  /\ Open
  /\ map' = [pins |-> First(Latest(Matching), PinCap)]
  /\ view' = "map" /\ UNCHANGED overview

\* A tile holds points when the zoom is high, else clusters.
MapTileMVT ==
  /\ view = "map"
  /\ \/ Draw([points |-> Latest(Matching \intersect Resolved)], "tile")
     \/ Draw([clusters |-> ByCell(Matching)], "tile")

\* The last of S, ORDER BY captured_at, id.
LastOf(S) == CHOOSE r \in S : \A s \in S \ {r} : Before(r, s)

\* The timeline of the building of a pin: it is not bound to the crisis, so
\* reports of another one may be in it; of nothing it is 404.
BuildingTimeline ==
  /\ view \in {"map", "tile"}
  /\ \E pin \in {p \in map.pins : BuildingOf[p] # NoBuilding} :
     \E others \in SUBSET {r \in ReportIds : row[r] = "other"} :
       LET chain == {r \in Matching \union others : SameBuilding(r, pin)}
       IN Draw([pin |-> pin, chain |-> chain,
                current |-> IF chain = {} THEN 0 ELSE LastOf(chain)], "timeline")

------------------------------------------------------------------------------

\* The client leaves the page; or a query fails, and it has nothing of an
\* overview, whose answer is written after the last one.
Leave == /\ view # "off"
         /\ view' = "off" /\ overview' = Blank /\ map' = Blank
         /\ stayed' = {} /\ ever' = {} /\ changes' = 0
         /\ UNCHANGED readVars

PageNext == \/ StatsCounts \/ AreaGroups \/ TimeSeries \/ Recent
            \/ LatestPerBuilding \/ MapTileMVT \/ BuildingTimeline \/ Leave

\* The reports change while a page is open.
Disturb == /\ view # "off" /\ changes < MaxChanges
           /\ \E r \in ReportIds : \/ \E state \in {"match", "other"} : Submit(r, state)
                                   \/ WithdrawReport(r) \/ Update(r)
           /\ stayed' = stayed \intersect Matching' /\ ever' = ever \union Matching'
           /\ changes' = changes + 1
           /\ UNCHANGED <<export, view, overview, map>>

DashNext == \/ view = "off" /\ ReadsNext /\ UNCHANGED dash
            \/ Disturb
            \/ PageNext

DashSpec == DashInit /\ [][DashNext]_dashVars

------------------------------------------------------------------------------
(* Properties *)

DashTypeOK ==
  /\ view \in {"off", "areas", "series", "recent", "overview", "map", "tile", "timeline"}
  /\ view \in {"off", "map", "tile", "timeline"} <=> overview = Blank
  /\ view \in {"map", "tile", "timeline"} <=> map # Blank
  /\ stayed \subseteq Matching /\ stayed \subseteq ever
  /\ ever \subseteq ReportIds /\ changes \in 0 .. MaxChanges

\* A count read since the page was opened, of the reports in S.
Between(n, S) == Cardinality(stayed \intersect S) <= n /\ n <= Cardinality(ever \intersect S)

\* The numbers of one overview are of different moments, yet they fit together:
\* the tiers add up to the total and the buckets to the reports of their moment,
\* so total and chart differ by no more than the reports that came or went
\* meanwhile, and by nothing when none did; an area has at least the reports
\* that were there all the time, and as bad; one that stayed is among the
\* recent ones unless enough newer ones were there.  Every variable keeps its type.
OverviewAddsUp ==
  /\ DashTypeOK
  /\ view = "overview" =>
       /\ Total(overview.tiers) = overview.total
       /\ overview.completePct <= overview.severePlusPct /\ overview.severePlusPct <= 100
       /\ Between(overview.total, ReportIds)
       /\ Between(Total(overview.series), ReportIds)
       /\ changes = 0 => Total(overview.series) = overview.total
       /\ \A r \in {s \in stayed : PlaceOf[s] # NoPlace} :
            /\ PlaceOf[r] \in DOMAIN overview.areas
            /\ Rank[Tier[r]] <= overview.areas[PlaceOf[r]].worst
       /\ \A place \in DOMAIN overview.areas :
            Between(overview.areas[place].n, {r \in ReportIds : PlaceOf[r] = place})
       /\ \A r \in stayed \ overview.recent : Cardinality(Ahead(ever, r)) >= RecentSize

\* r is among shown, or a newer report of its building.
ShownBy(shown, r) == r \in shown \/ \E p \in shown : SameBuilding(p, r) /\ Before(p, r)

\* The pins, the tiles and the timelines of one map agree: of a building there is
\* one pin and one point; a report that matched all the time is shown by itself or a
\* newer one of its building, unless the cap was used up by newer pins; a pin with a
\* position is a point, if nothing changed; the clusters count every report
\* once; and a pin that is still there is the current one of its
\* building's timeline, or older than it.
MapAgrees ==
  /\ "pins" \in DOMAIN map =>
       /\ \A p, q \in map.pins : SameBuilding(p, q) => p = q
       /\ \A r \in stayed : ShownBy(map.pins, r) \/ Cardinality(Ahead(map.pins, r)) = PinCap
  /\ "points" \in DOMAIN map =>
       /\ \A p, q \in map.points : SameBuilding(p, q) => p = q
       /\ \A r \in stayed \intersect Resolved : ShownBy(map.points, r)
       /\ changes = 0 => map.pins \intersect Resolved \subseteq map.points
  /\ "clusters" \in DOMAIN map =>
       /\ Between(Total([c \in DOMAIN map.clusters |-> map.clusters[c].n]), Resolved)
       /\ \A r \in stayed \intersect Resolved : Rank[Tier[r]] <= map.clusters[Cell[r]].worst
  /\ view = "timeline" /\ map.pin \in stayed =>
       map.current = map.pin \/ Before(map.current, map.pin)
==============================================================================
