---------------------------- MODULE BoundaryLoader ---------------------------
(***************************************************************************)
(* How reports get their administrative area.  A handler resolves a point  *)
(* against the areas that are loaded, inserts the report, and leaves a     *)
(* goroutine behind that loads the areas of the report's country: the      *)
(* official COD-AB layer where one is published and the geoBoundaries      *)
(* layer elsewhere.  A layer arrives row by row, and the reports that are  *)
(* there when it is complete are resolved again.  A goroutine of the       *)
(* startup does the same for every country that has reports.  The loads    *)
(* of one country exclude each other; those of two countries do not.  The  *)
(* outlines of the baseline are coarse: a point may lie in an area of a    *)
(* country and in no outline, or in the outlines of two countries.         *)
(* Each report is delivered once; takedowns are left out (an update of an  *)
(* absent report does nothing).                                            *)
(***************************************************************************)
EXTENDS Naturals, FiniteSets

CONSTANTS
  ReportIds,
  Points,      \* as many as the areas tell apart
  Countries, NoCountry,
  Atlas,       \* the areas there are, each at each of its points
  At,          \* At[r]: where report r is
  Worlds,      \* the sets of countries that may be published as COD-AB
  Boot,        \* the goroutine of the startup
  MaxFaults    \* bound: failed downloads and queries, timeouts and crashes

\* What a report has of a chain, by the authority of the source and then the
\* depth: "none" for a report without a chain, "absent" for one not stored.
Rank == [absent |-> 0, none |-> 0, country |-> 1, gb |-> 2, seed |-> 3, cod1 |-> 4, cod2 |-> 5]
Chains == DOMAIN Rank
Area == [chain : Chains \ {"absent", "none"}, of : Countries \union {NoCountry}, point : Points]

Processes == ReportIds \union {Boot}

\* The country codes of the seed are not ISO3.
ASSUME PlacesAssumption == /\ IsFiniteSet(ReportIds) /\ Boot \notin ReportIds
                           /\ At \in [ReportIds -> Points]
                           /\ Atlas \subseteq Area
                           /\ \A a \in Atlas : a.of = NoCountry <=> a.chain = "seed"
                           /\ Worlds \subseteq SUBSET Countries
                           /\ NoCountry \notin Countries
                           /\ MaxFaults \in Nat

VARIABLES
  published, \* the countries that have a COD-AB layer
  areas,     \* the rows of `admin_areas`, at each point
  chain,     \* chain[r]: the admin chain of report r
  inflight,  \* Loader.inflight
  pc,        \* pc[p]: the statement process p is about to run
  held,      \* held[p]: the chain p resolved and has not stored, or "absent"
  country,   \* country[p]: the country p is loading
  rows,      \* rows[p]: the areas p has downloaded and not stored
  loaded,    \* loaded[p]: p has stored an area of the layer
  todo,      \* todo[p]: the reports p has to resolve again
  phase,     \* which of its two passes the startup is in
  plan,      \* the countries it has not visited in this pass
  left,      \* the reports the sweep has to look at
  faults,
  late       \* the reports whose chain was out of date when they were inserted

data == <<published, areas, chain, faults, late>>
work == <<held, rows, loaded, todo>>
boot == <<phase, plan, left>>
vars == <<data, inflight, pc, country, work, boot>>

Stored == {r \in ReportIds : chain[r] # "absent"}

\* ResolveAdmin: the best of the areas at the point, if there is one.  Of two that
\* rank alike the query takes either.
Resolve(point) ==
  LET hits == {"none"} \union {a.chain : a \in {x \in areas : x.point = point}}
  IN CHOOSE c \in hits : \A d \in hits : Rank[d] <= Rank[c]
Hits(point) == {a \in areas : a.point = point /\ a.chain = Resolve(point)}

Layer(c, chains) == {a \in Atlas : a.of = c /\ a.chain \in chains}
COD == {"cod1", "cod2"}
GB  == {"gb"}

\* AreaCountByISO3 > 0.
Covered(c, chains) == Layer(c, chains) \intersect areas # {}

\* The point lies in the country's outline in the baseline.
Outlined(c, point) == [chain |-> "country", of |-> c, point |-> point] \in areas

InCountry(c) == {r \in Stored : Outlined(c, At[r])}
MissingRegion == {r \in Stored : chain[r] \in {"none", "country"}}

\* The seed and the baseline are there before the server listens.
Init == /\ published \in Worlds
        /\ areas = {a \in Atlas : a.chain \in {"country", "seed"}}
        /\ chain = [r \in ReportIds |-> "absent"]
        /\ inflight = {} /\ faults = 0 /\ late = {}
        /\ phase = "coverage" /\ plan = {} /\ left = {}
        /\ pc = [p \in Processes |-> IF p = Boot THEN "list" ELSE "new"]
        /\ held = [p \in Processes |-> "absent"]
        /\ country = [p \in Processes |-> NoCountry]
        /\ rows = [p \in Processes |-> {}]
        /\ loaded = [p \in Processes |-> FALSE]
        /\ todo = [p \in Processes |-> {}]

Goto(p, label) == pc' = [pc EXCEPT ![p] = label]
Fault == faults < MaxFaults /\ faults' = faults + 1

\* Mutant: the startup loads whatever is being loaded.
EnterAtStartup(p, c, skip) ==
  IF p # Boot /\ c \in inflight THEN Goto(p, skip) /\ UNCHANGED <<inflight, country>>
  ELSE /\ inflight' = inflight \union {c}
       /\ country' = [country EXCEPT ![p] = c]
       /\ Goto(p, "cod")

\* EnsureCountry begins, or returns at once to skip when c is being loaded.
Enter(p, c, skip) ==
  IF c \in inflight THEN Goto(p, skip) /\ UNCHANGED <<inflight, country>>
  ELSE /\ inflight' = inflight \union {c}
       /\ country' = [country EXCEPT ![p] = c]
       /\ Goto(p, "cod")

------------------------------------------------------------------------------
(* A report: POST /api/v1/reports and the goroutine it leaves behind *)

\* The point is resolved before the transaction; an error leaves the report
\* without a chain, as a point outside of every area does.
ResolveReport(r) ==
  /\ pc[r] = "new"
  /\ \/ held' = [held EXCEPT ![r] = Resolve(At[r])] /\ UNCHANGED faults
     \/ Fault /\ held' = [held EXCEPT ![r] = "none"]
  /\ Goto(r, "insert")
  /\ UNCHANGED <<published, areas, chain, late, inflight, country, rows, loaded, todo, boot>>

InsertReport(r) ==
  /\ pc[r] = "insert"
  /\ chain' = [chain EXCEPT ![r] = held[r]]
  /\ late' = IF held[r] = Resolve(At[r]) THEN late ELSE late \union {r}
  /\ held' = [held EXCEPT ![r] = "absent"]
  /\ Goto(r, "point")
  /\ UNCHANGED <<published, areas, faults, inflight, country, rows, loaded, todo, boot>>

\* EnsureForPoint loads nothing for a point outside of every area, for one in the
\* seed, and when the query fails.
EnsureForPoint(r) ==
  /\ pc[r] = "point"
  /\ \/ \E a \in Hits(At[r]) : a.of # NoCountry /\ Enter(r, a.of, "done") /\ UNCHANGED faults
     \/ /\ \A a \in Hits(At[r]) : a.of = NoCountry
        /\ Goto(r, "done") /\ UNCHANGED <<inflight, country, faults>>
     \/ Fault /\ Goto(r, "done") /\ UNCHANGED <<inflight, country>>
  /\ UNCHANGED <<published, areas, chain, late, work, boot>>

------------------------------------------------------------------------------
(* The startup: EnsureCODCoverage, then SweepExisting *)

\* ReportedCountries.
ListReported ==
  /\ pc[Boot] = "list" /\ phase = "coverage"
  /\ plan' = {c \in Countries : InCountry(c) # {}}
  /\ Goto(Boot, "visit")
  /\ UNCHANGED <<data, inflight, country, work, phase, left>>

ListUnswept ==
  /\ pc[Boot] = "list" /\ phase = "sweep"
  /\ plan' = Countries /\ left' = MissingRegion
  /\ Goto(Boot, "visit")
  /\ UNCHANGED <<data, inflight, country, work, phase>>

ListFails ==
  /\ pc[Boot] = "list" /\ Fault
  /\ Goto(Boot, "visit")
  /\ UNCHANGED <<published, areas, chain, late, inflight, country, work, boot>>

\* A count that fails counts as nothing.
VisitCountry(c) ==
  /\ pc[Boot] = "visit" /\ phase = "coverage" /\ c \in plan
  /\ plan' = plan \ {c}
  /\ \/ Covered(c, COD) /\ UNCHANGED <<faults, pc, inflight, country>>
     \/ ~Covered(c, COD) /\ Enter(Boot, c, "visit") /\ UNCHANGED faults
     \/ Fault /\ Enter(Boot, c, "visit")
  /\ UNCHANGED <<published, areas, chain, late, work, phase, left>>

\* The country the report's point resolves to, unless there is none, the sweep
\* has seen it, or the query fails.
VisitReport(r) ==
  /\ pc[Boot] = "visit" /\ r \in left
  /\ left' = left \ {r}
  /\ \/ \E a \in Hits(At[r]) : /\ a.of \in plan /\ plan' = plan \ {a.of}
                               /\ Enter(Boot, a.of, "visit") /\ UNCHANGED faults
     \/ /\ Hits(At[r]) = {} \/ \E a \in Hits(At[r]) : a.of \notin plan
        /\ UNCHANGED <<faults, plan, pc, inflight, country>>
     \/ Fault /\ UNCHANGED <<plan, pc, inflight, country>>
  /\ UNCHANGED <<published, areas, chain, late, work, phase>>

EndVisits ==
  /\ pc[Boot] = "visit" /\ left = {}
  /\ IF phase = "coverage" THEN plan = {} /\ phase' = "sweep" /\ Goto(Boot, "list")
                           ELSE Goto(Boot, "done") /\ UNCHANGED phase
  /\ plan' = {}
  /\ UNCHANGED <<data, inflight, country, work, left>>

------------------------------------------------------------------------------
(* EnsureCountry *)

\* EnsureCountry returns: the deferred delete, and p is through with its country.
Leave(p) == /\ inflight' = inflight \ {country[p]}
            /\ country' = [country EXCEPT ![p] = NoCountry]
            /\ held' = [held EXCEPT ![p] = "absent"]
            /\ rows' = [rows EXCEPT ![p] = {}]
            /\ loaded' = [loaded EXCEPT ![p] = FALSE]
            /\ todo' = [todo EXCEPT ![p] = {}]
            /\ Goto(p, IF p = Boot THEN "visit" ELSE "done")

\* p goes on, inside EnsureCountry, to the statement at label.
Proceed(p, label) == Goto(p, label) /\ UNCHANGED <<inflight, country, work>>

\* Mutant: the layer is downloaded whatever is stored.
DownloadCODAlways(p) ==
  /\ pc[p] = "cod"
  /\ Proceed(p, "fetchcod")
  /\ UNCHANGED <<data, boot>>

\* The reports in S are to be resolved again.
Again(p, S, label) == /\ todo' = [todo EXCEPT ![p] = S]
                      /\ Goto(p, label)
                      /\ UNCHANGED <<inflight, country, held, rows, loaded>>

\* ensureCOD: the gate, then the download.
CountCOD(p) ==
  /\ pc[p] = "cod"
  /\ Proceed(p, IF Covered(country[p], COD) THEN "covered" ELSE "fetchcod")
  /\ UNCHANGED <<data, boot>>

\* A count that fails counts as nothing, at each of the three gates.
CountFails(p) ==
  /\ pc[p] \in {"cod", "covered", "gb"} /\ Fault
  /\ Proceed(p, CASE pc[p] = "cod" -> "fetchcod"
                  [] pc[p] = "covered" -> "gb"
                  [] pc[p] = "gb" -> "fetchgb")
  /\ UNCHANGED <<published, areas, chain, late, boot>>

\* p has the layer of the chains ks in hand.
Download(p, ks, label) == /\ rows' = [rows EXCEPT ![p] = Layer(country[p], ks)]
                          /\ Goto(p, label)
                          /\ UNCHANGED <<inflight, country, held, loaded, todo, boot>>

FetchCOD(p) ==
  /\ pc[p] = "fetchcod"
  /\ \/ country[p] \in published /\ Download(p, COD, "codrows") /\ UNCHANGED faults
     \/ country[p] \notin published /\ Proceed(p, "covered") /\ UNCHANGED <<faults, boot>>
     \/ Fault /\ Proceed(p, "covered") /\ UNCHANGED boot
  /\ UNCHANGED <<published, areas, chain, late>>

\* The first level before the second.
Nexts(p) == {a \in rows[p] : \A b \in rows[p] : Rank[a.chain] <= Rank[b.chain]}

\* The foreign key: an area of the second level needs its parent.
HasParent(a) ==
  a.chain = "cod2" => LET parent == [a EXCEPT !.chain = "cod1"] IN parent \in Atlas => parent \in areas

\* UpsertAdminAreaGeoJSON, ON CONFLICT DO NOTHING; a row that fails is skipped.
Ingest(p, a) ==
  /\ pc[p] \in {"codrows", "gbrows"} /\ a \in Nexts(p)
  /\ rows' = [rows EXCEPT ![p] = @ \ {a}]
  /\ \/ /\ HasParent(a)
        /\ areas' = areas \union {a}
        /\ loaded' = [loaded EXCEPT ![p] = TRUE]
        /\ UNCHANGED faults
     \/ ~HasParent(a) /\ UNCHANGED <<areas, loaded, faults>>
     \/ Fault /\ UNCHANGED <<areas, loaded>>
  /\ UNCHANGED <<published, chain, late, inflight, pc, country, held, todo, boot>>


\* Mutant: as after a geoBoundaries load, only the reports without a region.
ListMissingAfterCOD(p) ==
  /\ pc[p] = "codrows" /\ rows[p] = {}
  /\ IF loaded[p] THEN Again(p, MissingRegion, "regeo") ELSE Proceed(p, "covered")
  /\ UNCHANGED <<data, boot>>

\* ensureCOD returns: regeocodeCountry lists every report of the country, or
\* nothing was stored and geoBoundaries is next.
ListAfterCOD(p) ==
  /\ pc[p] = "codrows" /\ rows[p] = {}
  /\ IF loaded[p] THEN Again(p, InCountry(country[p]), "regeo") ELSE Proceed(p, "covered")
  /\ UNCHANGED <<data, boot>>

CountCovered(p) ==
  /\ pc[p] = "covered"
  /\ IF Covered(country[p], COD) THEN Leave(p) ELSE Proceed(p, "gb")
  /\ UNCHANGED <<data, boot>>

CountGB(p) ==
  /\ pc[p] = "gb"
  /\ IF Covered(country[p], GB) THEN Leave(p) ELSE Proceed(p, "fetchgb")
  /\ UNCHANGED <<data, boot>>

FetchGB(p) ==
  /\ pc[p] = "fetchgb"
  /\ \/ Download(p, GB, "gbrows") /\ UNCHANGED faults
     \/ Fault /\ Leave(p) /\ UNCHANGED boot
  /\ UNCHANGED <<published, areas, chain, late>>

\* regeocodeMissing lists the reports without a region, of any country.
ListAfterGB(p) ==
  /\ pc[p] = "gbrows" /\ rows[p] = {}
  /\ IF loaded[p] THEN Again(p, MissingRegion, "regeomissing") ELSE Leave(p)
  /\ UNCHANGED <<data, boot>>

RelistFails(p) ==
  /\ pc[p] \in {"codrows", "gbrows"} /\ rows[p] = {} /\ loaded[p] /\ Fault
  /\ Leave(p)
  /\ UNCHANGED <<published, areas, chain, late, boot>>

\* The reports come in some order.
First(S) == CHOOSE r \in S : TRUE

Regeocoding(p) == pc[p] \in {"regeo", "regeomissing"}

\* ResolveAdmin of the next report.  One outside of every area is left alone, and
\* after a geoBoundaries load also one that still has no region.
ResolveAgain(p) ==
  /\ Regeocoding(p) /\ todo[p] # {} /\ held[p] = "absent"
  /\ LET k == Resolve(At[First(todo[p])])
     IN IF k = "none" \/ (k = "country" /\ pc[p] = "regeomissing")
          THEN todo' = [todo EXCEPT ![p] = @ \ {First(@)}] /\ UNCHANGED held
          ELSE held' = [held EXCEPT ![p] = k] /\ UNCHANGED todo
  /\ UNCHANGED <<data, inflight, pc, country, rows, loaded, boot>>

UpdateReportAdmin(p) ==
  /\ Regeocoding(p) /\ held[p] # "absent"
  /\ chain' = [chain EXCEPT ![First(todo[p])] = held[p]]
  /\ held' = [held EXCEPT ![p] = "absent"]
  /\ todo' = [todo EXCEPT ![p] = @ \ {First(@)}]
  /\ UNCHANGED <<published, areas, faults, late, inflight, pc, country, rows, loaded, boot>>

\* ResolveAdmin or UpdateReportAdmin fails, and the report is skipped.
SkipReport(p) ==
  /\ Regeocoding(p) /\ todo[p] # {} /\ Fault
  /\ held' = [held EXCEPT ![p] = "absent"]
  /\ todo' = [todo EXCEPT ![p] = @ \ {First(@)}]
  /\ UNCHANGED <<published, areas, chain, late, inflight, pc, country, rows, loaded, boot>>

EndRegeocode(p) ==
  /\ Regeocoding(p) /\ todo[p] = {}
  /\ Leave(p)
  /\ UNCHANGED <<data, boot>>

\* The two minutes of a report's goroutine are over: whatever it calls next fails.
Timeout(r) ==
  /\ country[r] # NoCountry /\ Fault
  /\ Leave(r)
  /\ UNCHANGED <<published, areas, chain, late, boot>>

\* The server stops and starts again; a client re-sends what was not answered.
Crash ==
  /\ Fault
  /\ inflight' = {} /\ phase' = "coverage" /\ plan' = {} /\ left' = {}
  /\ pc' = [p \in Processes |-> CASE p = Boot -> "list"
                                  [] pc[p] \in {"new", "insert"} -> "new"
                                  [] OTHER -> "done"]
  /\ held' = [p \in Processes |-> "absent"]
  /\ country' = [p \in Processes |-> NoCountry]
  /\ rows' = [p \in Processes |-> {}]
  /\ loaded' = [p \in Processes |-> FALSE]
  /\ todo' = [p \in Processes |-> {}]
  /\ UNCHANGED <<published, areas, chain, late>>

Report(r) == ResolveReport(r) \/ InsertReport(r) \/ EnsureForPoint(r) \/ Timeout(r)

Startup == ListReported \/ ListUnswept \/ ListFails \/ (\E c \in plan : VisitCountry(c))
           \/ (\E r \in left : VisitReport(r)) \/ EndVisits

EnsureCountry(p) == \/ CountCOD(p) \/ CountFails(p) \/ FetchCOD(p) \/ (\E a \in rows[p] : Ingest(p, a))
                    \/ ListAfterCOD(p) \/ CountCovered(p) \/ CountGB(p) \/ FetchGB(p)
                    \/ ListAfterGB(p) \/ RelistFails(p) \/ ResolveAgain(p)
                    \/ UpdateReportAdmin(p) \/ SkipReport(p) \/ EndRegeocode(p)

Next == \/ \E r \in ReportIds : Report(r)
        \/ Startup
        \/ \E p \in Processes : EnsureCountry(p)
        \/ Crash

Spec == Init /\ [][Next]_vars

------------------------------------------------------------------------------
(* Properties *)

Loading == {"cod", "fetchcod", "codrows", "covered", "gb", "fetchgb", "gbrows",
            "regeo", "regeomissing"}

TypeOK ==
  /\ published \in Worlds
  /\ areas \subseteq Atlas
  /\ chain \in [ReportIds -> Chains]
  /\ inflight = {country[p] : p \in Processes} \ {NoCountry}
  /\ pc \in [Processes -> Loading \union {"new", "insert", "point", "done", "list", "visit"}]
  /\ held \in [Processes -> Chains]
  /\ country \in [Processes -> Countries \union {NoCountry}]
  /\ \A p \in Processes : country[p] # NoCountry <=> pc[p] \in Loading
  /\ rows \in [Processes -> SUBSET Atlas]
  /\ loaded \in [Processes -> BOOLEAN]
  /\ todo \in [Processes -> SUBSET Stored]
  /\ plan \subseteq Countries /\ left \subseteq Stored /\ phase \in {"coverage", "sweep"}
  /\ faults \in 0 .. MaxFaults
  /\ late \subseteq ReportIds

\* No layer is downloaded that is stored: the gate was passed before the
\* download, and nobody else loads the country meanwhile.  A count that fails
\* opens the gate.  The in-flight set holds exactly the countries that are being
\* loaded, each by one process, as TypeOK says of it.
OnlyMissingLayersFetched ==
  /\ TypeOK
  /\ \A p, q \in Processes : p # q /\ country[p] # NoCountry => country[p] # country[q]
  /\ faults = 0 =>
       \A p \in Processes : /\ pc[p] = "fetchcod" => ~Covered(country[p], COD)
                            /\ pc[p] = "fetchgb" => ~Covered(country[p], COD \union GB)

\* Whatever fails, times out or restarts, no report of a single country loses an
\* area for a less authoritative or a coarser one: a chain that was resolved
\* before another process stored a better one never replaces it.
NoDowngrade == [][\A r \in ReportIds : Rank[chain'[r]] >= Rank[chain[r]]]_vars

Quiet == \A p \in Processes : pc[p] \in {"new", "done"}

\* The loads that bring official areas to the point of r list r afterwards:
\* ReportsInCountry goes by the outlines of the baseline.
Listed(r) == \A a \in areas : a.point = At[r] /\ a.chain \in COD => Outlined(a.of, At[r])

\* "Upgrade ALL the country's reports": without failures, when no goroutine is
\* left, every report has the best area that is loaded, but for the reports whose
\* chain was out of date already when they were inserted (a load may have listed
\* the reports before), and for those in an official area that reaches beyond the
\* outline of its country (no load lists them).  It holds as long as
\* geoBoundaries and COD-AB are not loaded for two countries at once:
\* regeocodeMissing takes reports of any country, and may overwrite a chain that
\* regeocodeCountry has just stored.
AreasUpToDate ==
  Quiet /\ faults = 0 =>
    \A r \in Stored \ late : Listed(r) => chain[r] = Resolve(At[r])
==============================================================================
