--------------------------- MODULE BuildingHistory ---------------------------
(***************************************************************************)
(* What the versioning part of POST /api/v1/reports and the takedown       *)
(* endpoint promise, with every request taken as one indivisible step: the *)
(* rows of `reports`, and the `current_damage` cached on `buildings`.      *)
(* BuildingVersions, which runs the SQL statements one by one with the     *)
(* locks PostgreSQL takes for them, implements this module.                *)
(***************************************************************************)
EXTENDS Naturals, FiniteSets

CONSTANTS
  ReportIds,   \* client-generated report ids; numbers, as `id` orders ties
  Buildings,   \* building footprint ids
  Keys,        \* idempotency keys
  Damages,     \* damage grades
  Drafts,      \* the sets of documents the clients of a behaviour may hold
  NoBuilding,  \* a report whose building_id is NULL
  NoReport,    \* a NULL supersedes_report_id
  NoRow,       \* an id with no row in `reports`
  NoDamage     \* a NULL current_damage, or no row in `buildings`

\* A document as the client queued it: a replay carries the same one.
Doc == [building : Buildings \union {NoBuilding}, key : Keys,
        captured : Nat, damage : Damages]

\* The columns the server computes for a row it inserts.
Row == [version : Nat \ {0}, supersedes : ReportIds \union {NoReport}]

ASSUME ReportIdsAssumption == ReportIds \subseteq Nat /\ IsFiniteSet(ReportIds)
ASSUME DraftsAssumption    == Drafts \subseteq [ReportIds -> Doc]
ASSUME NoBuildingAssumption == NoBuilding \notin Buildings
ASSUME NoReportAssumption   == NoReport \notin ReportIds
ASSUME NoRowAssumption      == NoRow \notin Row

VARIABLES
  doc,      \* doc[r]: the document with id r
  reports,  \* reports[r]: the committed row with id r, or NoRow
  damage,   \* damage[b]: the committed current_damage of building b
  erased    \* the ids some takedown has erased

hvars == <<doc, reports, damage, erased>>

Stored == {r \in ReportIds : reports[r] # NoRow}

\* The rows of building b among the ids of S.
Of(b, S) == {r \in S : doc[r].building = b}

\* ORDER BY captured_at DESC, id DESC: row s comes no earlier than row r.
NoLater(r, s) == \/ doc[r].captured < doc[s].captured
                 \/ doc[r].captured = doc[s].captured /\ r <= s

IsNewest(r, S) == r \in S /\ \A s \in S : NoLater(s, r)

\* The newest id of S, or NULL when the sub-select finds none.
NewestOrNull(n, S) == \/ S = {} /\ n = NoReport
                      \/ IsNewest(n, S)

------------------------------------------------------------------------------

HInit == /\ doc \in Drafts
         /\ reports = [r \in ReportIds |-> NoRow]
         /\ damage = [b \in Buildings |-> NoDamage]
         /\ erased = {}

\* The rows that supersede row r.
ReferringTo(r) == {s \in Stored : reports[s].supersedes = r}

\* Mutant: the references stay.
WithoutUnlinking(r, S) == [reports EXCEPT ![r] = NoRow]

\* The table without row r, the rows of S no longer superseding anything.
Without(r, S) ==
  [s \in ReportIds |->
     CASE s = r -> NoRow
       [] s # r /\ s \in Stored \intersect S -> [reports[s] EXCEPT !.supersedes = NoReport]
       [] OTHER -> reports[s]]

\* The row a building's history accepts next: it supersedes the newest row, and
\* its version exceeds the number of rows, by one unless rows were erased.
NextInLine(row, b) ==
  LET rows == Of(b, Stored) IN
  /\ row \in Row
  /\ NewestOrNull(row.supersedes, rows)
  /\ row.version > Cardinality(rows)
  /\ Of(b, erased) = {} => row.version = Cardinality(rows) + 1

\* A report is accepted.  One that names a building is next in its line, and
\* the building shows the damage of what is now its newest row.
Accept(r) ==
  LET b == doc[r].building IN
  /\ r \notin Stored
  /\ \A s \in Stored : doc[s].key # doc[r].key
  /\ reports' = [reports EXCEPT ![r] = reports'[r]]
  /\ \/ /\ b = NoBuilding
        /\ reports'[r] = [version |-> 1, supersedes |-> NoReport]
        /\ UNCHANGED damage
     \/ /\ b # NoBuilding
        /\ NextInLine(reports'[r], b)
        /\ \E m \in ReportIds : /\ IsNewest(m, Of(b, Stored \union {r}))
                                /\ damage' = [damage EXCEPT ![b] = doc[m].damage]
  /\ UNCHANGED <<doc, erased>>

\* A report is erased, and no row supersedes it any more.
Erase(r) ==
  /\ r \in Stored
  /\ reports' = Without(r, ReferringTo(r))
  /\ erased' = erased \union {r}
  /\ UNCHANGED <<doc, damage>>

HNext == \E r \in ReportIds : Accept(r) \/ Erase(r)

HSpec == HInit /\ [][HNext]_hvars
==============================================================================
