---------------------------- MODULE ReportListing ----------------------------
(***************************************************************************)
(* GET /api/v1/reports page after page.  Every page is a query of its own, *)
(* over the table as it is then, and between two pages reports arrive (in  *)
(* any order of their capture times), are taken down, and come to match    *)
(* the filter or cease to, as analysts decide about them and crises form   *)
(* and close.  A client follows the cursor of the answer, or counts pages. *)
(* The two totals of an answer, read after its page, are left out.         *)
(***************************************************************************)
EXTENDS Integers, FiniteSets

CONSTANTS
  ReportIds,
  CapturedAt, \* CapturedAt[r]: when report r was captured
  PageSize,   \* what the client asks for
  Cap,        \* the largest page
  NoCursor

ASSUME ListingAssumption == /\ ReportIds \subseteq Nat /\ IsFiniteSet(ReportIds)
                            /\ CapturedAt \in [ReportIds -> Int]
                            /\ PageSize \in Nat \ {0} /\ Cap \in Nat \ {0}
                            /\ NoCursor \notin ReportIds

VARIABLES
  row,       \* row[r]: "match" in the list under the filter, "other" or "absent"
  pc,        \* whether the client is in a walk
  mode,      \* what it follows in this walk: "cursor" or "page"
  cursor,    \* the report its cursor names, or NoCursor
  page,      \* the number of the page it asks for
  delivered, \* the reports it has got
  twice,     \* those it has got again
  steady,    \* the reports that matched ever since the walk began
  quiet      \* no report was touched since then

walk == <<pc, mode, cursor, page, delivered, twice>>
vars == <<row, walk, steady, quiet>>

Matching == {r \in ReportIds : row[r] = "match"}

\* ORDER BY captured_at DESC, id DESC.
Before(r, s) == \/ CapturedAt[r] > CapturedAt[s]
                \/ CapturedAt[r] = CapturedAt[s] /\ r > s

Init == /\ row \in [ReportIds -> {"match", "other", "absent"}]
        /\ pc = "idle" /\ mode = "cursor" /\ cursor = NoCursor /\ page = 0
        /\ delivered = {} /\ twice = {} /\ steady = {} /\ quiet = FALSE

------------------------------------------------------------------------------
(* The reports *)

Put(r, state) == /\ row' = [row EXCEPT ![r] = state]
                 /\ steady' = IF state = "match" THEN steady ELSE steady \ {r}
                 /\ quiet' = FALSE
                 /\ UNCHANGED walk

Submit(r, state) == row[r] = "absent" /\ state # "absent" /\ Put(r, state)

WithdrawReport(r) == row[r] # "absent" /\ Put(r, "absent")

\* A verification, or a change of the crisis.
Update(r) == \/ row[r] = "match" /\ Put(r, "other")
             \/ row[r] = "other" /\ Put(r, "match")

------------------------------------------------------------------------------
(* The client and ListReports *)

\* A walk begins; an earlier one may be left unfinished.
Start(m) == /\ pc' = "walk" /\ mode' = m /\ cursor' = NoCursor /\ page' = 0
            /\ delivered' = {} /\ twice' = {} /\ steady' = Matching /\ quiet' = TRUE
            /\ UNCHANGED row

Limit  == IF PageSize > Cap THEN Cap ELSE PageSize

\* Mutant: pages count from one.
OffsetFromOne == (page + 1) * PageSize

Offset == page * PageSize

Ahead(S, r) == {s \in S : Before(s, r)}

\* The first n of S.
First(S, n) == {r \in S : Cardinality(Ahead(S, r)) < n}

\* Get the page items; more says that an answer has a nextCursor.
Answer(items, more) ==
  /\ delivered' = delivered \union items
  /\ twice' = twice \union (items \intersect delivered)
  /\ page' = page + 1
  /\ pc' = IF more THEN "walk" ELSE "done"

\* Mutant: the row of the cursor is read again.
BeyondAndAt == IF cursor = NoCursor THEN Matching
               ELSE {r \in Matching : r = cursor \/ Before(cursor, r)}

\* (captured_at, id) < cursor.
Beyond == IF cursor = NoCursor THEN Matching ELSE {r \in Matching : Before(cursor, r)}

IsLast(r, S) == r \in S /\ \A s \in S : s = r \/ Before(s, r)

\* Mutant: the cursor is of the row that was read to see whether there is more.
NextByCursorPastEnd ==
  /\ pc = "walk" /\ mode = "cursor"
  /\ Answer(First(Beyond, Limit), Cardinality(Beyond) > Limit)
  /\ IF Cardinality(Beyond) > Limit
       THEN \E r \in Beyond : IsLast(r, First(Beyond, Limit + 1)) /\ cursor' = r
       ELSE UNCHANGED cursor
  /\ UNCHANGED <<row, mode, steady, quiet>>

NextByCursor ==
  /\ pc = "walk" /\ mode = "cursor"
  /\ Answer(First(Beyond, Limit), Cardinality(Beyond) > Limit)
  /\ IF Cardinality(Beyond) > Limit
       THEN \E r \in Beyond : IsLast(r, First(Beyond, Limit)) /\ cursor' = r
       ELSE UNCHANGED cursor
  /\ UNCHANGED <<row, mode, steady, quiet>>

NextByPage ==
  /\ pc = "walk" /\ mode = "page"
  /\ Answer(First(Matching, Offset + Limit) \ First(Matching, Offset),
            Cardinality(Matching) > Offset + Limit)
  /\ UNCHANGED <<row, mode, cursor, steady, quiet>>

Next == \/ \E r \in ReportIds : \/ \E state \in {"match", "other"} : Submit(r, state)
                                \/ WithdrawReport(r) \/ Update(r)
        \/ \E m \in {"cursor", "page"} : Start(m)
        \/ NextByCursor \/ NextByPage

Spec == Init /\ [][Next]_vars

------------------------------------------------------------------------------
(* Properties *)

TypeOK ==
  /\ row \in [ReportIds -> {"match", "other", "absent"}]
  /\ pc \in {"idle", "walk", "done"} /\ mode \in {"cursor", "page"}
  /\ cursor \in ReportIds \union {NoCursor}
  /\ page \in Nat
  /\ delivered \subseteq ReportIds /\ twice \subseteq delivered
  /\ steady \subseteq Matching
  /\ quiet \in BOOLEAN

\* Whatever arrives, leaves or changes between the pages, following the cursor
\* delivers no report twice.
EachOnce == mode = "cursor" => twice = {}

\* ... and every report that was in the list all the time.
WalkComplete == mode = "cursor" /\ pc = "done" => steady \subseteq delivered

\* Counting pages, no larger than the cap, delivers each report once when the
\* reports do not change meanwhile.
QuietPagesComplete ==
  mode = "page" /\ pc = "done" /\ quiet /\ PageSize <= Cap => delivered = steady /\ twice = {}

\* The strengthening of EachOnce and WalkComplete: the reports up to the cursor
\* are behind the client, those it has got are among them, and a walk that has
\* no cursor has not got anything.
Behind(r) == r = cursor \/ Before(r, cursor)
CursorInv ==
  mode = "cursor" =>
    /\ twice = {}
    /\ pc = "walk" /\ cursor = NoCursor => delivered = {}
    /\ pc = "walk" /\ cursor # NoCursor =>
         /\ \A r \in delivered : Behind(r)
         /\ \A r \in steady : Behind(r) => r \in delivered
    /\ pc = "done" => steady \subseteq delivered
==============================================================================
