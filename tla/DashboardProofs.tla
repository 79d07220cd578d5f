--------------------------- MODULE DashboardProofs ---------------------------
(***************************************************************************)
(* The reading side.  A walk that follows the cursor delivers no report    *)
(* twice, and delivers every report that was in the list all the time: for *)
(* any set of reports, any capture times and page sizes, and any changes   *)
(* between the pages.  What the pages need of `First` is proved first;     *)
(* then CursorInv is an invariant, with one step for each action.          *)
(* A client that exports, or looks at the overview or the map, leaves the  *)
(* walk of the listing alone and changes nothing in the table: every       *)
(* behaviour of the composition is one of the listing, and what is proved  *)
(* of the listing holds of the composition.                                *)
(*                                                                         *)
(* ExportInv relates what an export has written to the query it runs; the  *)
(* three properties of a file follow from it.  DashInv says that each part *)
(* of an overview or of a map is what its query reads of the reports of    *)
(* some moment since the page was opened; that such parts fit together is  *)
(* then a matter of the aggregates alone: counts by any key add up, a page *)
(* that leaves a report out is full, each building has a latest report.    *)
(***************************************************************************)
EXTENDS Dashboard, FiniteSetTheorems, SequenceTheorems, TLAPS

------------------------------------------------------------------------------
(* A walk along the cursor *)


\* The list is in a total order.
LEMMA BeforeTotal ==
  \A r, s \in ReportIds : r = s \/ Before(r, s) \/ Before(s, r)
BY ListingAssumption DEF Before

LEMMA BeforeIrreflexive == \A r \in ReportIds : ~Before(r, r)
BY ListingAssumption DEF Before

LEMMA BeforeTransitive ==
  \A r, s, t \in ReportIds : Before(r, s) /\ Before(s, t) => Before(r, t)
BY ListingAssumption DEF Before

LEMMA AheadFinite ==
  ASSUME NEW S \in SUBSET ReportIds, NEW r
  PROVE  IsFiniteSet(Ahead(S, r)) /\ Cardinality(Ahead(S, r)) \in Nat
<1>1. IsFiniteSet(ReportIds)
  BY ListingAssumption
<1>2. Ahead(S, r) \subseteq ReportIds
  BY DEF Ahead
<1> QED
  BY <1>1, <1>2, FS_Subset, FS_CardinalityType

\* A page ends where its last row says: what is not on it comes after that row.
LEMMA PageEndsAtLast ==
  ASSUME NEW S \in SUBSET ReportIds, NEW n \in Nat,
         NEW last \in S, IsLast(last, First(S, n)),
         NEW r \in S, r \notin First(S, n)
  PROVE  Before(last, r)
<1>1. last \in First(S, n)
  BY DEF IsLast
<1>2. r # last
  BY <1>1
<1>3. ASSUME Before(r, last) PROVE FALSE
  <2>1. Ahead(S, r) \subseteq Ahead(S, last)
    BY <1>3, BeforeTransitive DEF Ahead
  <2>2. Cardinality(Ahead(S, r)) <= Cardinality(Ahead(S, last))
    BY <2>1, AheadFinite, FS_Subset
  <2>3. Cardinality(Ahead(S, last)) < n
    BY <1>1 DEF First
  <2>4. Cardinality(Ahead(S, r)) < n
    BY <2>2, <2>3, AheadFinite
  <2> QED
    BY <2>4 DEF First
<1> QED
  BY <1>2, <1>3, BeforeTotal

\* A list that fits on a page is on it.
LEMMA PageHoldsAll ==
  ASSUME NEW S \in SUBSET ReportIds, NEW n \in Nat, ~(Cardinality(S) > n)
  PROVE  First(S, n) = S
<1>1. IsFiniteSet(S) /\ Cardinality(S) \in Nat
  BY ListingAssumption, FS_Subset, FS_CardinalityType
<1>2. ASSUME NEW r \in S PROVE Cardinality(Ahead(S, r)) < n
  <2>1. Ahead(S, r) \subseteq S /\ Ahead(S, r) # S
    BY BeforeIrreflexive DEF Ahead
  <2>2. /\ Cardinality(Ahead(S, r)) <= Cardinality(S)
        /\ Cardinality(S) # Cardinality(Ahead(S, r))
    BY <1>1, <2>1, FS_Subset
  <2> QED
    BY <1>1, <2>2, AheadFinite
<1> QED
  BY <1>2 DEF First

------------------------------------------------------------------------------

\* The types of the variables; a report got twice was got, and one that was in
\* the list all the time is in it.
THEOREM TypeCorrect == Spec => []TypeOK
<1>1. Init => TypeOK
  <2> SUFFICES ASSUME Init PROVE TypeOK
    OBVIOUS
  <2>1. /\ row \in [ReportIds -> {"match", "other", "absent"}]
        /\ page \in Nat
    BY DEF Init
  <2>2. quiet \in BOOLEAN
    BY Zenon DEF Init
  <2> QED
    BY <2>1, <2>2 DEF Init, TypeOK
<1>2. TypeOK /\ [Next]_vars => TypeOK'
  <2> SUFFICES ASSUME TypeOK, [Next]_vars PROVE TypeOK'
    OBVIOUS
  <2>1. ASSUME NEW r \in ReportIds, NEW state \in {"match", "other", "absent"},
               row[r] # state, Put(r, state)
        PROVE  TypeOK'
    <3>1. steady' \subseteq Matching'
      BY <2>1 DEF TypeOK, Put, Matching
    <3>2. row' \in [ReportIds -> {"match", "other", "absent"}]
      BY <2>1 DEF TypeOK, Put
    <3>3. quiet' \in BOOLEAN
      BY <2>1, Zenon DEF Put
    <3> QED
      BY <2>1, <3>1, <3>2, <3>3 DEF TypeOK, Put, walk
  <2>2. ASSUME NEW r \in ReportIds, \/ \E state \in {"match", "other"} : Submit(r, state)
                                    \/ WithdrawReport(r) \/ Update(r)
        PROVE  TypeOK'
    BY <2>1, <2>2 DEF Submit, WithdrawReport, Update
  <2>3. ASSUME NEW m \in {"cursor", "page"}, Start(m) PROVE TypeOK'
    BY <2>3 DEF TypeOK, Start, Matching
  <2>4. CASE NextByCursor
    <3>1. First(Beyond, Limit) \subseteq ReportIds
      BY DEF First, Beyond, Matching
    <3>2. /\ delivered' \subseteq ReportIds /\ twice' \subseteq delivered'
          /\ page' \in Nat /\ pc' \in {"idle", "walk", "done"}
      BY <2>4, <3>1 DEF TypeOK, NextByCursor, Answer
    <3>3. cursor' \in ReportIds \union {NoCursor}
      BY <2>4 DEF TypeOK, NextByCursor, Beyond, Matching
    <3> QED
      BY <2>4, <3>2, <3>3 DEF TypeOK, NextByCursor, Matching
  <2>5. CASE NextByPage
    BY <2>5 DEF TypeOK, NextByPage, Answer, First, Matching
  <2>6. CASE UNCHANGED vars
    BY <2>6 DEF TypeOK, vars, walk, Matching
  <2> QED
    BY <2>2, <2>3, <2>4, <2>5, <2>6 DEF Next
<1> QED
  BY <1>1, <1>2, PTL DEF Spec

------------------------------------------------------------------------------

LEMMA LimitNat == Limit \in Nat
BY ListingAssumption DEF Limit

\* The reports touch what was steady and nothing of the walk.
LEMMA PutKeepsCursorInv ==
  ASSUME CursorInv, NEW r, NEW state, Put(r, state)
  PROVE  CursorInv'
BY DEF CursorInv, Put, walk, Behind

\* A page starts where the last one ended: none of it was delivered before, and
\* what it delivers and what was behind the client is what is behind it now.
LEMMA PageKeepsCursorInv ==
  ASSUME TypeOK, CursorInv, NextByCursor
  PROVE  CursorInv'
<1> DEFINE items == First(Beyond, Limit)
<1>1. Beyond \in SUBSET ReportIds /\ items \subseteq Beyond
  BY DEF Beyond, Matching, First
<1>2. /\ pc = "walk" /\ mode = "cursor" /\ mode' = mode /\ steady' = steady
      /\ delivered' = delivered \union items
      /\ twice' = twice \union (items \intersect delivered)
  BY DEF NextByCursor, Answer
<1>3. items \intersect delivered = {}
  <2>1. CASE cursor = NoCursor
    BY <1>2, <2>1 DEF CursorInv
  <2>2. CASE cursor # NoCursor
    <3> SUFFICES ASSUME NEW r \in items, r \in delivered PROVE FALSE
      OBVIOUS
    <3>1. cursor \in ReportIds /\ r \in ReportIds /\ Before(cursor, r)
      BY <1>1, <2>2 DEF TypeOK, Beyond, First
    <3>2. r = cursor \/ Before(r, cursor)
      BY <1>2, <2>2 DEF CursorInv, Behind
    <3> QED
      BY <3>1, <3>2, BeforeIrreflexive, BeforeTransitive
  <2> QED
    BY <2>1, <2>2
<1>4. twice' = {}
  BY <1>2, <1>3 DEF CursorInv
\* Every steady report is in what is left of the list, or was delivered.
<1>5. \A r \in steady : r \in Beyond \/ r \in delivered
  <2>1. CASE cursor = NoCursor
    BY <2>1 DEF TypeOK, Beyond
  <2>2. CASE cursor # NoCursor
    BY <1>2, <2>2, BeforeTotal DEF TypeOK, Beyond, Matching, CursorInv, Behind
  <2> QED
    BY <2>1, <2>2
<1>6. CASE Cardinality(Beyond) > Limit
  <2>1. PICK last \in Beyond : IsLast(last, items) /\ cursor' = last
    BY <1>6 DEF NextByCursor
  <2>2. pc' = "walk" /\ cursor' \in ReportIds /\ cursor' # NoCursor
    BY <1>1, <1>6, <2>1, ListingAssumption DEF NextByCursor, Answer
  <2>3. ASSUME NEW r \in delivered' PROVE Behind(r)'
    <3>1. CASE r \in items
      BY <2>1, <3>1 DEF IsLast, Behind, Before
    <3>2. CASE r \in delivered
      <4>1. cursor # NoCursor /\ cursor \in ReportIds
        BY <1>2, <3>2 DEF CursorInv, TypeOK
      <4>2. r = cursor \/ Before(r, cursor)
        BY <1>2, <3>2, <4>1 DEF CursorInv, Behind
      <4>3. Before(cursor, last)
        BY <2>1, <4>1 DEF Beyond
      <4>4. r \in ReportIds /\ last \in ReportIds
        BY <1>1, <2>1, <3>2 DEF TypeOK
      <4>5. Before(r, last)
        BY <4>1, <4>2, <4>3, <4>4, BeforeTransitive
      <4> QED
        BY <2>1, <4>5 DEF Behind, Before
    <3> QED
      BY <1>2, <2>3, <3>1, <3>2
  <2>4. ASSUME NEW r \in steady', Behind(r)' PROVE r \in delivered'
    <3>1. r = last \/ Before(r, last)
      BY <2>1, <2>4 DEF Behind, Before
    <3>2. CASE r \in Beyond /\ r \notin items
      <4>1. Before(last, r)
        BY <1>1, <2>1, <3>2, LimitNat, PageEndsAtLast
      <4> QED
        BY <1>1, <2>1, <3>1, <3>2, <4>1, BeforeIrreflexive, BeforeTransitive
    <3> QED
      BY <1>2, <1>5, <2>4, <3>2
  <2> QED
    BY <1>2, <1>4, <2>2, <2>3, <2>4 DEF CursorInv
<1>7. CASE ~(Cardinality(Beyond) > Limit)
  <2>1. items = Beyond
    BY <1>1, <1>7, LimitNat, PageHoldsAll
  <2>2. pc' = "done" /\ steady' \subseteq delivered'
    BY <1>2, <1>5, <1>7, <2>1 DEF NextByCursor, Answer
  <2> QED
    BY <1>2, <1>4, <2>2 DEF CursorInv
<1> QED
  BY <1>6, <1>7

\* What a client that follows the cursor is behind, it has got exactly once.
THEOREM CursorInvariant == Spec => []CursorInv
<1>1. Init => CursorInv
  BY DEF Init, CursorInv
<1>2. TypeOK /\ CursorInv /\ [Next]_vars => CursorInv'
  <2> SUFFICES ASSUME TypeOK, CursorInv, [Next]_vars PROVE CursorInv'
    OBVIOUS
  <2>1. ASSUME NEW r \in ReportIds, \/ \E state \in {"match", "other"} : Submit(r, state)
                                    \/ WithdrawReport(r) \/ Update(r)
        PROVE  CursorInv'
    BY <2>1, PutKeepsCursorInv DEF Submit, WithdrawReport, Update
  <2>2. ASSUME NEW m \in {"cursor", "page"}, Start(m) PROVE CursorInv'
    BY <2>2 DEF CursorInv, Start
  <2>3. CASE NextByCursor
    BY <2>3, PageKeepsCursorInv
  <2>4. CASE NextByPage
    BY <2>4 DEF CursorInv, NextByPage
  <2>5. CASE UNCHANGED vars
    BY <2>5 DEF CursorInv, vars, walk, Behind
  <2> QED
    BY <2>1, <2>2, <2>3, <2>4, <2>5 DEF Next
<1> QED
  BY <1>1, <1>2, TypeCorrect, PTL DEF Spec

\* Following the cursor delivers no report twice.
THEOREM EachOnceAlways == Spec => []EachOnce
<1>1. CursorInv => EachOnce
  BY DEF CursorInv, EachOnce
<1> QED
  BY <1>1, CursorInvariant, PTL

\* A walk along the cursor that has ended delivered every report that was in the
\* list from its beginning.
THEOREM WalkCompleteAlways == Spec => []WalkComplete
<1>1. CursorInv => WalkComplete
  BY DEF CursorInv, WalkComplete
<1> QED
  BY <1>1, CursorInvariant, PTL

------------------------------------------------------------------------------
(* Pages by number *)

\* The strengthening of QuietPagesComplete: as long as nothing was touched, the
\* client has got the list up to the page it asks for, or all of it.
PagesInv ==
  mode = "page" /\ quiet /\ PageSize <= Cap =>
    /\ steady = Matching /\ twice = {}
    /\ pc = "walk" => delivered = First(Matching, Offset)
    /\ pc = "done" => delivered = Matching

\* What a page adds to what lies in front of it.
LEMMA PageAdds ==
  ASSUME NEW S \in SUBSET ReportIds, NEW m \in Nat, NEW n \in Nat
  PROVE  First(S, m) \union (First(S, m + n) \ First(S, m)) = First(S, m + n)
<1>1. ASSUME NEW r \in First(S, m)
      PROVE  r \in First(S, m + n)
  <2>1. r \in S /\ Cardinality(Ahead(S, r)) < m /\ Cardinality(Ahead(S, r)) \in Nat
    BY AheadFinite DEF First
  <2> QED
    BY <2>1 DEF First
<1> QED
  BY <1>1

LEMMA NothingFirst == ASSUME NEW S \in SUBSET ReportIds PROVE First(S, 0) = {}
<1>1. ASSUME NEW r \in First(S, 0) PROVE FALSE
  <2>1. Cardinality(Ahead(S, r)) \in Nat
    BY AheadFinite
  <2>2. Cardinality(Ahead(S, r)) < 0
    BY DEF First
  <2> QED
    BY <2>1, <2>2
<1> QED
  BY <1>1

LEMMA PageKeepsPagesInv ==
  ASSUME TypeOK, PagesInv, NextByPage
  PROVE  PagesInv'
<1> SUFFICES ASSUME quiet, PageSize <= Cap
             PROVE  /\ steady' = Matching' /\ twice' = {}
                    /\ pc' = "walk" => delivered' = First(Matching, Offset)'
                    /\ pc' = "done" => delivered' = Matching'
  BY DEF PagesInv, NextByPage
<1>1. /\ mode = "page" /\ pc = "walk" /\ Matching' = Matching /\ steady' = steady
      /\ steady = Matching /\ twice = {} /\ delivered = First(Matching, Offset)
  BY DEF PagesInv, NextByPage, Matching
<1>2. Matching \in SUBSET ReportIds
  BY DEF Matching
<1>3. /\ Offset \in Nat /\ Limit \in Nat /\ Offset + Limit \in Nat
      /\ Offset' = Offset + Limit
  <2>1. page \in Nat /\ PageSize \in Nat /\ page' = page + 1 /\ Limit = PageSize
    BY ListingAssumption DEF TypeOK, NextByPage, Answer, Limit
  <2>2. page * PageSize \in Nat /\ (page + 1) * PageSize = page * PageSize + PageSize
    BY <2>1
  <2> QED
    BY <2>1, <2>2 DEF Offset
<1> DEFINE items == First(Matching, Offset + Limit) \ First(Matching, Offset)
<1>4. /\ delivered' = delivered \union items
      /\ twice' = twice \union (items \intersect delivered)
      /\ pc' = IF Cardinality(Matching) > Offset + Limit THEN "walk" ELSE "done"
  BY DEF NextByPage, Answer
<1>5. twice' = {}
  BY <1>1, <1>4
<1>6. delivered' = First(Matching, Offset + Limit)
  BY <1>1, <1>2, <1>3, <1>4, PageAdds
<1>7. First(Matching, Offset)' = First(Matching, Offset + Limit)
  BY <1>1, <1>3 DEF First, Ahead, Before
<1>8. ASSUME pc' = "done" PROVE delivered' = Matching
  <2>1. ~(Cardinality(Matching) > Offset + Limit)
    BY <1>4, <1>8
  <2> QED
    BY <1>2, <1>3, <1>6, <2>1, PageHoldsAll
<1> QED
  BY <1>1, <1>5, <1>6, <1>7, <1>8

\* A client that counts pages has got, as long as no report is touched, the list
\* up to its page.
THEOREM PagesInvariant == Spec => []PagesInv
<1>1. Init => PagesInv
  BY DEF Init, PagesInv
<1>2. TypeOK /\ PagesInv /\ [Next]_vars => PagesInv'
  <2> SUFFICES ASSUME TypeOK, PagesInv, [Next]_vars PROVE PagesInv'
    OBVIOUS
  <2>1. ASSUME NEW r \in ReportIds, \/ \E state \in {"match", "other"} : Submit(r, state)
                                    \/ WithdrawReport(r) \/ Update(r)
        PROVE  PagesInv'
    BY <2>1 DEF Submit, WithdrawReport, Update, Put, PagesInv
  <2>2. ASSUME NEW m \in {"cursor", "page"}, Start(m) PROVE PagesInv'
    <3>1. /\ Matching' = Matching /\ steady' = Matching /\ twice' = {} /\ delivered' = {}
          /\ pc' = "walk" /\ page' = 0
      BY <2>2 DEF Start, Matching
    <3>2. Offset' = 0
      BY <3>1, ListingAssumption DEF Offset
    <3>3. First(Matching, Offset)' = First(Matching, 0)
      BY <3>1, <3>2 DEF First, Ahead, Before
    <3>4. First(Matching, 0) = {}
      BY NothingFirst DEF Matching
    <3> QED
      BY <3>1, <3>3, <3>4 DEF PagesInv
  <2>3. CASE NextByCursor
    BY <2>3 DEF PagesInv, NextByCursor
  <2>4. CASE NextByPage
    BY <2>4, PageKeepsPagesInv
  <2>5. CASE UNCHANGED vars
    BY <2>5 DEF PagesInv, vars, walk, Matching, First, Ahead, Before, Offset
  <2> QED
    BY <2>1, <2>2, <2>3, <2>4, <2>5 DEF Next
<1> QED
  BY <1>1, <1>2, TypeCorrect, PTL DEF Spec

\* Counting pages no larger than the cap delivers each report once when no report
\* is touched meanwhile.
THEOREM QuietPagesCompleteAlways == Spec => []QuietPagesComplete
<1>1. PagesInv => QuietPagesComplete
  BY DEF PagesInv, QuietPagesComplete
<1> QED
  BY <1>1, PagesInvariant, PTL

------------------------------------------------------------------------------
(* Exports, the overview and the map beside a walk *)


LEMMA MinOfTwo ==
  ASSUME NEW a \in Int, NEW b \in Int PROVE Min({a, b}) = IF a <= b THEN a ELSE b
BY DEF Min

LEMMA MaxOfTwo ==
  ASSUME NEW a \in Int, NEW b \in Int PROVE Max({a, b}) = IF a >= b THEN a ELSE b
BY DEF Max

\* Whenever a report was captured, before the chart begins or in the future, and
\* however old the crisis is: its bucket is one of the chart, and the chart has 12,
\* or between 7 and 30.
THEOREM BucketInChart ==
  ASSUME NEW r \in ReportIds, NEW now \in Int, NEW age \in Int
  PROVE  /\ Buckets(age) \in 7 .. 30
         /\ Bucket(r, now, age) \in 0 .. Buckets(age) - 1
<1>1. CapturedAt[r] \in Int
  BY ListingAssumption
<1>2. Ceil(age, 24) \in Int
  BY DEF Ceil
<1>3. Buckets(age) \in 7 .. 30
  <2> DEFINE days == Max({7, Ceil(age, 24)})
  <2>1. days \in Int /\ days >= 7
    BY <1>2, MaxOfTwo
  <2> HIDE DEF days
  <2>2. Min({30, days}) \in 7 .. 30
    BY <2>1, MinOfTwo
  <2> QED
    BY <2>2 DEF Buckets, days
<1>4. Max({0, now - CapturedAt[r]}) \in Nat
  BY <1>1, MaxOfTwo
<1>5. Max({0, now - CapturedAt[r]}) \div Width(age) \in Nat
  BY <1>4 DEF Width
<1> QED
  BY <1>3, <1>5, MinOfTwo DEF Bucket

\* What a client does on an export or a page is a stutter of the listing.
LEMMA ReadsKeepListing == ReadsNext => [Next]_vars
<1> SUFFICES ASSUME ReadsNext PROVE [Next]_vars
  OBVIOUS
<1>1. ASSUME NEW r \in ReportIds, \/ \E state \in {"match", "other"} : Submit(r, state)
                                  \/ WithdrawReport(r) \/ Update(r)
      PROVE  Next
  BY <1>1 DEF Next
<1>2. CASE (\E m \in {"cursor", "page"} : Start(m)) \/ NextByCursor \/ NextByPage
  BY <1>2 DEF Next
<1>3. CASE UNCHANGED vars
  BY <1>3
<1> QED
  BY <1>1, <1>2, <1>3 DEF ReadsNext

LEMMA PagesKeepListing == PageNext => UNCHANGED vars
BY DEF PageNext, StatsCounts, AreaGroups, TimeSeries, Recent, LatestPerBuilding, MapTileMVT,
       BuildingTimeline, Leave, Open, Read, Draw, readVars

LEMMA DisturbKeepsListing == Disturb => Next
BY DEF Disturb, Next

\* Exports, the overview and the map refine the listing: whatever they do, its rows
\* change and its pages are read as ReportListing says.
THEOREM DashKeepsListing == DashSpec => Spec
<1>1. DashInit => Init
  BY DEF DashInit, ReadsInit
<1>2. [DashNext]_dashVars => [Next]_vars
  <2>1. UNCHANGED dashVars => UNCHANGED vars
    BY DEF dashVars, readVars
  <2> QED
    BY <2>1, ReadsKeepListing, PagesKeepListing, DisturbKeepsListing DEF DashNext
<1> QED
  BY <1>1, <1>2, PTL DEF DashSpec, Spec

\* Beside exports and pages too, the cursor delivers no report twice.
THEOREM DashEachOnce == DashSpec => []EachOnce
BY DashKeepsListing, EachOnceAlways, PTL

\* Beside exports and pages too, a walk along the cursor that has ended delivered
\* every report that stayed in the list.
THEOREM DashWalkComplete == DashSpec => []WalkComplete
BY DashKeepsListing, WalkCompleteAlways, PTL

\* And counting pages delivers each report once when no report is touched.
THEOREM DashQuietPagesComplete == DashSpec => []QuietPagesComplete
BY DashKeepsListing, QuietPagesCompleteAlways, PTL

------------------------------------------------------------------------------
(* Exports *)

\* What every step of the composition is to an export.
LEMMA ExportSteps ==
  ASSUME [DashNext]_dashVars
  PROVE  ExportNext \/ UNCHANGED export
<1>1. ReadsNext => ExportNext \/ UNCHANGED export
  BY DEF ReadsNext
<1>2. Disturb \/ UNCHANGED dashVars => UNCHANGED export
  BY DEF Disturb, dashVars, readVars
<1>3. PageNext => UNCHANGED export
  BY DEF PageNext, StatsCounts, AreaGroups, TimeSeries, Recent, LatestPerBuilding, MapTileMVT,
         BuildingTimeline, Leave, Open, Read, Draw, readVars
<1> QED
  BY <1>1, <1>2, <1>3 DEF DashNext

Boxes   == (-180 .. 180) \X (-180 .. 180)
Named   == {Column(k) : k \in RawKeys}

ExportTypes ==
  /\ step \in {"idle", "columns", "temp", "query", "rows", "copy", "done"}
  /\ format \in Formats
  /\ known \subseteq ReportIds /\ todo \subseteq moment /\ moment \subseteq ReportIds
  /\ columns \subseteq Named
  /\ body \in Seq(ReportIds) /\ index \in Seq(Nat)
  /\ box \in Boxes
  /\ temps \subseteq {"gpkg", "shp", "shx", "dbf"}
  /\ status \in {0, 200, 500} /\ whole \in BOOLEAN

\* Which steps an export of a format comes to, and what it has done by then.
PhaseInv ==
  /\ step = "idle" => known = {} /\ columns = {}
  /\ step \in {"idle", "columns", "temp", "query"} =>
       moment = {} /\ todo = {} /\ body = <<>> /\ index = <<>>
  /\ step = "columns" => format \in {"csv", "gpkg"}
  /\ step \in {"temp", "copy"} => format \in Containers
  /\ whole => step = "done"
  /\ step = "copy" \/ whole => todo = {}
  /\ step \in {"columns", "temp", "query", "rows", "copy"} /\ format \in Containers => status = 0
  /\ step = "done" /\ format \in Containers /\ status = 200 => todo = {}
  /\ step = "idle" => status = 0
  /\ step \in {"idle", "done"} => temps = {}

\* The rows written are those of the moment up to where the query is.
RowsInv ==
  step \in {"rows", "copy"} \/ whole =>
    /\ ToSet(body) = {r \in moment \ todo : ~Skipped(r)}
    /\ \A i, j \in DOMAIN body : i < j => Before(body[i], body[j])
    /\ \A r \in todo : \A s \in moment \ todo : Before(s, r)

\* The index and the box are those of the rows written.
MembersInv ==
  step = "rows" /\ format \in Containers =>
    /\ format = "shapefile" => index = [i \in DOMAIN body |-> 50 + (i - 1) * 14]
    /\ IF Placed = {}
         THEN /\ format = "shapefile" => body = <<>>
              /\ format = "gpkg" => box = <<180, -180>>
         ELSE /\ box[1] \in Placed /\ box[2] \in Placed
              /\ \A x \in Placed : box[1] <= x /\ x <= box[2]

BoxBeforeRows == step = "query" /\ format = "gpkg" => box = <<180, -180>>

\* The columns of a file have room for every answer of the reports they were
\* read from.
KeysInv ==
  /\ format \in {"csv", "gpkg"} =>
       \A r \in known : Flat(r) \subseteq columns \union Stable \union Fixed[format]
  /\ format = "gpkg" => columns \intersect (Reserved \union Stable \union Fixed["gpkg"]) = {}

ExportInv == /\ ExportTypes /\ PhaseInv /\ RowsInv
             /\ MembersInv /\ BoxBeforeRows /\ MembersAgree /\ KeysInv

LEMMA SkippedSame == ASSUME format' = format PROVE \A r : Skipped(r)' = Skipped(r)
BY DEF Skipped

LEMMA FlatSame == \A r : Flat(r)' = Flat(r)
BY DEF Flat, Column, Safe

LEMMA ExportUnchanged ==
  ASSUME ExportInv, UNCHANGED export
  PROVE  ExportInv'
<1>1. /\ UNCHANGED <<step, format, known, columns, moment, todo, body, index, box>>
      /\ UNCHANGED <<temps, status, whole>>
  BY DEF export, file
<1>2. ToSet(body)' = ToSet(body) /\ Placed' = Placed
  BY <1>1 DEF Placed, ToSet
<1>3. ExportTypes' /\ PhaseInv'
  BY <1>1 DEF ExportInv, ExportTypes, PhaseInv
<1>4. RowsInv'
  BY <1>1, <1>2 DEF ExportInv, RowsInv, Skipped, Before
<1>5. MembersInv' /\ BoxBeforeRows' /\ MembersAgree'
  BY <1>1, <1>2 DEF ExportInv, MembersInv, BoxBeforeRows, MembersAgree
<1>6. KeysInv'
  BY <1>1, FlatSame DEF ExportInv, KeysInv
<1> QED
  BY <1>3, <1>4, <1>5, <1>6 DEF ExportInv

\* A step that leaves the rows alone, and does not reach them.
LEMMA AwayFromRows ==
  ASSUME ExportInv, ExportTypes', PhaseInv', KeysInv',
         step' \notin {"rows", "copy"}, ~whole',
         step' = "query" /\ format' = "gpkg" => box' = <<180, -180>>
  PROVE  ExportInv'
BY DEF ExportInv, RowsInv, MembersInv, BoxBeforeRows, MembersAgree

LEMMA EmptyBoxes == <<0, 0>> \in Boxes /\ <<180, -180>> \in Boxes
BY DEF Boxes

LEMMA ExportReportsKeeps ==
  ASSUME ExportInv, NEW f \in Formats, ExportReports(f)
  PROVE  ExportInv'
<1>1. /\ step' \in {"query", "columns", "temp"} /\ format' = f
      /\ f \in {"geojson", "kml"} <=> step' = "query"
      /\ f \in {"csv", "gpkg"} <=> step' = "columns"
      /\ f = "shapefile" <=> step' = "temp"
      /\ status' \in {0, 200}
      /\ f \in Containers => status' = 0
  BY DEF ExportReports, Formats, Containers
<1>2. /\ UNCHANGED <<known, columns, moment, todo, body, index, box, temps, whole>>
      /\ step = "idle" /\ known = {} /\ columns = {} /\ moment = {} /\ todo = {}
      /\ body = <<>> /\ index = <<>> /\ ~whole
  BY DEF ExportReports, file, ExportInv, PhaseInv
<1>3. ExportTypes'
  <2>1. ExportTypes
    BY DEF ExportInv
  <2> QED
    BY <1>1, <1>2, <2>1 DEF ExportTypes
<1>4. PhaseInv'
  BY <1>1, <1>2 DEF PhaseInv, Containers
<1>5. KeysInv'
  BY <1>2 DEF KeysInv
<1>6. ~(step' = "query" /\ format' = "gpkg")
  BY <1>1
<1> QED
  BY <1>1, <1>2, <1>3, <1>4, <1>5, <1>6, AwayFromRows

LEMMA ModularKeysRawKeeps ==
  ASSUME ExportInv, ModularKeysRaw
  PROVE  ExportInv'
<1>1. /\ step = "columns" /\ UNCHANGED <<format, moment, todo, body, index, box, whole>>
      /\ step' \in {"query", "temp", "done"} /\ ~whole
      /\ format \in {"csv", "gpkg"} /\ format \in Formats
  BY DEF ModularKeysRaw, End, ExportInv, PhaseInv, ExportTypes
<1>2. ASSUME known' = Matching,
             columns' = ExtraColumns(UNION {Keys[r] : r \in Matching}, format)
      PROVE  /\ known' \subseteq ReportIds
             /\ columns' \subseteq Named
             /\ KeysInv'
  <2> DEFINE ks == UNION {Keys[r] : r \in Matching}
  <2>1. Matching \subseteq ReportIds /\ ks \subseteq RawKeys
    BY DEF Matching, RawKeys
  <2>2. columns' = {Column(k) : k \in Safe(ks)} \ (Fixed[format] \union Stable)
    BY <1>2 DEF ExtraColumns
  <2>3. Safe(ks) \subseteq ks
    BY DEF Safe
  <2>4. columns' \subseteq Named
    BY <2>1, <2>2, <2>3 DEF Named
  <2>5. \A k \in RawKeys : Column(k) \notin Reserved
    BY ExportAssumption DEF Column
  <2>6. columns' \intersect (Reserved \union Stable \union Fixed[format]) = {}
    BY <2>2, <2>4, <2>5 DEF Named
  <2>7. ASSUME NEW r \in Matching
        PROVE  Flat(r) \subseteq columns' \union Stable \union Fixed[format]
    <3>1. Safe(Keys[r]) \subseteq Safe(ks)
      BY DEF Safe
    <3>2. Flat(r) \subseteq {Column(k) : k \in Safe(ks)}
      BY <3>1 DEF Flat
    <3> QED
      BY <2>2, <3>2
  <2> HIDE DEF ks
  <2>8. KeysInv'
    BY <1>1, <1>2, <2>6, <2>7, FlatSame DEF KeysInv
  <2> QED
    BY <1>2, <2>1, <2>4, <2>8
<1>3. /\ known' \subseteq ReportIds
      /\ columns' \subseteq Named
      /\ KeysInv'
  <2>1. CASE UNCHANGED <<known, columns>>
    BY <1>1, <2>1, FlatSame DEF ExportInv, ExportTypes, KeysInv
  <2> QED
    BY <1>2, <2>1 DEF ModularKeysRaw
<1>4. ExportTypes'
  <2>1. ExportTypes
    BY DEF ExportInv
  <2>2. status' \in {status, 200, 500} /\ temps' \in {temps, {}}
    BY DEF ModularKeysRaw, End
  <2> QED
    BY <1>1, <1>3, <2>1, <2>2 DEF ExportTypes
<1>5. PhaseInv'
  BY <1>1 DEF ModularKeysRaw, End, ExportInv, PhaseInv, Containers
<1>6. ~(step' = "query" /\ format' = "gpkg")
  BY <1>1 DEF ModularKeysRaw, End
<1> QED
  BY <1>1, <1>3, <1>4, <1>5, <1>6, AwayFromRows

LEMMA CreateTempKeeps ==
  ASSUME ExportInv, CreateTemp
  PROVE  ExportInv'
<1>1. /\ step = "temp" /\ ~whole /\ step' \in {"query", "done"}
      /\ UNCHANGED <<format, known, columns, moment, todo, body, index, whole>>
      /\ temps' \subseteq {"gpkg", "shp", "shx", "dbf"}
  BY DEF CreateTemp, End, ExportInv, PhaseInv, TempFiles
<1>2. box' \in Boxes
  <2>1. box' = <<180, -180>> \/ box' = <<0, 0>> \/ box' = box
    BY DEF CreateTemp
  <2>2. box \in Boxes
    BY DEF ExportInv, ExportTypes
  <2> QED
    BY <2>1, <2>2, EmptyBoxes
<1>3. ExportTypes'
  BY <1>1, <1>2 DEF CreateTemp, End, ExportInv, ExportTypes
<1>4. PhaseInv'
  BY <1>1 DEF CreateTemp, End, ExportInv, PhaseInv
<1>5. KeysInv'
  BY <1>1, FlatSame DEF ExportInv, KeysInv
<1>6. step' = "query" /\ format' = "gpkg" => box' = <<180, -180>>
  BY <1>1 DEF CreateTemp, End
<1> QED
  BY <1>1, <1>3, <1>4, <1>5, <1>6, AwayFromRows

LEMMA AbortKeeps ==
  ASSUME ExportInv, Abort
  PROVE  ExportInv'
<1>1. /\ step \in {"query", "rows"} /\ ~whole /\ step' = "done" /\ temps' = {}
      /\ UNCHANGED <<format, known, columns, moment, todo, index, box, whole>>
      /\ status' = IF format \in Containers THEN 500 ELSE status
  BY DEF Abort, End, ExportInv, PhaseInv
<1>2. body' \in Seq(ReportIds)
  BY SubSeqProperties DEF Abort, ExportInv, ExportTypes
<1>3. ExportTypes'
  BY <1>1, <1>2 DEF ExportInv, ExportTypes
<1>4. PhaseInv'
  BY <1>1 DEF ExportInv, PhaseInv
<1>5. KeysInv'
  BY <1>1, FlatSame DEF ExportInv, KeysInv
<1> QED
  BY <1>1, <1>3, <1>4, <1>5, AwayFromRows

LEMMA ExportEachKeeps ==
  ASSUME ExportInv, ExportEach
  PROVE  ExportInv'
<1>1. /\ step = "query" /\ step' = "rows" /\ ~whole /\ body = <<>> /\ index = <<>>
      /\ moment' = Matching /\ todo' = Matching
      /\ UNCHANGED <<format, known, columns, body, index, box, temps, status, whole>>
  BY DEF ExportEach, ExportInv, PhaseInv
<1>2. ExportTypes'
  BY <1>1 DEF ExportInv, ExportTypes, Matching
<1>3. PhaseInv'
  BY <1>1 DEF ExportInv, PhaseInv
<1>4. ToSet(body)' = {} /\ Placed' = {} /\ DOMAIN body' = {}
  BY <1>1 DEF ToSet, Placed
<1>5. RowsInv'
  BY <1>1, <1>4 DEF RowsInv
<1>6. MembersInv'
  BY <1>1, <1>4 DEF MembersInv, ExportInv, BoxBeforeRows
<1>7. KeysInv'
  BY <1>1, FlatSame DEF ExportInv, KeysInv
<1> QED
  BY <1>1, <1>2, <1>3, <1>5, <1>6, <1>7 DEF ExportInv, BoxBeforeRows, MembersAgree

LEMMA CloseKeeps ==
  ASSUME ExportInv, Close
  PROVE  ExportInv'
<1>1. ExportTypes' /\ PhaseInv'
  <2>1. box' \in Boxes /\ body' \in Seq(ReportIds) /\ index' \in Seq(Nat)
    BY EmptyBoxes DEF Close
  <2>2. ExportTypes'
    BY <2>1 DEF Close, ExportTypes, Formats
  <2>3. PhaseInv'
    BY DEF Close, PhaseInv, Containers
  <2> QED
    BY <2>2, <2>3
<1>2. KeysInv'
  BY DEF Close, KeysInv
<1> QED
  BY <1>1, <1>2, AwayFromRows DEF Close


\* What a further report is to the rows that are written.
LEMMA ToSetAppend ==
  ASSUME NEW S, NEW s \in Seq(S), NEW e \in S
  PROVE  ToSet(Append(s, e)) = ToSet(s) \union {e}
<1>1. /\ Len(Append(s, e)) = Len(s) + 1 /\ Len(s) \in Nat
      /\ DOMAIN s = 1 .. Len(s) /\ DOMAIN Append(s, e) = 1 .. Len(s) + 1
      /\ Append(s, e)[Len(s) + 1] = e
      /\ \A i \in 1 .. Len(s) : Append(s, e)[i] = s[i]
  BY AppendProperties, LenProperties
<1>2. ASSUME NEW x \in ToSet(Append(s, e)) PROVE x \in ToSet(s) \union {e}
  <2>1. PICK i \in 1 .. Len(s) + 1 : x = Append(s, e)[i]
    BY <1>1 DEF ToSet
  <2>2. i \in 1 .. Len(s) \/ i = Len(s) + 1
    BY <1>1
  <2> QED
    BY <1>1, <2>1, <2>2 DEF ToSet
<1>3. ASSUME NEW x \in ToSet(s) PROVE x \in ToSet(Append(s, e))
  <2>1. PICK i \in 1 .. Len(s) : x = s[i]
    BY <1>1 DEF ToSet
  <2>2. i \in 1 .. Len(s) + 1 /\ x = Append(s, e)[i]
    BY <1>1, <2>1
  <2> QED
    BY <1>1, <2>2 DEF ToSet
<1>4. e \in ToSet(Append(s, e))
  BY <1>1 DEF ToSet
<1> QED
  BY <1>2, <1>3, <1>4

\* The rows stay in order when one that comes after them is written.
LEMMA SortedAppend ==
  ASSUME NEW s \in Seq(ReportIds), NEW e \in ReportIds,
         \A i, j \in DOMAIN s : i < j => Before(s[i], s[j]),
         \A x \in ToSet(s) : Before(x, e)
  PROVE  \A i, j \in DOMAIN Append(s, e) : i < j => Before(Append(s, e)[i], Append(s, e)[j])
<1>1. /\ Len(s) \in Nat /\ DOMAIN s = 1 .. Len(s) /\ DOMAIN Append(s, e) = 1 .. Len(s) + 1
      /\ Append(s, e)[Len(s) + 1] = e
      /\ \A i \in 1 .. Len(s) : Append(s, e)[i] = s[i]
  BY AppendProperties, LenProperties
<1> SUFFICES ASSUME NEW i \in 1 .. Len(s) + 1, NEW j \in 1 .. Len(s) + 1, i < j
             PROVE  Before(Append(s, e)[i], Append(s, e)[j])
  BY <1>1
<1>2. i \in 1 .. Len(s) /\ Append(s, e)[i] = s[i] /\ s[i] \in ToSet(s)
  BY <1>1 DEF ToSet
<1>3. CASE j = Len(s) + 1
  BY <1>1, <1>2, <1>3
<1>4. CASE j \in 1 .. Len(s)
  BY <1>1, <1>2, <1>4
<1> QED
  BY <1>1, <1>3, <1>4

\* The index of a Shapefile with one record more.
LEMMA IndexAppend ==
  ASSUME NEW s \in Seq(ReportIds), NEW e \in ReportIds, NEW t \in Seq(Nat),
         t = [i \in DOMAIN s |-> 50 + (i - 1) * 14]
  PROVE  Append(t, 50 + 14 * Len(s)) = [i \in DOMAIN Append(s, e) |-> 50 + (i - 1) * 14]
<1>1. /\ Len(s) \in Nat /\ DOMAIN s = 1 .. Len(s) /\ DOMAIN Append(s, e) = 1 .. Len(s) + 1
  BY AppendProperties, LenProperties
<1>2. DOMAIN t = 1 .. Len(s) /\ Len(t) = Len(s)
  BY <1>1, LenProperties
<1> DEFINE u == Append(t, 50 + 14 * Len(s))
<1>3. /\ u \in Seq(Nat) /\ DOMAIN u = 1 .. Len(s) + 1
      /\ u[Len(s) + 1] = 50 + 14 * Len(s)
      /\ \A i \in 1 .. Len(s) : u[i] = t[i]
  BY <1>1, <1>2, AppendProperties, LenProperties
<1>4. ASSUME NEW i \in 1 .. Len(s) + 1 PROVE u[i] = 50 + (i - 1) * 14
  <2>1. CASE i = Len(s) + 1
    BY <1>1, <1>3, <2>1
  <2>2. CASE i \in 1 .. Len(s)
    BY <1>1, <1>3, <2>2
  <2> QED
    BY <1>1, <2>1, <2>2
<1>5. u = [i \in DOMAIN u |-> u[i]]
  BY <1>3, LenProperties
<1> HIDE DEF u
<1>6. u = [i \in 1 .. Len(s) + 1 |-> 50 + (i - 1) * 14]
  BY <1>3, <1>4, <1>5
<1> QED
  BY <1>1, <1>6 DEF u

\* What a row does to the positions of the file.
LEMMA PlacedAppend ==
  ASSUME ExportTypes, NEW r \in ReportIds, body' = Append(body, r)
  PROVE  /\ r \in Resolved => Placed' = Placed \union {Longitude[r]}
         /\ r \notin Resolved => Placed' = Placed
<1>1. ToSet(body)' = ToSet(body) \union {r}
  BY ToSetAppend DEF ExportTypes
<1> QED
  BY <1>1 DEF Placed

LEMMA PlacedSubset == ExportTypes => Placed \subseteq -180 .. 180
<1> SUFFICES ASSUME ExportTypes, NEW x \in Placed PROVE x \in -180 .. 180
  OBVIOUS
<1> QED
  BY ExportAssumption DEF Placed

\* The box grows with a row that has a position, whether it was empty or not.
LEMMA GrowBounds ==
  ASSUME ExportInv, step = "rows", format \in Containers, NEW x \in -180 .. 180
  PROVE  /\ Grow(x) \in Boxes
         /\ Grow(x)[1] \in Placed \union {x} /\ Grow(x)[2] \in Placed \union {x}
         /\ \A y \in Placed \union {x} : Grow(x)[1] <= y /\ y <= Grow(x)[2]
<1>1. /\ box \in (-180 .. 180) \X (-180 .. 180)
      /\ Placed \subseteq -180 .. 180 /\ MembersInv
  BY PlacedSubset DEF ExportInv, ExportTypes, Boxes
<1>2. format \in {"gpkg", "shapefile"}
  BY DEF Containers
<1>3. CASE Placed = {}
  <2>1. Grow(x) = <<x, x>>
    <3>1. CASE format = "shapefile"
      BY <1>1, <1>3, <3>1 DEF MembersInv, Grow
    <3>2. CASE format = "gpkg"
      <4>1. box = <<180, -180>>
        BY <1>1, <1>3, <3>2 DEF MembersInv
      <4>2. Min({180, x}) = x /\ Max({-180, x}) = x
        BY MinOfTwo, MaxOfTwo
      <4>3. Grow(x) = <<Min({box[1], x}), Max({box[2], x})>>
        BY <3>2 DEF Grow
      <4>4. box[1] = 180 /\ box[2] = -180
        BY <4>1
      <4> QED
        BY <4>2, <4>3, <4>4
    <3> QED
      BY <1>2, <3>1, <3>2
  <2> QED
    BY <1>3, <2>1 DEF Boxes
<1>4. CASE Placed # {}
  <2>1. /\ box[1] \in Placed /\ box[2] \in Placed
        /\ \A y \in Placed : box[1] <= y /\ y <= box[2]
    BY <1>1, <1>4 DEF MembersInv
  <2>2. body # <<>>
    BY <1>4 DEF Placed, ToSet
  <2>3. Grow(x) = <<Min({box[1], x}), Max({box[2], x})>>
    BY <2>2 DEF Grow
  <2> DEFINE a == box[1] b == box[2]
  <2>4. /\ a \in -180 .. 180 /\ b \in -180 .. 180
        /\ a \in Int /\ b \in Int /\ x \in Int
    BY <1>1
  <2> HIDE DEF a, b
  <2>5. /\ Min({a, x}) = IF a <= x THEN a ELSE x
        /\ Max({b, x}) = IF b >= x THEN b ELSE x
    BY <2>4, MinOfTwo, MaxOfTwo
  <2>6. /\ Grow(x)[1] = IF a <= x THEN a ELSE x
        /\ Grow(x)[2] = IF b >= x THEN b ELSE x
    BY <2>3, <2>5 DEF a, b
  <2>7. Grow(x) \in Boxes
    <3>1. Min({a, x}) \in -180 .. 180 /\ Max({b, x}) \in -180 .. 180
      BY <2>4, <2>5
    <3> QED
      BY <2>3, <3>1 DEF Boxes, a, b
  <2>8. Grow(x)[1] \in Placed \union {x} /\ Grow(x)[2] \in Placed \union {x}
    BY <2>1, <2>6 DEF a, b
  <2>9. ASSUME NEW y \in Placed \union {x} PROVE Grow(x)[1] <= y /\ y <= Grow(x)[2]
    <3>1. y \in -180 .. 180 /\ (y = x \/ (a <= y /\ y <= b))
      BY <1>1, <2>1 DEF a, b
    <3> QED
      BY <2>4, <2>6, <3>1
  <2> USE DEF a, b
  <2> QED
    BY <2>7, <2>8, <2>9
<1> QED
  BY <1>3, <1>4

LEMMA WriteRowKeeps ==
  ASSUME ExportInv, WriteRow
  PROVE  ExportInv'
<1>1. PICK r \in todo :
        /\ \A s \in todo \ {r} : Before(r, s)
        /\ todo' = todo \ {r}
        /\ body' = IF Skipped(r) THEN body ELSE Append(body, r)
        /\ index' = IF format = "shapefile" /\ ~Skipped(r) THEN Append(index, OffsetOfNext)
                                                           ELSE index
        /\ box' = IF format \in Containers /\ r \in Resolved THEN Grow(Longitude[r]) ELSE box
  BY DEF WriteRow
<1>2. /\ step = "rows" /\ ~whole
      /\ UNCHANGED <<step, format, known, columns, moment, temps, status, whole>>
  BY DEF WriteRow, ExportInv, PhaseInv
<1>3. ExportTypes /\ RowsInv /\ MembersInv /\ PhaseInv
  BY DEF ExportInv
<1>4. r \in ReportIds /\ r \in moment /\ todo \subseteq moment /\ moment \subseteq ReportIds
  BY <1>3 DEF ExportTypes
<1>5. body \in Seq(ReportIds) /\ index \in Seq(Nat) /\ OffsetOfNext = 50 + 14 * Len(body)
  BY <1>3 DEF ExportTypes, OffsetOfNext, HeaderWords, RecordWords
<1>6. ASSUME r \in Resolved, format \in Containers
      PROVE  Longitude[r] \in -180 .. 180 /\ ~Skipped(r)
  BY <1>6, ExportAssumption DEF Skipped
<1>7. ExportTypes'
  <2>1. body' \in Seq(ReportIds)
    BY <1>1, <1>4, <1>5, AppendProperties
  <2>2. index' \in Seq(Nat)
    <3>1. OffsetOfNext \in Nat
      BY <1>5, LenProperties
    <3> QED
      BY <1>1, <1>5, <3>1, AppendProperties
  <2>3. box' \in Boxes
    <3>1. CASE format \in Containers /\ r \in Resolved
      BY <1>1, <1>2, <1>6, <3>1, GrowBounds
    <3>2. CASE ~(format \in Containers /\ r \in Resolved)
      BY <1>1, <1>3, <3>2 DEF ExportTypes
    <3> QED
      BY <3>1, <3>2
  <2> QED
    BY <1>1, <1>2, <1>3, <2>1, <2>2, <2>3 DEF ExportTypes
<1>8. PhaseInv'
  BY <1>2, <1>3 DEF PhaseInv
<1>9. RowsInv'
  <2>1. /\ ToSet(body) = {s \in moment \ todo : ~Skipped(s)}
        /\ \A i, j \in DOMAIN body : i < j => Before(body[i], body[j])
        /\ \A t \in todo : \A s \in moment \ todo : Before(s, t)
    BY <1>2, <1>3 DEF RowsInv
  <2>2. moment \ todo' = (moment \ todo) \union {r}
    BY <1>1, <1>4
  <2>3. ToSet(body)' = {s \in moment \ todo' : ~Skipped(s)}
    <3>1. CASE Skipped(r)
      <4>1. body' = body
        BY <1>1, <3>1
      <4>2. ToSet(body)' = ToSet(body)
        BY <4>1 DEF ToSet
      <4> QED
        BY <2>1, <2>2, <3>1, <4>2
    <3>2. CASE ~Skipped(r)
      <4>1. body' = Append(body, r)
        BY <1>1, <3>2
      <4>2. ToSet(body)' = ToSet(body) \union {r}
        BY <1>4, <1>5, <4>1, ToSetAppend
      <4> QED
        BY <2>1, <2>2, <3>2, <4>2
    <3> QED
      BY <3>1, <3>2
  <2>4. \A i, j \in DOMAIN body' : i < j => Before(body'[i], body'[j])
    <3>1. CASE Skipped(r)
      BY <1>1, <2>1, <3>1
    <3>2. CASE ~Skipped(r)
      <4>1. \A s \in ToSet(body) : Before(s, r)
        BY <2>1
      <4>2. \A i, j \in DOMAIN Append(body, r) :
              i < j => Before(Append(body, r)[i], Append(body, r)[j])
        BY <1>4, <1>5, <2>1, <4>1, SortedAppend
      <4> QED
        BY <1>1, <3>2, <4>2
    <3> QED
      BY <3>1, <3>2
  <2>5. \A t \in todo' : \A s \in moment \ todo' : Before(s, t)
    BY <1>1, <2>1, <2>2
  <2>6. /\ moment' = moment
        /\ \A s : Skipped(s)' = Skipped(s)
    BY <1>2, SkippedSame
  <2> QED
    BY <2>3, <2>4, <2>5, <2>6 DEF RowsInv, Before
<1>10. MembersInv'
  <2> SUFFICES ASSUME format \in Containers
               PROVE  /\ format = "shapefile" => index' = [i \in DOMAIN body' |-> 50 + (i - 1) * 14]
                      /\ IF Placed' = {}
                           THEN /\ format = "shapefile" => body' = <<>>
                                /\ format = "gpkg" => box' = <<180, -180>>
                           ELSE /\ box'[1] \in Placed' /\ box'[2] \in Placed'
                                /\ \A x \in Placed' : box'[1] <= x /\ x <= box'[2]
    BY <1>2 DEF MembersInv
  <2>1. /\ format = "shapefile" => index = [i \in DOMAIN body |-> 50 + (i - 1) * 14]
        /\ IF Placed = {}
             THEN /\ format = "shapefile" => body = <<>>
                  /\ format = "gpkg" => box = <<180, -180>>
             ELSE /\ box[1] \in Placed /\ box[2] \in Placed
                  /\ \A x \in Placed : box[1] <= x /\ x <= box[2]
    BY <1>2, <1>3 DEF MembersInv
  <2>2. format = "shapefile" => index' = [i \in DOMAIN body' |-> 50 + (i - 1) * 14]
    <3>1. CASE format = "shapefile" /\ Skipped(r)
      BY <1>1, <2>1, <3>1
    <3>2. CASE format = "shapefile" /\ ~Skipped(r)
      <4>1. index' = Append(index, 50 + 14 * Len(body)) /\ body' = Append(body, r)
        BY <1>1, <1>5, <3>2
      <4>2. Append(index, 50 + 14 * Len(body)) = [i \in DOMAIN Append(body, r) |-> 50 + (i - 1) * 14]
        BY <1>4, <1>5, <2>1, <3>2, IndexAppend
      <4> QED
        BY <4>1, <4>2
    <3> QED
      BY <3>1, <3>2
  <2>3. CASE r \in Resolved
    <3>1. body' = Append(body, r) /\ box' = Grow(Longitude[r])
      BY <1>1, <1>6, <2>3
    <3>2. Placed' = Placed \union {Longitude[r]}
      BY <1>3, <1>4, <2>3, <3>1, PlacedAppend
    <3> DEFINE x == Longitude[r]
    <3>3. x \in -180 .. 180
      BY <1>6, <2>3
    <3> HIDE DEF x
    <3>4. /\ Grow(x)[1] \in Placed \union {x} /\ Grow(x)[2] \in Placed \union {x}
          /\ \A y \in Placed \union {x} : Grow(x)[1] <= y /\ y <= Grow(x)[2]
      BY <1>2, <3>3, GrowBounds
    <3>5. Placed' = Placed \union {x} /\ box' = Grow(x)
      BY <3>1, <3>2 DEF x
    <3> QED
      BY <2>2, <3>4, <3>5
  <2>4. CASE r \notin Resolved
    <3>1. box' = box
      BY <1>1, <2>4
    <3>2. Placed' = Placed /\ (format = "shapefile" => body' = body)
      <4>1. CASE Skipped(r)
        <5>1. body' = body
          BY <1>1, <4>1
        <5>2. Placed' = Placed
          BY <5>1 DEF Placed, ToSet
        <5> QED
          BY <5>1, <5>2
      <4>2. CASE ~Skipped(r)
        <5>1. body' = Append(body, r) /\ format # "shapefile"
          BY <1>1, <2>4, <4>2 DEF Skipped
        <5> QED
          BY <1>3, <1>4, <2>4, <5>1, PlacedAppend
      <4> QED
        BY <4>1, <4>2
    <3> QED
      BY <2>1, <2>2, <3>1, <3>2
  <2> QED
    BY <2>3, <2>4
<1>11. KeysInv'
  BY <1>2, FlatSame DEF ExportInv, KeysInv
<1>12. BoxBeforeRows' /\ MembersAgree'
  BY <1>2 DEF BoxBeforeRows, MembersAgree
<1> QED
  BY <1>7, <1>8, <1>9, <1>10, <1>11, <1>12 DEF ExportInv

\* The bounds of a set that has them are its least and its greatest element.
LEMMA MinMaxOfBounds ==
  ASSUME NEW S \in SUBSET Int, NEW a \in S, NEW b \in S,
         \A x \in S : a <= x /\ x <= b
  PROVE  Min(S) = a /\ Max(S) = b
<1>1. \A x \in S : (\A y \in S : x <= y) => x = a
  OBVIOUS
<1>2. \A x \in S : (\A y \in S : x >= y) => x = b
  OBVIOUS
<1>3. (\A y \in S : a <= y) /\ (\A y \in S : b >= y)
  OBVIOUS
<1> QED
  BY <1>1, <1>2, <1>3 DEF Min, Max

LEMMA FinishKeeps ==
  ASSUME ExportInv, Finish
  PROVE  ExportInv'
<1>1. /\ step = "rows" /\ todo = {} /\ ~whole
      /\ UNCHANGED <<format, known, columns, moment, todo, body, index>>
  BY DEF Finish, ExportInv, PhaseInv
<1>2. ExportTypes /\ RowsInv /\ MembersInv /\ PhaseInv
  BY DEF ExportInv
<1>3. /\ format \in Containers => step' = "copy" /\ UNCHANGED <<temps, status, whole>>
      /\ format \notin Containers =>
           step' = "done" /\ status' = status /\ temps' = {} /\ whole' = TRUE
      /\ box' \in {<<0, 0>>, box}
  BY DEF Finish, End
<1>4. ExportTypes'
  <2>1. box' \in Boxes
    BY <1>2, <1>3, EmptyBoxes DEF ExportTypes
  <2>2. /\ step' \in {"copy", "done"} /\ status' = status
        /\ temps' \subseteq temps
    BY <1>3
  <2>3. whole' \in BOOLEAN
    <3>1. whole' = TRUE \/ whole' = whole
      BY <1>3, Zenon
    <3> QED
      BY <1>2, <3>1, Zenon DEF ExportTypes
  <2> QED
    BY <1>1, <1>2, <2>1, <2>2, <2>3 DEF ExportTypes
<1>5. PhaseInv'
  BY <1>1, <1>2, <1>3 DEF PhaseInv
<1>6. RowsInv'
  <2>1. ToSet(body)' = ToSet(body)
    BY <1>1 DEF ToSet
  <2> QED
    BY <1>1, <1>2, <2>1, SkippedSame DEF RowsInv, Before
<1>7. MembersAgree'
  <2> SUFFICES ASSUME format \in Containers
               PROVE  /\ format = "shapefile" => index' = [i \in DOMAIN body' |-> 50 + (i - 1) * 14]
                      /\ box' = IF Placed = {} THEN <<0, 0>> ELSE <<Min(Placed), Max(Placed)>>
    <3>1. Placed' = Placed
      BY <1>1 DEF Placed, ToSet
    <3> QED
      BY <1>1, <1>3, <3>1 DEF MembersAgree
  <2>1. format = "shapefile" => index' = [i \in DOMAIN body' |-> 50 + (i - 1) * 14]
    BY <1>1, <1>2 DEF MembersInv
  <2>2. box' = IF Placed = {} THEN <<0, 0>> ELSE box
    BY DEF Finish
  <2>3. ASSUME Placed # {} PROVE box = <<Min(Placed), Max(Placed)>>
    <3>1. /\ box[1] \in Placed /\ box[2] \in Placed
          /\ \A x \in Placed : box[1] <= x /\ x <= box[2]
      BY <1>1, <1>2, <2>3 DEF MembersInv
    <3>2. Placed \in SUBSET Int
      BY <1>2, PlacedSubset
    <3>3. Min(Placed) = box[1] /\ Max(Placed) = box[2]
      BY <3>1, <3>2, MinMaxOfBounds
    <3>4. box = <<box[1], box[2]>>
      BY <1>2 DEF ExportTypes, Boxes
    <3> QED
      BY <3>3, <3>4
  <2> QED
    BY <2>1, <2>2, <2>3
<1>8. MembersInv' /\ BoxBeforeRows'
  BY <1>3 DEF MembersInv, BoxBeforeRows
<1>9. KeysInv'
  BY <1>1, FlatSame DEF ExportInv, KeysInv
<1> QED
  BY <1>4, <1>5, <1>6, <1>7, <1>8, <1>9 DEF ExportInv

LEMMA CopyKeeps ==
  ASSUME ExportInv, Copy
  PROVE  ExportInv'
<1>1. /\ step = "copy" /\ step' = "done" /\ temps' = {} /\ status' \in {200, 500}
      /\ UNCHANGED <<format, known, columns, moment, todo, body, index, box>>
  BY DEF Copy, End, file
<1>2. ExportTypes /\ RowsInv /\ PhaseInv /\ todo = {}
  BY <1>1 DEF ExportInv, PhaseInv
<1>3. whole' \in BOOLEAN
  <2>1. whole' = TRUE \/ whole' = whole
    BY Zenon DEF Copy
  <2> QED
    BY <1>2, <2>1, Zenon DEF ExportTypes
<1>4. ExportTypes'
  BY <1>1, <1>2, <1>3 DEF ExportTypes
<1>5. PhaseInv'
  BY <1>1, <1>2 DEF PhaseInv
<1>6. RowsInv'
  <2>1. ToSet(body)' = ToSet(body)
    BY <1>1 DEF ToSet
  <2> QED
    BY <1>1, <1>2, <2>1, SkippedSame DEF RowsInv, Before
<1>7. KeysInv'
  BY <1>1, FlatSame DEF ExportInv, KeysInv
<1> QED
  BY <1>1, <1>4, <1>5, <1>6, <1>7 DEF ExportInv, MembersInv, BoxBeforeRows, MembersAgree

LEMMA ExportBegins == ExportInit => ExportInv
<1> SUFFICES ASSUME ExportInit PROVE ExportInv
  OBVIOUS
<1>1. ExportTypes
  <2>1. body \in Seq(ReportIds) /\ index \in Seq(Nat) /\ box \in Boxes
    BY EmptyBoxes DEF ExportInit
  <2>2. whole \in BOOLEAN
    BY Zenon DEF ExportInit
  <2> QED
    BY <2>1, <2>2 DEF ExportInit, ExportTypes, Formats
<1>2. PhaseInv
  BY DEF ExportInit, PhaseInv, Containers
<1>3. KeysInv
  BY DEF ExportInit, KeysInv
<1> QED
  BY <1>1, <1>2, <1>3 DEF ExportInit, ExportInv, RowsInv, MembersInv, BoxBeforeRows, MembersAgree

\* What an export has read, written and sent in each of its steps, whatever the
\* table does between them.
THEOREM ExportInvariant == DashSpec => []ExportInv
<1>1. DashInit => ExportInv
  BY ExportBegins DEF DashInit, ReadsInit
<1>2. ExportInv /\ [DashNext]_dashVars => ExportInv'
  <2> SUFFICES ASSUME ExportInv, [DashNext]_dashVars PROVE ExportInv'
    OBVIOUS
  <2>1. ASSUME NEW f \in Formats, ExportReports(f) PROVE ExportInv'
    BY <2>1, ExportReportsKeeps
  <2>2. CASE ModularKeysRaw
    BY <2>2, ModularKeysRawKeeps
  <2>3. CASE CreateTemp
    BY <2>3, CreateTempKeeps
  <2>4. CASE Abort
    BY <2>4, AbortKeeps
  <2>5. CASE ExportEach
    BY <2>5, ExportEachKeeps
  <2>6. CASE WriteRow
    BY <2>6, WriteRowKeeps
  <2>7. CASE Finish
    BY <2>7, FinishKeeps
  <2>8. CASE Copy
    BY <2>8, CopyKeeps
  <2>9. CASE Close
    BY <2>9, CloseKeeps
  <2>10. CASE UNCHANGED export
    BY <2>10, ExportUnchanged
  <2> QED
    BY <2>1, <2>2, <2>3, <2>4, <2>5, <2>6, <2>7, <2>8, <2>9, <2>10, ExportSteps DEF ExportNext
<1> QED
  BY <1>1, <1>2, PTL DEF DashSpec

\* A file that reached its end holds the reports of the moment of its row query, in
\* the order of the list and each once, whatever changed while it was written.
THEOREM WholeFileIsOneMomentAlways == DashSpec => []WholeFileIsOneMoment
<1>1. ExportInv => WholeFileIsOneMoment
  <2> SUFFICES ASSUME ExportInv, whole PROVE WholeFileIsOneMoment
    BY DEF WholeFileIsOneMoment
  <2>1. todo = {}
    BY DEF ExportInv, PhaseInv
  <2>2. /\ ToSet(body) = {r \in moment \ todo : ~Skipped(r)}
        /\ \A i, j \in DOMAIN body : i < j => Before(body[i], body[j])
    BY DEF ExportInv, RowsInv
  <2> QED
    BY <2>1, <2>2 DEF WholeFileIsOneMoment
<1> QED
  BY <1>1, ExportInvariant, PTL

\* Every answer of a report has its column, and no column of a GeoPackage is there
\* twice: for any keys, however they collide in snake case or with the reserved ones.
THEOREM ColumnsFitAlways == DashSpec => []ColumnsFit
<1>1. ExportInv => ColumnsFit
  <2> SUFFICES ASSUME ExportInv PROVE ColumnsFit
    OBVIOUS
  <2>1. format \in Formats /\ KeysInv
    BY DEF ExportInv, ExportTypes
  <2>2. ASSUME NEW r, format # "shapefile", format \in {"csv", "gpkg"} => r \in known
        PROVE  Flat(r) \ Fixed[format] \subseteq Cells(r)
    <3>1. CASE format \in {"csv", "gpkg"}
      <4>1. Cells(r) = Flat(r) \intersect (columns \union Stable)
        BY <3>1 DEF Cells
      <4>2. Flat(r) \subseteq columns \union Stable \union Fixed[format]
        BY <2>1, <2>2, <3>1 DEF KeysInv
      <4> QED
        BY <4>1, <4>2
    <3>2. CASE format \in {"geojson", "kml"}
      <4>1. Cells(r) = Flat(r) \ Fixed[format]
        BY <3>2 DEF Cells
      <4> QED
        BY <4>1
    <3> QED
      BY <2>1, <2>2, <3>1, <3>2 DEF Formats
  <2> QED
    BY <2>1, <2>2 DEF ColumnsFit, KeysInv
<1> QED
  BY <1>1, ExportInvariant, PTL

\* A container is sent after its last row is in it and when its members agree, the
\* index with the records and the box with the positions; and no temporary file
\* outlives the request.
THEOREM ContainerWholeOrRefusedAlways == DashSpec => []ContainerWholeOrRefused
<1>1. DashSpec => []TypeOK
  BY DashKeepsListing, TypeCorrect, PTL
<1>2. TypeOK /\ ExportInv => ContainerWholeOrRefused
  <2> SUFFICES ASSUME TypeOK, ExportInv PROVE ContainerWholeOrRefused
    OBVIOUS
  <2>1. ReadsTypeOK
    BY DEF ExportInv, ExportTypes, Boxes, Named, ReadsTypeOK
  <2>2. MembersAgree
    BY DEF ExportInv
  <2>3. format \in Containers /\ status = 200 => step = "done" /\ todo = {}
    BY DEF ExportInv, PhaseInv, ExportTypes
  <2>4. step \in {"idle", "done"} => temps = {}
    BY DEF ExportInv, PhaseInv
  <2> QED
    BY <2>1, <2>2, <2>3, <2>4 DEF ContainerWholeOrRefused
<1> QED
  BY <1>1, <1>2, ExportInvariant, PTL

------------------------------------------------------------------------------
(* What the aggregates of a page add up to *)

LEMMA FiniteReports ==
  ASSUME NEW S \in SUBSET ReportIds
  PROVE  IsFiniteSet(S) /\ Cardinality(S) \in Nat
BY ListingAssumption, FS_Subset, FS_CardinalityType

LEMMA MonotoneCount ==
  ASSUME NEW S \in SUBSET ReportIds, NEW T \in SUBSET S
  PROVE  Cardinality(T) <= Cardinality(S)
BY FiniteReports, FS_Subset

LEMMA BijectionPairs ==
  ASSUME NEW A, NEW B, NEW b \in Bijection(A, B)
  PROVE  /\ \A r \in A : b[r] \in B
         /\ \A r, s \in A : b[r] = b[s] => r = s
         /\ \A i \in B : \E r \in A : b[r] = i
BY DEF Bijection, Injection, Surjection, IsInjective

\* The reports counted by a key, whatever the key is: the counts add up to the
\* reports. Each report goes to its key and its number among those of that key.
LEMMA CountsAddUp ==
  ASSUME NEW S, IsFiniteSet(S), NEW f, NEW key,
         \A r \in S : key[r] \in DOMAIN f,
         \A k \in DOMAIN f : f[k] = Cardinality({r \in S : key[r] = k})
  PROVE  Total(f) = Cardinality(S)
<1> DEFINE Of(k)   == {r \in S : key[r] = k}
           Pairs   == UNION {{k} \X (1 .. f[k]) : k \in DOMAIN f}
           number  == [k \in DOMAIN f |-> CHOOSE b : b \in Bijection(Of(k), 1 .. f[k])]
           place   == [r \in S |-> <<key[r], number[key[r]][r]>>]
<1>1. ASSUME NEW k \in DOMAIN f
      PROVE  number[k] \in Bijection(Of(k), 1 .. f[k])
  <2>1. IsFiniteSet(Of(k))
    BY FS_Subset
  <2>2. ExistsBijection(Of(k), 1 .. f[k])
    <3>1. f[k] \in Nat
      BY <2>1, FS_CardinalityType
    <3>2. IsFiniteSet(1 .. f[k]) /\ Cardinality(1 .. f[k]) = Cardinality(Of(k))
      BY <3>1, FS_Interval
    <3> QED
      BY <2>1, <3>2, FS_SameCardinalityBij
  <2>3. \E b : b \in Bijection(Of(k), 1 .. f[k])
    BY <2>2 DEF ExistsBijection
  <2> QED
    BY <2>3
<1> HIDE DEF number
<1>2. ASSUME NEW k \in DOMAIN f
      PROVE  /\ \A r \in Of(k) : number[k][r] \in 1 .. f[k]
             /\ \A r, s \in Of(k) : number[k][r] = number[k][s] => r = s
             /\ \A i \in 1 .. f[k] : \E r \in Of(k) : number[k][r] = i
  <2> DEFINE A == Of(k)
             B == 1 .. f[k]
             b == number[k]
  <2>1. b \in Bijection(A, B)
    BY <1>1
  <2> HIDE DEF A, B, b
  <2>2. /\ \A r \in A : b[r] \in B
        /\ \A r, s \in A : b[r] = b[s] => r = s
        /\ \A i \in B : \E r \in A : b[r] = i
    BY <2>1, BijectionPairs
  <2> QED
    BY <2>2 DEF A, B, b
<1>3. place \in [S -> Pairs]
  <2>1. ASSUME NEW r \in S PROVE place[r] \in Pairs
    <3>1. key[r] \in DOMAIN f /\ r \in Of(key[r])
      OBVIOUS
    <3>2. number[key[r]][r] \in 1 .. f[key[r]]
      BY <1>2, <3>1
    <3>3. place[r] \in {key[r]} \X (1 .. f[key[r]])
      BY <3>2
    <3> QED
      BY <3>1, <3>3
  <2> QED
    BY <2>1
<1>4. ASSUME NEW r \in S, NEW s \in S, place[r] = place[s] PROVE r = s
  <2>1. key[r] = key[s] /\ number[key[r]][r] = number[key[r]][s]
    BY <1>4
  <2> QED
    BY <1>2, <2>1
<1>5. ASSUME NEW p \in Pairs PROVE \E r \in S : place[r] = p
  <2>1. PICK k \in DOMAIN f : p \in {k} \X (1 .. f[k])
    OBVIOUS
  <2> DEFINE i == p[2]
  <2>3. i \in 1 .. f[k] /\ p = <<k, i>>
    BY <2>1
  <2>2. PICK r \in Of(k) : number[k][r] = i
    BY <1>2, <2>3
  <2> QED
    BY <2>3, <2>2
<1> HIDE DEF Pairs, place
<1>6. place \in Bijection(S, Pairs)
  BY <1>3, <1>4, <1>5 DEF Bijection, Injection, Surjection, IsInjective
<1>7. Cardinality(Pairs) = Cardinality(S)
  BY <1>6, FS_Bijection DEF ExistsBijection
<1> QED
  BY <1>7 DEF Total, Pairs

\* A quotient by a positive number grows with what is divided.
LEMMA QuotientOf ==
  ASSUME NEW a \in Nat, NEW d \in Nat \ {0}
  PROVE  a \div d \in Nat /\ d * (a \div d) <= a /\ a < d * (a \div d) + d
OBVIOUS

LEMMA PctGrows ==
  ASSUME NEW total \in Nat, NEW m \in Nat, NEW n \in Nat, m <= n, n <= total
  PROVE  Pct(m, total) <= Pct(n, total) /\ Pct(n, total) <= 100
<1>1. CASE total = 0
  BY <1>1 DEF Pct
<1>2. CASE total # 0
  <2> DEFINE d == 2 * total
             a == 200 * m + total
             b == 200 * n + total
             p == a \div d
             q == b \div d
  <2>1. d \in Nat \ {0} /\ a \in Nat /\ b \in Nat /\ a <= b /\ b < d * 101
    BY <1>2
  <2> HIDE DEF d, a, b
  <2>2. p \in Nat /\ d * p <= a /\ a < d * p + d
    BY <2>1, QuotientOf
  <2>3. q \in Nat /\ d * q <= b /\ b < d * q + d
    BY <2>1, QuotientOf
  <2> HIDE DEF p, q
  <2>4. \A x, y \in Nat : x < y => d * x + d <= d * y
    <3> SUFFICES ASSUME NEW x \in Nat, NEW y \in Nat, x < y PROVE d * x + d <= d * y
      OBVIOUS
    <3>1. x + 1 <= y
      OBVIOUS
    <3>2. d * (x + 1) <= d * y
      BY <2>1, <3>1
    <3>3. d * (x + 1) = d * x + d
      BY <2>1
    <3> QED
      BY <3>2, <3>3
  <2>5. p <= q
    <3> SUFFICES ASSUME q < p PROVE FALSE
      BY <2>2, <2>3
    <3>1. d * q + d <= d * p
      BY <2>2, <2>3, <2>4
    <3>2. d * q \in Nat /\ d * p \in Nat
      BY <2>1, <2>2, <2>3
    <3> QED
      BY <2>1, <2>2, <2>3, <3>1, <3>2
  <2>6. q <= 100
    <3> SUFFICES ASSUME 100 < q PROVE FALSE
      BY <2>3
    <3>1. d * 100 + d <= d * q
      BY <2>3, <2>4
    <3>2. d * q \in Nat
      BY <2>1, <2>3
    <3> QED
      BY <2>1, <2>3, <3>1, <3>2
  <2>7. Pct(m, total) = p /\ Pct(n, total) = q
    BY <1>2 DEF Pct, p, q, a, b, d
  <2> QED
    BY <2>5, <2>6, <2>7
<1> QED
  BY <1>1, <1>2

\* The tiers of the reports of a moment add up to them.
LEMMA TiersAddUp ==
  ASSUME NEW S \in SUBSET ReportIds
  PROVE  /\ Total(TierCounts(S)) = Cardinality(S)
         /\ TierCounts(S).complete \in Nat /\ TierCounts(S).partial \in Nat
         /\ TierCounts(S).partial + TierCounts(S).complete <= Cardinality(S)
<1> DEFINE OfTier(t) == {r \in S : Tier[r] = t}
<1>1. /\ DOMAIN TierCounts(S) = DOMAIN Rank
      /\ \A t \in DOMAIN Rank : TierCounts(S)[t] = Cardinality(OfTier(t))
  BY DEF TierCounts, Count
<1>2. \A r \in S : Tier[r] \in DOMAIN Rank
  BY DashboardAssumption
<1>3. Total(TierCounts(S)) = Cardinality(S)
  <2>1. \A t \in DOMAIN TierCounts(S) : TierCounts(S)[t] = Cardinality({r \in S : Tier[r] = t})
    BY <1>1
  <2>2. \A r \in S : Tier[r] \in DOMAIN TierCounts(S)
    BY <1>1, <1>2
  <2> QED
    BY <2>1, <2>2, FiniteReports, CountsAddUp
<1>4. DOMAIN Rank = {"minimal", "partial", "complete"}
  BY DEF Rank
<1>5. /\ TierCounts(S).complete = Cardinality(OfTier("complete"))
      /\ TierCounts(S).partial = Cardinality(OfTier("partial"))
  BY <1>1, <1>4
<1>6. /\ OfTier("complete") \in SUBSET ReportIds /\ OfTier("partial") \in SUBSET ReportIds
      /\ OfTier("complete") \union OfTier("partial") \in SUBSET S
      /\ OfTier("partial") \intersect OfTier("complete") = {}
  OBVIOUS
<1> DEFINE C == OfTier("complete")
           D == OfTier("partial")
<1>7. C \in SUBSET ReportIds /\ D \in SUBSET ReportIds /\ D \union C \in SUBSET S /\ D \intersect C = {}
  BY <1>6
<1> HIDE DEF C, D
<1>8. IsFiniteSet(C) /\ IsFiniteSet(D) /\ Cardinality(C) \in Nat /\ Cardinality(D) \in Nat
  BY <1>7, FiniteReports
<1>9. Cardinality(D \union C) = Cardinality(D) + Cardinality(C)
  <2>1. Cardinality(D \union C) = Cardinality(D) + Cardinality(C) - Cardinality(D \intersect C)
    BY <1>8, FS_Union
  <2>2. Cardinality(D \intersect C) = 0
    BY <1>7, FS_EmptySet
  <2> QED
    BY <1>8, <2>1, <2>2
<1>10. Cardinality(D \union C) <= Cardinality(S)
  BY <1>7, MonotoneCount
<1> QED
  BY <1>3, <1>5, <1>8, <1>9, <1>10 DEF C, D

\* So do the buckets of its chart, wherever the captures lie.
LEMMA SeriesAddsUp ==
  ASSUME NEW S \in SUBSET ReportIds, NEW now \in Int, NEW age \in Int
  PROVE  Total(Series(S, now, age)) = Cardinality(S)
<1> DEFINE f   == Series(S, now, age)
           key == [r \in S |-> Bucket(r, now, age)]
<1>1. DOMAIN f = 0 .. Buckets(age) - 1
  BY DEF Series
<1>2. ASSUME NEW r \in S PROVE key[r] \in DOMAIN f
  BY <1>1, BucketInChart
<1>3. ASSUME NEW b \in DOMAIN f PROVE f[b] = Cardinality({r \in S : key[r] = b})
  <2>1. f[b] = Cardinality({r \in S : Bucket(r, now, age) = b})
    BY <1>1 DEF Series, Count
  <2>2. {r \in S : Bucket(r, now, age) = b} = {r \in S : key[r] = b}
    OBVIOUS
  <2> QED
    BY <2>1, <2>2
<1> HIDE DEF f, key
<1>4. Total(f) = Cardinality(S)
  BY <1>2, <1>3, FiniteReports, CountsAddUp
<1> QED
  BY <1>4 DEF f

\* The groups of reports by a key: each report has its group, and the counts add
\* up to the reports.
LEMMA GroupsAddUp ==
  ASSUME NEW S \in SUBSET ReportIds, NEW key
  PROVE  LET groups == Groups(S, key)
         IN  /\ \A k \in DOMAIN groups : groups[k].n = Cardinality({r \in S : key[r] = k})
             /\ \A r \in S : key[r] \in DOMAIN groups
             /\ Total([k \in DOMAIN groups |-> groups[k].n]) = Cardinality(S)
<1> DEFINE groups == Groups(S, key)
           f      == [k \in DOMAIN groups |-> groups[k].n]
<1>1. DOMAIN groups = {key[r] : r \in S}
  BY DEF Groups
<1>2. \A k \in DOMAIN groups : groups[k].n = Cardinality({r \in S : key[r] = k})
  BY DEF Groups
<1>3. \A r \in S : key[r] \in DOMAIN groups
  BY <1>1
<1> HIDE DEF groups
<1>4. DOMAIN f = DOMAIN groups /\ \A k \in DOMAIN groups : f[k] = groups[k].n
  OBVIOUS
<1>5. /\ \A k \in DOMAIN f : f[k] = Cardinality({r \in S : key[r] = k})
      /\ \A r \in S : key[r] \in DOMAIN f
  BY <1>2, <1>3, <1>4
<1> HIDE DEF f
<1>6. Total(f) = Cardinality(S)
  BY <1>5, FiniteReports, CountsAddUp
<1> QED
  BY <1>2, <1>3, <1>6 DEF groups, f

LEMMA RankOfTier == \A r \in ReportIds : Rank[Tier[r]] \in 0 .. 2
<1>1. \A t \in DOMAIN Rank : Rank[t] \in 0 .. 2
  BY DEF Rank
<1> QED
  BY <1>1, DashboardAssumption

\* The worst tier of a group is no better than that of any report in it.
LEMMA WorstIsWorst ==
  ASSUME NEW S \in SUBSET ReportIds, NEW key, NEW r \in S
  PROVE  Rank[Tier[r]] <= Groups(S, key)[key[r]].worst
<1> DEFINE group == {s \in S : key[s] = key[r]}
           R     == {Rank[Tier[s]] : s \in group}
<1>1. Groups(S, key)[key[r]].worst = Max(R)
  BY DEF Groups, WorstOf
<1>2. R \in SUBSET (0 .. 2) /\ Rank[Tier[r]] \in R
  BY RankOfTier
<1> HIDE DEF R
<1>3. \E x \in R : \A y \in R : x >= y
  <2>1. CASE 2 \in R
    BY <1>2, <2>1
  <2>2. CASE 2 \notin R /\ 1 \in R
    BY <1>2, <2>2
  <2>3. CASE 2 \notin R /\ 1 \notin R
    <3>1. \A y \in R : y = 0
      BY <1>2, <2>3
    <3>2. 0 \in R
      BY <1>2, <3>1
    <3> QED
      BY <3>1, <3>2
  <2> QED
    BY <2>1, <2>2, <2>3
<1>4. \A y \in R : Max(R) >= y
  BY <1>3 DEF Max
<1>5. Max(R) \in R
  BY <1>3 DEF Max
<1> QED
  BY <1>1, <1>2, <1>4, <1>5

LEMMA LeastOf ==
  ASSUME NEW T \in SUBSET Nat, T # {}
  PROVE  \E x \in T : \A y \in T : x <= y
<1> DEFINE R == {ss \in Nat \X Nat : ss[1] < ss[2]}
<1>1. IsWellFoundedOn(R, Nat)
  BY NatLessThanWellFounded DEF OpToRel
<1>2. \A x, y \in Nat : <<y, x>> \in R <=> y < x
  OBVIOUS
<1> HIDE DEF R
<1>3. PICK x \in T : \A y \in T : ~(<<y, x>> \in R)
  BY <1>1, WFMin
<1>4. \A y \in T : x \in Nat /\ y \in Nat /\ ~(y < x)
  BY <1>2, <1>3
<1> QED
  BY <1>4

\* Of two reports of a list the one in front has fewer ahead of it.
LEMMA AheadGrows ==
  ASSUME NEW S \in SUBSET ReportIds, NEW r \in S, NEW s \in S, Before(s, r)
  PROVE  Cardinality(Ahead(S, s)) < Cardinality(Ahead(S, r))
<1>1. Ahead(S, s) \in SUBSET Ahead(S, r) /\ s \in Ahead(S, r) /\ s \notin Ahead(S, s)
  BY BeforeIrreflexive, BeforeTransitive DEF Ahead
<1>2. Ahead(S, s) # Ahead(S, r)
  BY <1>1
<1>3. Cardinality(Ahead(S, s)) <= Cardinality(Ahead(S, r))
  BY <1>1, AheadFinite, FS_Subset
<1>4. Cardinality(Ahead(S, s)) # Cardinality(Ahead(S, r))
  BY <1>1, <1>2, AheadFinite, FS_Subset
<1>5. Cardinality(Ahead(S, s)) \in Nat /\ Cardinality(Ahead(S, r)) \in Nat
  BY AheadFinite
<1> QED
  BY <1>3, <1>4, <1>5

\* Some report of a list has none of them in front of it.
LEMMA FrontOf ==
  ASSUME NEW S \in SUBSET ReportIds, NEW B \in SUBSET S, B # {}
  PROVE  \E r \in B : \A s \in B : ~Before(s, r)
<1> DEFINE T == {Cardinality(Ahead(S, r)) : r \in B}
<1>1. T \in SUBSET Nat /\ T # {}
  BY AheadFinite
<1>2. PICK x \in T : \A y \in T : x <= y
  BY <1>1, LeastOf
<1>3. PICK r \in B : x = Cardinality(Ahead(S, r))
  BY <1>2
<1>4. ASSUME NEW s \in B, Before(s, r) PROVE FALSE
  <2>1. Cardinality(Ahead(S, s)) < Cardinality(Ahead(S, r))
    BY <1>4, AheadGrows
  <2>2. Cardinality(Ahead(S, r)) <= Cardinality(Ahead(S, s))
    BY <1>2, <1>3
  <2>3. Cardinality(Ahead(S, s)) \in Nat /\ Cardinality(Ahead(S, r)) \in Nat
    BY AheadFinite
  <2> QED
    BY <2>1, <2>2, <2>3
<1> QED
  BY <1>4

\* The places of a list are numbered from 0 without a gap: a page that leaves a
\* report of it out is full.
LEMMA PageIsFull ==
  ASSUME NEW S \in SUBSET ReportIds, NEW n \in Nat, NEW r \in S, r \notin First(S, n)
  PROVE  Cardinality(First(S, n)) = n
<1> DEFINE N     == Cardinality(S)
           rank  == [s \in S |-> Cardinality(Ahead(S, s))]
           F     == First(S, n)
           short == [s \in F |-> Cardinality(Ahead(S, s))]
<1>1. N \in Nat /\ IsFiniteSet(S)
  BY FiniteReports
<1>2. ASSUME NEW s \in S
      PROVE  Cardinality(Ahead(S, s)) \in 0 .. N - 1
  <2>1. Ahead(S, s) \in SUBSET S /\ Ahead(S, s) # S
    BY BeforeIrreflexive DEF Ahead
  <2>2. Cardinality(Ahead(S, s)) <= N /\ Cardinality(Ahead(S, s)) # N
    BY <1>1, <2>1, FS_Subset
  <2>3. Cardinality(Ahead(S, s)) \in Nat
    BY AheadFinite
  <2> QED
    BY <1>1, <2>2, <2>3
<1>3. \A s, t \in S : Cardinality(Ahead(S, s)) = Cardinality(Ahead(S, t)) => s = t
  <2> SUFFICES ASSUME NEW s \in S, NEW t \in S, s # t
               PROVE  Cardinality(Ahead(S, s)) # Cardinality(Ahead(S, t))
    OBVIOUS
  <2>1. Before(s, t) \/ Before(t, s)
    BY BeforeTotal
  <2>2. /\ Cardinality(Ahead(S, s)) \in Nat /\ Cardinality(Ahead(S, t)) \in Nat
        /\ \/ Cardinality(Ahead(S, s)) < Cardinality(Ahead(S, t))
           \/ Cardinality(Ahead(S, t)) < Cardinality(Ahead(S, s))
    BY <2>1, AheadFinite, AheadGrows
  <2> QED
    BY <2>2
<1>4. IsFiniteSet(0 .. N - 1) /\ Cardinality(0 .. N - 1) = N
  <2>1. N - 1 \in Int /\ 0 \in Int
    BY <1>1
  <2>2. /\ IsFiniteSet(0 .. N - 1)
        /\ Cardinality(0 .. N - 1) = IF 0 > N - 1 THEN 0 ELSE N - 1 - 0 + 1
    BY <2>1, FS_Interval
  <2> QED
    BY <1>1, <2>2
<1>5. rank \in Injection(S, 0 .. N - 1)
  <2>1. rank \in [S -> 0 .. N - 1]
    BY <1>2
  <2> QED
    BY <1>3, <2>1 DEF Injection, IsInjective
<1>6. rank \in Surjection(S, 0 .. N - 1)
  BY <1>4, <1>5, FS_Injection
<1>7. Cardinality(Ahead(S, r)) \in Nat /\ n <= Cardinality(Ahead(S, r)) /\ n <= N
  <2>1. Cardinality(Ahead(S, r)) \in 0 .. N - 1
    BY <1>2
  <2>2. ~(Cardinality(Ahead(S, r)) < n)
    BY DEF First
  <2> QED
    BY <1>1, <2>1, <2>2
<1>8. \A s : s \in F <=> s \in S /\ Cardinality(Ahead(S, s)) < n
  BY DEF First
<1>9. short \in [F -> 0 .. n - 1]
  <2>1. ASSUME NEW s \in F PROVE Cardinality(Ahead(S, s)) \in 0 .. n - 1
    BY <1>1, <1>2, <1>8
  <2> QED
    BY <2>1
<1>10. ASSUME NEW i \in 0 .. n - 1 PROVE \E s \in F : short[s] = i
  <2>1. i \in 0 .. N - 1 /\ i < n
    BY <1>1, <1>7
  <2>2. PICK s \in S : rank[s] = i
    BY <1>6, <2>1 DEF Surjection
  <2>3. s \in F
    BY <1>8, <2>1, <2>2
  <2> QED
    BY <2>2, <2>3
<1>11. F \in SUBSET S /\ IsFiniteSet(F)
  <2>1. F \in SUBSET S
    BY <1>8
  <2> QED
    BY <1>1, <2>1, FS_Subset
<1>12. \A s, t \in F : short[s] = short[t] => s = t
  BY <1>3, <1>8
<1> HIDE DEF short, F
<1>13. short \in Bijection(F, 0 .. n - 1)
  BY <1>9, <1>10, <1>12 DEF Bijection, Injection, Surjection, IsInjective
<1>14. Cardinality(0 .. n - 1) = Cardinality(F)
  BY <1>11, <1>13, FS_Bijection DEF ExistsBijection
<1>15. Cardinality(0 .. n - 1) = n
  BY FS_Interval
<1> QED
  BY <1>14, <1>15 DEF F

\* What a page leaves out comes after all of it.
LEMMA PageIsInFront ==
  ASSUME NEW S \in SUBSET ReportIds, NEW n \in Nat,
         NEW r \in S, r \notin First(S, n), NEW p \in First(S, n)
  PROVE  Before(p, r)
<1>1. /\ p \in S /\ Cardinality(Ahead(S, p)) < n
      /\ ~(Cardinality(Ahead(S, r)) < n)
  BY DEF First
<1>2. Cardinality(Ahead(S, p)) \in Nat /\ Cardinality(Ahead(S, r)) \in Nat
  BY AheadFinite
<1>3. p # r /\ ~Before(r, p)
  <2>1. ASSUME Before(r, p) PROVE FALSE
    <3>1. Cardinality(Ahead(S, r)) < Cardinality(Ahead(S, p))
      BY <1>1, <2>1, AheadGrows
    <3> QED
      BY <1>1, <1>2, <3>1
  <2> QED
    BY <2>1
<1> QED
  BY <1>1, <1>3, BeforeTotal

LEMMA LatestIsSubset == \A S : Latest(S) \subseteq S
BY DEF Latest

\* The query of a map yields one report of a building.
LEMMA OneOfBuilding ==
  ASSUME NEW S \in SUBSET ReportIds, NEW p \in Latest(S), NEW q \in Latest(S),
         SameBuilding(p, q)
  PROVE  p = q
<1>1. SameBuilding(q, p)
  BY DEF SameBuilding
<1>2. ~Before(p, q) /\ ~Before(q, p) /\ p \in ReportIds /\ q \in ReportIds
  BY <1>1 DEF Latest
<1> QED
  BY <1>2, BeforeTotal

\* And for each report itself or a newer one of its building.
LEMMA LatestShows ==
  ASSUME NEW S \in SUBSET ReportIds, NEW r \in S
  PROVE  \E p \in Latest(S) : p = r \/ (SameBuilding(p, r) /\ Before(p, r))
<1> DEFINE B == {s \in S : s = r \/ (SameBuilding(s, r) /\ Before(s, r))}
<1>1. PICK p \in B : \A s \in B : ~Before(s, p)
  <2>1. B \in SUBSET S /\ r \in B
    OBVIOUS
  <2> QED
    BY <2>1, FrontOf
<1>2. ASSUME NEW s \in S, SameBuilding(p, s), Before(s, p) PROVE FALSE
  <2>1. s \in B
    <3>1. CASE p = r
      BY <1>2, <3>1 DEF SameBuilding
    <3>2. CASE SameBuilding(p, r) /\ Before(p, r)
      <4>1. SameBuilding(s, r)
        BY <1>2, <3>2 DEF SameBuilding
      <4>2. Before(s, r)
        BY <1>2, <3>2, BeforeTransitive
      <4> QED
        BY <4>1, <4>2
    <3> QED
      BY <3>1, <3>2
  <2> QED
    BY <1>1, <1>2, <2>1
<1>3. p \in Latest(S)
  BY <1>2 DEF Latest
<1> QED
  BY <1>3

\* The current report of a timeline comes before the others in it.
LEMMA CurrentIsLast ==
  ASSUME NEW S \in SUBSET ReportIds, S # {}
  PROVE  LastOf(S) \in S /\ \A s \in S \ {LastOf(S)} : Before(LastOf(S), s)
<1>1. PICK r \in S : \A s \in S : ~Before(s, r)
  BY FrontOf
<1>2. \A s \in S \ {r} : Before(r, s)
  BY <1>1, BeforeTotal
<1>3. \E x \in S : \A s \in S \ {x} : Before(x, s)
  BY <1>2
<1> QED
  BY <1>3 DEF LastOf

------------------------------------------------------------------------------
(* A page while the table changes *)

\* What the reports may have been when a query of the page ran: all that stayed
\* and none that was never there; and, if nothing changed, what they are.
Moments == {S \in SUBSET ever : stayed \subseteq S /\ (changes = 0 => S = Matching)}

Counted == {"total", "tiers", "completePct", "severePlusPct"}

\* The page that is open, and the reports observed since.
PageInv ==
  /\ view \in {"off", "areas", "series", "recent", "overview", "map", "tile", "timeline"}
  /\ view \in {"off", "map", "tile", "timeline"} => overview = Blank
  /\ view \notin {"map", "tile", "timeline"} => map = Blank
  /\ stayed \subseteq Matching
  /\ ever \subseteq ReportIds /\ changes \in 0 .. MaxChanges
  /\ view = "off" => stayed = {} /\ ever = {} /\ changes = 0
  /\ view # "off" => Matching \subseteq ever

\* Each part of an overview is of a moment since it was opened, not all of one.
OverviewInv ==
  /\ view = "areas" => DOMAIN overview = Counted
  /\ view = "series" => DOMAIN overview = Counted \union {"areas"}
  /\ view = "recent" => DOMAIN overview = Counted \union {"areas", "series"}
  /\ view = "overview" => DOMAIN overview = Counted \union {"areas", "series", "recent"}
  /\ view \in {"areas", "series", "recent", "overview"} =>
       \E S \in Moments :
          /\ overview.total = Cardinality(S)
          /\ overview.tiers = TierCounts(S)
          /\ overview.completePct = Pct(TierCounts(S).complete, Cardinality(S))
          /\ overview.severePlusPct =
               Pct(TierCounts(S).partial + TierCounts(S).complete, Cardinality(S))
  /\ view \in {"series", "recent", "overview"} =>
       \E S \in Moments : overview.areas = ByPlace(S)
  /\ view \in {"recent", "overview"} =>
       \E S \in Moments : \E now \in Clocks : \E age \in {0, now - Started} :
          overview.series = Series(S, now, age)
  /\ view = "overview" => \E S \in Moments : overview.recent = First(S, RecentSize)

\* The timeline on the map is the one that a pin had among these reports.
TimelineOf(S, others) ==
  LET chain == {r \in S \union others : SameBuilding(r, map.pin)}
  IN /\ BuildingOf[map.pin] # NoBuilding
     /\ map.current = IF chain = {} THEN 0 ELSE LastOf(chain)

\* So is what a map shows.
MapInv ==
  view \in {"map", "tile", "timeline"} =>
    /\ "pins" \in DOMAIN map /\ \E S \in Moments : map.pins = First(Latest(S), PinCap)
    /\ "points" \in DOMAIN map => \E S \in Moments : map.points = Latest(S \intersect Resolved)
    /\ "clusters" \in DOMAIN map => \E S \in Moments : map.clusters = ByCell(S)
    /\ view = "timeline" =>
         \E S \in Moments : \E others \in SUBSET ReportIds :
           TimelineOf(S, others)

DashInv == PageInv /\ OverviewInv /\ MapInv

\* The aggregates are functions of the reports they are given.
LEMMA AggregatesSame ==
  \A S : /\ TierCounts(S)' = TierCounts(S) /\ ByPlace(S)' = ByPlace(S) /\ ByCell(S)' = ByCell(S)
         /\ \A now, age : Series(S, now, age)' = Series(S, now, age)
         /\ \A n : First(S, n)' = First(S, n)
         /\ Latest(S)' = Latest(S) /\ LastOf(S)' = LastOf(S)
BY DEF TierCounts, Count, ByPlace, ByCell, Groups, WorstOf, Series, Bucket, Buckets, Width, Ceil,
       First, Ahead, Before, Latest, SameBuilding, LastOf, Resolved, Rank

LEMMA ChainSame ==
  ASSUME map' = map, NEW S, NEW others PROVE TimelineOf(S, others)' = TimelineOf(S, others)
BY DEF TimelineOf, SameBuilding, LastOf, Before

LEMMA Merge ==
  ASSUME NEW f, NEW g
  PROVE  /\ DOMAIN With(f, g) = DOMAIN f \union DOMAIN g
         /\ \A x \in DOMAIN g : With(f, g)[x] = g[x]
         /\ \A x \in DOMAIN f \ DOMAIN g : With(f, g)[x] = f[x]
BY DEF With

\* The reports of now are those of a moment.
LEMMA NowIsAMoment == ASSUME PageInv, view # "off" PROVE Matching \in Moments
BY DEF PageInv, Moments

\* A change of the table leaves the moments that were.
LEMMA DisturbKeeps ==
  ASSUME DashInv, Disturb
  PROVE  DashInv'
<1>1. /\ view # "off" /\ changes' = changes + 1 /\ changes < MaxChanges
      /\ stayed' = stayed \intersect Matching' /\ ever' = ever \union Matching'
      /\ view' = view /\ overview' = overview /\ map' = map
  BY DEF Disturb
<1>2. Matching' \subseteq ReportIds /\ MaxChanges \in Nat /\ PageInv
  BY DashboardAssumption DEF Matching, DashInv
<1>3. PageInv'
  BY <1>1, <1>2 DEF PageInv
<1>4. Moments \subseteq Moments'
  <2>1. changes' # 0
    BY <1>1, <1>2 DEF PageInv
  <2> QED
    BY <1>1, <2>1 DEF Moments
<1>5. OverviewInv'
  BY <1>1, <1>4, AggregatesSame DEF DashInv, OverviewInv, Counted, Pct
<1>6. MapInv'
  BY <1>1, <1>4, AggregatesSame, ChainSame DEF DashInv, MapInv
<1> QED
  BY <1>3, <1>5, <1>6 DEF DashInv

\* What an opened page observes begins with the reports of now.
LEMMA OpenObserves ==
  ASSUME DashInv, Open, view' # "off"
  PROVE  /\ Matching' = Matching /\ Matching \in Moments'
         /\ stayed' \subseteq Matching' /\ Matching' \subseteq ever'
         /\ ever' \subseteq ReportIds /\ changes' \in 0 .. MaxChanges
<1>1. /\ row' = row /\ stayed' = Matching /\ ever' = Matching /\ changes' = changes
  BY DEF Open, readVars, vars
<1>2. Matching' = Matching /\ Matching \subseteq ReportIds
  BY <1>1 DEF Matching
<1>3. changes \in 0 .. MaxChanges
  BY DEF DashInv, PageInv
<1> QED
  BY <1>1, <1>2, <1>3 DEF Moments

LEMMA StatsCountsKeeps ==
  ASSUME DashInv, StatsCounts
  PROVE  DashInv'
<1>1. view' = "areas" /\ map' = map /\ view = "off"
  BY DEF StatsCounts, Open
<1>2. /\ Matching' = Matching /\ Matching \in Moments'
      /\ stayed' \subseteq Matching' /\ Matching' \subseteq ever'
      /\ ever' \subseteq ReportIds /\ changes' \in 0 .. MaxChanges
  BY <1>1, OpenObserves DEF StatsCounts
<1>3. PageInv'
  BY <1>1, <1>2 DEF DashInv, PageInv, Blank
<1> DEFINE S == Matching
           tiers == TierCounts(S)
           total == Cardinality(S)
<1>4. overview' = [total |-> total, tiers |-> tiers,
                   completePct |-> Pct(tiers.complete, total),
                   severePlusPct |-> Pct(tiers.partial + tiers.complete, total)]
  BY DEF StatsCounts
<1>5. /\ DOMAIN overview' = Counted
      /\ overview'.total = total /\ overview'.tiers = tiers
      /\ overview'.completePct = Pct(tiers.complete, total)
      /\ overview'.severePlusPct = Pct(tiers.partial + tiers.complete, total)
  BY <1>4 DEF Counted
<1>6. \E R \in Moments' :
        /\ overview'.total = Cardinality(R)
        /\ overview'.tiers = TierCounts(R)
        /\ overview'.completePct = Pct(TierCounts(R).complete, Cardinality(R))
        /\ overview'.severePlusPct =
             Pct(TierCounts(R).partial + TierCounts(R).complete, Cardinality(R))
  BY <1>2, <1>5
<1> HIDE DEF S, tiers, total
<1>7. OverviewInv'
  BY <1>1, <1>5, <1>6, AggregatesSame DEF OverviewInv, Pct, Counted
<1>8. MapInv'
  BY <1>1 DEF MapInv
<1> QED
  BY <1>3, <1>7, <1>8 DEF DashInv

\* A query of an open page changes nothing of what is observed.
LEMMA ReadObserves ==
  ASSUME DashInv, view # "off", UNCHANGED <<readVars, stayed, ever, changes>>
  PROVE  Matching' = Matching /\ Moments' = Moments /\ Matching \in Moments
<1>1. row' = row
  BY DEF readVars, vars
<1>2. Matching' = Matching
  BY <1>1 DEF Matching
<1>3. Moments' = Moments
  BY <1>2 DEF Moments
<1> QED
  BY <1>2, <1>3, NowIsAMoment DEF DashInv

LEMMA AreaGroupsKeeps ==
  ASSUME DashInv, AreaGroups
  PROVE  DashInv'
<1> DEFINE part == [areas |-> ByPlace(Matching)]
<1>1. /\ view = "areas" /\ view' = "series" /\ overview' = With(overview, part)
      /\ UNCHANGED <<readVars, map, stayed, ever, changes>>
  BY DEF AreaGroups, Read
<1>2. Matching' = Matching /\ Moments' = Moments /\ Matching \in Moments
  BY <1>1, ReadObserves
<1>3. DOMAIN part = {"areas"} /\ part["areas"] = ByPlace(Matching)
  OBVIOUS
<1> HIDE DEF part
<1>4. /\ DOMAIN overview' = Counted \union {"areas"}
      /\ overview'["areas"] = ByPlace(Matching)
      /\ \A k \in Counted : overview'[k] = overview[k]
  <2>1. /\ DOMAIN With(overview, part) = DOMAIN overview \union DOMAIN part
        /\ \A x \in DOMAIN part : With(overview, part)[x] = part[x]
        /\ \A x \in DOMAIN overview \ DOMAIN part : With(overview, part)[x] = overview[x]
    BY Merge
  <2> QED
    BY <1>1, <1>3, <2>1 DEF DashInv, OverviewInv, Counted
<1>5. PageInv'
  BY <1>1, <1>2 DEF DashInv, PageInv
<1>6. OverviewInv'
  BY <1>1, <1>2, <1>4, AggregatesSame DEF DashInv, OverviewInv, Counted, Pct
<1>7. MapInv'
  BY <1>1 DEF MapInv
<1> QED
  BY <1>5, <1>6, <1>7 DEF DashInv

LEMMA TimeSeriesKeeps ==
  ASSUME DashInv, TimeSeries
  PROVE  DashInv'
<1>1. PICK now \in Clocks : \E age \in {0, now - Started} :
        Read([series |-> Series(Matching, now, age)], "recent")
  BY DEF TimeSeries
<1>2. PICK age \in {0, now - Started} : Read([series |-> Series(Matching, now, age)], "recent")
  BY <1>1
<1> DEFINE part == [series |-> Series(Matching, now, age)]
<1>3. /\ view = "series" /\ view' = "recent" /\ overview' = With(overview, part)
      /\ UNCHANGED <<readVars, map, stayed, ever, changes>>
  BY <1>2 DEF TimeSeries, Read
<1>4. Matching' = Matching /\ Moments' = Moments /\ Matching \in Moments
  BY <1>3, ReadObserves
<1>5. DOMAIN part = {"series"} /\ part["series"] = Series(Matching, now, age)
  OBVIOUS
<1> HIDE DEF part
<1>6. /\ DOMAIN overview' = Counted \union {"areas", "series"}
      /\ overview'["series"] = Series(Matching, now, age)
      /\ \A k \in Counted \union {"areas"} : overview'[k] = overview[k]
  <2>1. /\ DOMAIN With(overview, part) = DOMAIN overview \union DOMAIN part
        /\ \A x \in DOMAIN part : With(overview, part)[x] = part[x]
        /\ \A x \in DOMAIN overview \ DOMAIN part : With(overview, part)[x] = overview[x]
    BY Merge
  <2> QED
    BY <1>3, <1>5, <2>1 DEF DashInv, OverviewInv, Counted
<1>7. PageInv'
  BY <1>3, <1>4 DEF DashInv, PageInv
<1>8. OverviewInv'
  BY <1>1, <1>2, <1>3, <1>4, <1>6, AggregatesSame DEF DashInv, OverviewInv, Counted, Pct
<1>9. MapInv'
  BY <1>3 DEF MapInv
<1> QED
  BY <1>7, <1>8, <1>9 DEF DashInv

LEMMA RecentKeeps ==
  ASSUME DashInv, Recent
  PROVE  DashInv'
<1> DEFINE part == [recent |-> First(Matching, RecentSize)]
<1>1. /\ view = "recent" /\ view' = "overview" /\ overview' = With(overview, part)
      /\ UNCHANGED <<readVars, map, stayed, ever, changes>>
  BY DEF Recent, Read
<1>2. Matching' = Matching /\ Moments' = Moments /\ Matching \in Moments
  BY <1>1, ReadObserves
<1>3. DOMAIN part = {"recent"} /\ part["recent"] = First(Matching, RecentSize)
  OBVIOUS
<1> HIDE DEF part
<1>4. /\ DOMAIN overview' = Counted \union {"areas", "series", "recent"}
      /\ overview'["recent"] = First(Matching, RecentSize)
      /\ \A k \in Counted \union {"areas", "series"} : overview'[k] = overview[k]
  <2>1. /\ DOMAIN With(overview, part) = DOMAIN overview \union DOMAIN part
        /\ \A x \in DOMAIN part : With(overview, part)[x] = part[x]
        /\ \A x \in DOMAIN overview \ DOMAIN part : With(overview, part)[x] = overview[x]
    BY Merge
  <2> QED
    BY <1>1, <1>3, <2>1 DEF DashInv, OverviewInv, Counted
<1>5. PageInv'
  BY <1>1, <1>2 DEF DashInv, PageInv
<1>6. OverviewInv'
  BY <1>1, <1>2, <1>4, AggregatesSame DEF DashInv, OverviewInv, Counted, Pct
<1>7. MapInv'
  BY <1>1 DEF MapInv
<1> QED
  BY <1>5, <1>6, <1>7 DEF DashInv

LEMMA LatestPerBuildingKeeps ==
  ASSUME DashInv, LatestPerBuilding
  PROVE  DashInv'
<1>1. /\ view' = "map" /\ overview' = overview /\ view = "off"
      /\ map' = [pins |-> First(Latest(Matching), PinCap)]
  BY DEF LatestPerBuilding, Open
<1>2. /\ Matching' = Matching /\ Matching \in Moments'
      /\ stayed' \subseteq Matching' /\ Matching' \subseteq ever'
      /\ ever' \subseteq ReportIds /\ changes' \in 0 .. MaxChanges
  BY <1>1, OpenObserves DEF LatestPerBuilding
<1>3. PageInv'
  BY <1>1, <1>2 DEF DashInv, PageInv, Blank
<1>4. DOMAIN map' = {"pins"} /\ map'["pins"] = First(Latest(Matching), PinCap)
  BY <1>1
<1>5. OverviewInv'
  BY <1>1 DEF OverviewInv
<1>6. MapInv'
  BY <1>1, <1>2, <1>4, AggregatesSame DEF MapInv
<1> QED
  BY <1>3, <1>5, <1>6 DEF DashInv

LEMMA MapTileMVTKeeps ==
  ASSUME DashInv, MapTileMVT
  PROVE  DashInv'
<1>1. /\ view = "map" /\ view' = "tile"
      /\ UNCHANGED <<readVars, overview, stayed, ever, changes>>
  BY DEF MapTileMVT, Draw
<1>2. Matching' = Matching /\ Moments' = Moments /\ Matching \in Moments
  BY <1>1, ReadObserves
<1>3. PageInv'
  BY <1>1, <1>2 DEF DashInv, PageInv
<1>4. OverviewInv'
  BY <1>1 DEF OverviewInv
<1>5. CASE Draw([points |-> Latest(Matching \intersect Resolved)], "tile")
  <2> DEFINE part == [points |-> Latest(Matching \intersect Resolved)]
  <2>1. map' = With(map, part)
    BY <1>5 DEF Draw
  <2>2. DOMAIN part = {"points"} /\ part["points"] = Latest(Matching \intersect Resolved)
    OBVIOUS
  <2> HIDE DEF part
  <2>3. /\ DOMAIN map' = DOMAIN map \union {"points"}
        /\ map'["points"] = Latest(Matching \intersect Resolved)
        /\ \A k \in DOMAIN map \ {"points"} : map'[k] = map[k]
    <3>1. /\ DOMAIN With(map, part) = DOMAIN map \union DOMAIN part
          /\ \A x \in DOMAIN part : With(map, part)[x] = part[x]
          /\ \A x \in DOMAIN map \ DOMAIN part : With(map, part)[x] = map[x]
      BY Merge
    <3> QED
      BY <2>1, <2>2, <3>1
  <2>4. MapInv'
    BY <1>1, <1>2, <2>3, AggregatesSame DEF DashInv, MapInv, Resolved
  <2> QED
    BY <1>3, <1>4, <2>4 DEF DashInv
<1>6. CASE Draw([clusters |-> ByCell(Matching)], "tile")
  <2> DEFINE part == [clusters |-> ByCell(Matching)]
  <2>1. map' = With(map, part)
    BY <1>6 DEF Draw
  <2>2. DOMAIN part = {"clusters"} /\ part["clusters"] = ByCell(Matching)
    OBVIOUS
  <2> HIDE DEF part
  <2>3. /\ DOMAIN map' = DOMAIN map \union {"clusters"}
        /\ map'["clusters"] = ByCell(Matching)
        /\ \A k \in DOMAIN map \ {"clusters"} : map'[k] = map[k]
    <3>1. /\ DOMAIN With(map, part) = DOMAIN map \union DOMAIN part
          /\ \A x \in DOMAIN part : With(map, part)[x] = part[x]
          /\ \A x \in DOMAIN map \ DOMAIN part : With(map, part)[x] = map[x]
      BY Merge
    <3> QED
      BY <2>1, <2>2, <3>1
  <2>4. MapInv'
    BY <1>1, <1>2, <2>3, AggregatesSame DEF DashInv, MapInv, Resolved
  <2> QED
    BY <1>3, <1>4, <2>4 DEF DashInv
<1> QED
  BY <1>5, <1>6 DEF MapTileMVT

LEMMA BuildingTimelineKeeps ==
  ASSUME DashInv, BuildingTimeline
  PROVE  DashInv'
<1>1. PICK pin \in {p \in map.pins : BuildingOf[p] # NoBuilding} :
        \E others \in SUBSET {r \in ReportIds : row[r] = "other"} :
          LET chain == {r \in Matching \union others : SameBuilding(r, pin)}
          IN Draw([pin |-> pin, chain |-> chain,
                   current |-> IF chain = {} THEN 0 ELSE LastOf(chain)], "timeline")
  BY DEF BuildingTimeline
<1>2. PICK others \in SUBSET {r \in ReportIds : row[r] = "other"} :
        LET chain == {r \in Matching \union others : SameBuilding(r, pin)}
        IN Draw([pin |-> pin, chain |-> chain,
                 current |-> IF chain = {} THEN 0 ELSE LastOf(chain)], "timeline")
  BY <1>1
<1> DEFINE chain == {r \in Matching \union others : SameBuilding(r, pin)}
           current == IF chain = {} THEN 0 ELSE LastOf(chain)
           part == [pin |-> pin, chain |-> chain, current |-> current]
<1>3. Draw(part, "timeline")
  BY <1>2
<1>4. /\ view \in {"map", "tile"} /\ view' = "timeline" /\ map' = With(map, part)
      /\ UNCHANGED <<readVars, overview, stayed, ever, changes>>
  BY <1>3 DEF BuildingTimeline, Draw
<1>5. Matching' = Matching /\ Moments' = Moments /\ Matching \in Moments
  BY <1>4, ReadObserves
<1>6. PageInv'
  BY <1>4, <1>5 DEF DashInv, PageInv
<1>7. OverviewInv'
  BY <1>4 DEF OverviewInv
<1>8. /\ DOMAIN part = {"pin", "chain", "current"}
      /\ part["pin"] = pin /\ part["current"] = current
  OBVIOUS
<1> HIDE DEF part
<1>9. /\ DOMAIN map' = DOMAIN map \union {"pin", "chain", "current"}
      /\ map'["pin"] = pin /\ map'["current"] = current
      /\ \A k \in DOMAIN map \ {"pin", "chain", "current"} : map'[k] = map[k]
  <2>1. /\ DOMAIN With(map, part) = DOMAIN map \union DOMAIN part
        /\ \A x \in DOMAIN part : With(map, part)[x] = part[x]
        /\ \A x \in DOMAIN map \ DOMAIN part : With(map, part)[x] = map[x]
    BY Merge
  <2> QED
    BY <1>4, <1>8, <2>1
<1>10. TimelineOf(Matching, others)'
  <2>1. map'.pin = pin /\ map'.current = current /\ BuildingOf[pin] # NoBuilding
    BY <1>1, <1>9
  <2> QED
    BY <1>5, <2>1 DEF TimelineOf, SameBuilding, LastOf, Before
<1>11. MapInv'
  <2>1. \E S \in Moments' : \E rest \in SUBSET ReportIds : TimelineOf(S, rest)'
    BY <1>5, <1>10
  <2> QED
    BY <1>4, <1>5, <1>9, <2>1, AggregatesSame DEF DashInv, MapInv, Resolved
<1> QED
  BY <1>6, <1>7, <1>11 DEF DashInv

LEMMA LeaveKeeps == ASSUME DashInv, Leave PROVE DashInv'
BY DashboardAssumption DEF DashInv, Leave, PageInv, OverviewInv, MapInv

\* Nothing of a page is there when none is open.
LEMMA NoPageKeeps ==
  ASSUME DashInv, view = "off", UNCHANGED dash
  PROVE  DashInv'
BY DEF DashInv, dash, PageInv, OverviewInv, MapInv

LEMMA PageStutterKeeps ==
  ASSUME DashInv, UNCHANGED dashVars
  PROVE  DashInv'
<1>1. /\ row' = row /\ UNCHANGED <<view, overview, map, stayed, ever, changes>>
  BY DEF dashVars, readVars, vars, dash
<1>2. Matching' = Matching
  BY <1>1 DEF Matching
<1>3. Moments' = Moments
  BY <1>1, <1>2 DEF Moments
<1>4. PageInv'
  BY <1>1, <1>2 DEF DashInv, PageInv
<1>5. OverviewInv'
  BY <1>1, <1>3, AggregatesSame DEF DashInv, OverviewInv, Counted, Pct
<1>6. MapInv'
  BY <1>1, <1>3, AggregatesSame, ChainSame DEF DashInv, MapInv
<1> QED
  BY <1>4, <1>5, <1>6 DEF DashInv

\* Whatever the table does between its queries, each part of an overview or of a
\* map is what the query reads of the reports of some moment since the page was
\* opened.
THEOREM PageInvariant == DashSpec => []DashInv
<1>1. DashInit => DashInv
  BY DashboardAssumption DEF DashInit, DashInv, PageInv, OverviewInv, MapInv
<1>2. DashInv /\ [DashNext]_dashVars => DashInv'
  <2> SUFFICES ASSUME DashInv, [DashNext]_dashVars PROVE DashInv'
    OBVIOUS
  <2>1. CASE view = "off" /\ UNCHANGED dash
    BY <2>1, NoPageKeeps
  <2>2. CASE Disturb
    BY <2>2, DisturbKeeps
  <2>3. CASE StatsCounts
    BY <2>3, StatsCountsKeeps
  <2>4. CASE AreaGroups
    BY <2>4, AreaGroupsKeeps
  <2>5. CASE TimeSeries
    BY <2>5, TimeSeriesKeeps
  <2>6. CASE Recent
    BY <2>6, RecentKeeps
  <2>7. CASE LatestPerBuilding
    BY <2>7, LatestPerBuildingKeeps
  <2>8. CASE MapTileMVT
    BY <2>8, MapTileMVTKeeps
  <2>9. CASE BuildingTimeline
    BY <2>9, BuildingTimelineKeeps
  <2>10. CASE Leave
    BY <2>10, LeaveKeeps
  <2>11. CASE UNCHANGED dashVars
    BY <2>11, PageStutterKeeps
  <2> QED
    BY <2>1, <2>2, <2>3, <2>4, <2>5, <2>6, <2>7, <2>8, <2>9, <2>10, <2>11 DEF DashNext, PageNext
<1> QED
  BY <1>1, <1>2, PTL DEF DashSpec

LEMMA MomentFits ==
  ASSUME PageInv, NEW S \in Moments
  PROVE  /\ S \in SUBSET ReportIds /\ S \in SUBSET ever /\ stayed \subseteq S
         /\ stayed \in SUBSET ReportIds /\ ever \in SUBSET ReportIds
         /\ changes = 0 => S = Matching
BY DEF PageInv, Moments

\* The reports of a kind at some moment are as many as stayed or more, and no more
\* than were there.
LEMMA MomentBetween ==
  ASSUME PageInv, NEW S \in Moments, NEW X
  PROVE  Between(Cardinality(S \intersect X), X)
<1>1. /\ S \in SUBSET ReportIds /\ S \in SUBSET ever /\ stayed \subseteq S
      /\ ever \in SUBSET ReportIds
  BY MomentFits
<1>2. stayed \intersect X \in SUBSET (S \intersect X) /\ S \intersect X \in SUBSET ReportIds
  BY <1>1
<1>3. S \intersect X \in SUBSET (ever \intersect X) /\ ever \intersect X \in SUBSET ReportIds
  BY <1>1
<1>4. Cardinality(stayed \intersect X) <= Cardinality(S \intersect X)
  BY <1>2, MonotoneCount
<1>5. Cardinality(S \intersect X) <= Cardinality(ever \intersect X)
  BY <1>3, MonotoneCount
<1> QED
  BY <1>4, <1>5 DEF Between

LEMMA AllBetween ==
  ASSUME PageInv, NEW S \in Moments
  PROVE  Between(Cardinality(S), ReportIds)
<1>1. S \intersect ReportIds = S
  BY MomentFits
<1> QED
  BY <1>1, MomentBetween

LEMMA TypeOfDash == DashInv => DashTypeOK
<1> SUFFICES ASSUME DashInv PROVE DashTypeOK
  OBVIOUS
<1>1. PageInv /\ OverviewInv /\ MapInv
  BY DEF DashInv
<1>2. DOMAIN Blank = {"none"}
  BY DEF Blank
<1>3. view \in {"areas", "series", "recent", "overview"} => overview # Blank
  <2>1. "total" \in Counted /\ "total" # "none"
    BY DEF Counted
  <2>2. view \in {"areas", "series", "recent", "overview"} => "total" \in DOMAIN overview
    BY <1>1, <2>1 DEF OverviewInv
  <2> QED
    BY <1>2, <2>2
<1>4. view \in {"map", "tile", "timeline"} => map # Blank
  <2>1. view \in {"map", "tile", "timeline"} => "pins" \in DOMAIN map
    BY <1>1 DEF MapInv
  <2> QED
    BY <1>2, <2>1
<1>5. stayed \subseteq ever
  BY <1>1 DEF PageInv
<1>6. /\ view \in {"off", "areas", "series", "recent", "overview", "map", "tile", "timeline"}
      /\ view \in {"off", "map", "tile", "timeline"} => overview = Blank
      /\ view \notin {"map", "tile", "timeline"} => map = Blank
      /\ stayed \subseteq Matching /\ ever \subseteq ReportIds /\ changes \in 0 .. MaxChanges
  BY <1>1 DEF PageInv
<1> QED
  BY <1>3, <1>4, <1>5, <1>6 DEF DashTypeOK

\* The numbers of an overview fit together although its queries run at different
\* moments: for any reports, tiers, places, clocks, and changes between the queries.
THEOREM OverviewAddsUpAlways == DashSpec => []OverviewAddsUp
<1>1. DashInv => OverviewAddsUp
  <2> SUFFICES ASSUME DashInv, view = "overview" PROVE OverviewAddsUp
    BY TypeOfDash DEF OverviewAddsUp
  <2>1. PageInv /\ OverviewInv
    BY DEF DashInv
  <2>2. PICK C \in Moments :
          /\ overview.total = Cardinality(C)
          /\ overview.tiers = TierCounts(C)
          /\ overview.completePct = Pct(TierCounts(C).complete, Cardinality(C))
          /\ overview.severePlusPct =
               Pct(TierCounts(C).partial + TierCounts(C).complete, Cardinality(C))
    BY <2>1 DEF OverviewInv
  <2>3. PICK A \in Moments : overview.areas = ByPlace(A)
    BY <2>1 DEF OverviewInv
  <2>4. PICK B \in Moments : \E now \in Clocks : \E age \in {0, now - Started} :
          overview.series = Series(B, now, age)
    BY <2>1 DEF OverviewInv
  <2>5. PICK R \in Moments : overview.recent = First(R, RecentSize)
    BY <2>1 DEF OverviewInv
  <2>6. /\ C \in SUBSET ReportIds /\ A \in SUBSET ReportIds
        /\ B \in SUBSET ReportIds /\ R \in SUBSET ReportIds
    BY <2>1, MomentFits
  <2>7. /\ Total(overview.tiers) = overview.total
        /\ overview.completePct <= overview.severePlusPct /\ overview.severePlusPct <= 100
    <3> DEFINE n == Cardinality(C)
               c == TierCounts(C).complete
               p == TierCounts(C).partial
    <3>1. /\ Total(TierCounts(C)) = n /\ c \in Nat /\ p \in Nat /\ p + c <= n /\ n \in Nat
      BY <2>6, TiersAddUp, FiniteReports
    <3> HIDE DEF n, c, p
    <3>2. p + c \in Nat /\ c <= p + c
      BY <3>1
    <3>3. Pct(c, n) <= Pct(p + c, n) /\ Pct(p + c, n) <= 100
      BY <3>1, <3>2, PctGrows
    <3> QED
      BY <2>2, <3>1, <3>3 DEF n, c, p
  <2>8. Between(overview.total, ReportIds)
    BY <2>1, <2>2, AllBetween
  <2>9. /\ Between(Total(overview.series), ReportIds)
        /\ changes = 0 => Total(overview.series) = overview.total
    <3>1. PICK now \in Clocks :
            \E age \in {0, now - Started} : overview.series = Series(B, now, age)
      BY <2>4
    <3>2. PICK age \in {0, now - Started} : overview.series = Series(B, now, age)
      BY <3>1
    <3>3. now \in Int /\ age \in Int
      BY DashboardAssumption
    <3>4. Total(overview.series) = Cardinality(B)
      BY <2>6, <3>2, <3>3, SeriesAddsUp
    <3>5. changes = 0 => B = C
      BY <2>1, MomentFits
    <3> QED
      BY <2>1, <2>2, <3>4, <3>5, AllBetween
  <2> DEFINE P == {r \in A : PlaceOf[r] # NoPlace}
  <2>10. overview.areas = Groups(P, PlaceOf) /\ P \in SUBSET ReportIds
    BY <2>3, <2>6 DEF ByPlace
  <2>11. ASSUME NEW r \in {s \in stayed : PlaceOf[s] # NoPlace}
         PROVE  /\ PlaceOf[r] \in DOMAIN overview.areas
                /\ Rank[Tier[r]] <= overview.areas[PlaceOf[r]].worst
    <3>1. r \in P
      BY <2>1, MomentFits
    <3>2. PlaceOf[r] \in DOMAIN Groups(P, PlaceOf)
      BY <3>1 DEF Groups
    <3>3. Rank[Tier[r]] <= Groups(P, PlaceOf)[PlaceOf[r]].worst
      BY <2>10, <3>1, WorstIsWorst
    <3> QED
      BY <2>10, <3>2, <3>3
  <2>12. ASSUME NEW place \in DOMAIN overview.areas
         PROVE  Between(overview.areas[place].n, {r \in ReportIds : PlaceOf[r] = place})
    <3> DEFINE X == {r \in ReportIds : PlaceOf[r] = place}
    <3>1. place \in DOMAIN Groups(P, PlaceOf)
      BY <2>10
    <3>2. Groups(P, PlaceOf)[place].n = Cardinality({r \in P : PlaceOf[r] = place})
      BY <3>1 DEF Groups
    <3>3. place # NoPlace
      BY <3>1 DEF Groups
    <3>4. {r \in P : PlaceOf[r] = place} = A \intersect X
      BY <2>6, <3>3
    <3>5. Between(Cardinality(A \intersect X), X)
      BY <2>1, MomentBetween
    <3> QED
      BY <2>10, <3>2, <3>4, <3>5
  <2>13. ASSUME NEW r \in stayed \ overview.recent
         PROVE  Cardinality(Ahead(ever, r)) >= RecentSize
    <3>1. r \in R /\ r \notin First(R, RecentSize) /\ R \in SUBSET ever /\ ever \in SUBSET ReportIds
      BY <2>1, <2>5, MomentFits
    <3>2. ~(Cardinality(Ahead(R, r)) < RecentSize)
      BY <3>1 DEF First
    <3>3. Ahead(R, r) \in SUBSET Ahead(ever, r)
      BY <3>1 DEF Ahead
    <3>4. /\ Cardinality(Ahead(R, r)) \in Nat /\ IsFiniteSet(Ahead(ever, r))
          /\ Cardinality(Ahead(ever, r)) \in Nat
      BY <2>6, <3>1, AheadFinite
    <3>5. Cardinality(Ahead(R, r)) <= Cardinality(Ahead(ever, r))
      BY <3>3, <3>4, FS_Subset
    <3>6. RecentSize \in Nat
      BY DashboardAssumption
    <3> QED
      BY <3>2, <3>4, <3>5, <3>6
  <2> HIDE DEF P
  <2> QED
    BY <2>7, <2>8, <2>9, <2>11, <2>12, <2>13, TypeOfDash DEF OverviewAddsUp
<1> QED
  BY <1>1, PageInvariant, PTL

\* What one map shows agrees, although its pins, tiles and timelines are read at
\* different moments: for any reports, buildings and caps.
THEOREM MapAgreesAlways == DashSpec => []MapAgrees
<1>1. DashInv => MapAgrees
  <2> SUFFICES ASSUME DashInv PROVE MapAgrees
    OBVIOUS
  <2>1. PageInv /\ MapInv
    BY DEF DashInv
  <2>2. ASSUME view \notin {"map", "tile", "timeline"}
        PROVE  MapAgrees
    <3>1. map = Blank /\ DOMAIN Blank = {"none"}
      BY <2>1, <2>2 DEF PageInv, Blank
    <3>2. "pins" \notin DOMAIN map /\ "points" \notin DOMAIN map /\ "clusters" \notin DOMAIN map
      BY <3>1
    <3> QED
      BY <2>2, <3>2 DEF MapAgrees
  <2> SUFFICES ASSUME view \in {"map", "tile", "timeline"} PROVE MapAgrees
    BY <2>2
  <2>3. PICK S \in Moments : map.pins = First(Latest(S), PinCap)
    BY <2>1 DEF MapInv
  <2>4. /\ S \in SUBSET ReportIds /\ stayed \subseteq S /\ (changes = 0 => S = Matching)
        /\ Latest(S) \in SUBSET ReportIds /\ PinCap \in Nat
    BY <2>1, MomentFits, LatestIsSubset, DashboardAssumption
  <2>5. map.pins \subseteq Latest(S)
    BY <2>3 DEF First
  <2>6. ASSUME NEW p \in map.pins, NEW q \in map.pins, SameBuilding(p, q) PROVE p = q
    BY <2>4, <2>5, <2>6, OneOfBuilding
  <2>7. ASSUME NEW r \in stayed
        PROVE  ShownBy(map.pins, r) \/ Cardinality(Ahead(map.pins, r)) = PinCap
    <3>1. PICK p \in Latest(S) : p = r \/ (SameBuilding(p, r) /\ Before(p, r))
      BY <2>4, LatestShows
    <3>2. CASE p \in map.pins
      BY <3>1, <3>2 DEF ShownBy
    <3>3. CASE p \notin map.pins
      <4>1. Cardinality(map.pins) = PinCap
        BY <2>3, <2>4, <3>3, PageIsFull
      <4>2. ASSUME NEW q \in map.pins PROVE Before(q, r)
        <5>1. Before(q, p)
          BY <2>3, <2>4, <3>3, PageIsInFront
        <5>2. q \in ReportIds /\ p \in ReportIds /\ r \in ReportIds
          BY <2>4, <2>5
        <5> QED
          BY <3>1, <5>1, <5>2, BeforeTransitive
      <4>3. Ahead(map.pins, r) = map.pins
        BY <4>2 DEF Ahead
      <4> QED
        BY <4>1, <4>3
    <3> QED
      BY <3>2, <3>3
  <2>8. ASSUME "points" \in DOMAIN map
        PROVE  /\ \A p, q \in map.points : SameBuilding(p, q) => p = q
               /\ \A r \in stayed \intersect Resolved : ShownBy(map.points, r)
               /\ changes = 0 => map.pins \intersect Resolved \subseteq map.points
    <3>1. PICK T \in Moments : map.points = Latest(T \intersect Resolved)
      BY <2>1, <2>8 DEF MapInv
    <3>2. /\ T \intersect Resolved \in SUBSET ReportIds /\ stayed \subseteq T
          /\ changes = 0 => T = S
      BY <2>1, <2>4, MomentFits
    <3>3. ASSUME NEW p \in map.points, NEW q \in map.points, SameBuilding(p, q) PROVE p = q
      BY <3>1, <3>2, <3>3, OneOfBuilding
    <3>4. ASSUME NEW r \in stayed \intersect Resolved PROVE ShownBy(map.points, r)
      <4>1. r \in T \intersect Resolved
        BY <3>2
      <4>2. PICK p \in Latest(T \intersect Resolved) : p = r \/ (SameBuilding(p, r) /\ Before(p, r))
        BY <3>2, <4>1, LatestShows
      <4> QED
        BY <3>1, <4>2 DEF ShownBy
    <3>5. changes = 0 => map.pins \intersect Resolved \subseteq map.points
      <4> SUFFICES ASSUME T = S, NEW p \in Latest(S), p \in Resolved
                   PROVE  p \in Latest(T \intersect Resolved)
        BY <2>5, <3>1, <3>2
      <4> QED
        BY DEF Latest
    <3> QED
      BY <3>3, <3>4, <3>5
  <2>9. ASSUME "clusters" \in DOMAIN map
        PROVE  /\ Between(Total([c \in DOMAIN map.clusters |-> map.clusters[c].n]), Resolved)
               /\ \A r \in stayed \intersect Resolved :
                    Rank[Tier[r]] <= map.clusters[Cell[r]].worst
    <3>1. PICK T \in Moments : map.clusters = ByCell(T)
      BY <2>1, <2>9 DEF MapInv
    <3> DEFINE U == T \intersect Resolved
    <3>2. U \in SUBSET ReportIds /\ stayed \subseteq T /\ map.clusters = Groups(U, Cell)
      BY <2>1, <3>1, MomentFits DEF ByCell
    <3>3. Total([c \in DOMAIN Groups(U, Cell) |-> Groups(U, Cell)[c].n]) = Cardinality(U)
      BY <3>2, GroupsAddUp
    <3>4. Between(Cardinality(U), Resolved)
      BY <2>1, MomentBetween
    <3>5. ASSUME NEW r \in stayed \intersect Resolved
          PROVE  Rank[Tier[r]] <= Groups(U, Cell)[Cell[r]].worst
      <4>1. r \in U
        BY <3>2
      <4> HIDE DEF U
      <4> QED
        BY <3>2, <4>1, WorstIsWorst
    <3> HIDE DEF U
    <3> QED
      BY <3>2, <3>3, <3>4, <3>5
  <2>10. ASSUME view = "timeline", map.pin \in stayed
         PROVE  map.current = map.pin \/ Before(map.current, map.pin)
    <3>1. PICK T \in Moments : \E others \in SUBSET ReportIds : TimelineOf(T, others)
      BY <2>1, <2>10 DEF MapInv
    <3>2. PICK others \in SUBSET ReportIds : TimelineOf(T, others)
      BY <3>1
    <3> DEFINE chain == {r \in T \union others : SameBuilding(r, map.pin)}
    <3>3. BuildingOf[map.pin] # NoBuilding /\ map.current = IF chain = {} THEN 0 ELSE LastOf(chain)
      BY <3>2 DEF TimelineOf
    <3>4. map.pin \in T /\ T \in SUBSET ReportIds
      BY <2>1, <2>10, MomentFits
    <3>5. map.pin \in chain /\ chain \in SUBSET ReportIds
      BY <3>3, <3>4 DEF SameBuilding
    <3> HIDE DEF chain
    <3>6. LastOf(chain) \in chain /\ \A s \in chain \ {LastOf(chain)} : Before(LastOf(chain), s)
      BY <3>5, CurrentIsLast
    <3> QED
      BY <3>3, <3>5, <3>6
  <2> QED
    BY <2>6, <2>7, <2>8, <2>9, <2>10 DEF MapAgrees
<1> QED
  BY <1>1, PageInvariant, PTL
==============================================================================
