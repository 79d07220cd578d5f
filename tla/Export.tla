------------------------------- MODULE Export -------------------------------
(***************************************************************************)
(* GET /api/v1/reports/export, over the reports of ReportListing while     *)
(* they change.  The dynamic columns of a file are read by a query of      *)
(* their own before the query that yields the rows.  GeoJSON, CSV and KML  *)
(* are written to the client row by row, after the status; a GeoPackage    *)
(* and a Shapefile are built in temporary files first.                     *)
(*                                                                         *)
(* Data.  A modular answer is the raw key of its section; a row of the     *)
(* file is, by column, the raw key whose answer the cell holds.  Positions *)
(* are longitudes.  A client walks through the list or exports, one at a   *)
(* time.                                                                   *)
(***************************************************************************)
EXTENDS ReportListing, FiniteSetsExt, SequencesExt

CONSTANTS
  Keys,      \* Keys[r]: the raw modular keys of report r
  Snake,     \* Snake[k]: raw key k in snake case
  Unsafe,    \* the names among them that are no identifiers
  Reserved,  \* container-owned columns: fid, geom
  Prefixed,  \* Prefixed[c]: x_ and c, for c in Reserved
  Stable,    \* the columns of the three sections every file has
  Fixed,     \* Fixed[f]: the other columns format f always has
  Keywords,  \* names that SQLite does not take for a column
  Longitude  \* Longitude[r], for the reports that have a position

Formats == {"geojson", "csv", "kml", "gpkg", "shapefile"}
Containers == {"gpkg", "shapefile"}
Resolved == DOMAIN Longitude
RawKeys == UNION {Keys[r] : r \in ReportIds}

ASSUME ExportAssumption == /\ RawKeys \subseteq DOMAIN Snake
                           /\ DOMAIN Fixed = Formats
                           /\ \A c \in Reserved : c \in DOMAIN Prefixed /\ Prefixed[c] \notin Reserved
                           /\ Resolved \subseteq ReportIds
                           /\ \A r \in Resolved : Longitude[r] \in -180 .. 180

VARIABLES
  step,    \* where ExportReports is
  format,
  known,   \* the reports that matched when the columns were read
  columns, \* the dynamic columns
  moment,  \* the reports the row query yields
  todo,    \* those not written yet
  body,    \* the reports written, in order
  index,   \* the offsets of the .shx, in 16-bit words
  box,     \* the bounding box: <<least, greatest>> longitude
  temps,   \* the temporary files
  status,  \* of the answer; 0: not sent
  whole    \* the client has the file up to its end

file == <<known, columns, moment, todo, body, index, box>>
export == <<step, format, file, temps, status, whole>>
readVars == <<vars, export>>

ExportInit == /\ step = "idle" /\ format = "csv"
              /\ known = {} /\ columns = {} /\ moment = {} /\ todo = {}
              /\ body = <<>> /\ index = <<>> /\ box = <<0, 0>>
              /\ temps = {} /\ status = 0 /\ whole = FALSE

------------------------------------------------------------------------------
(* Columns *)

\* The column of a section, for the file and for its rows.
Column(k) == IF Snake[k] \in Reserved THEN Prefixed[Snake[k]] ELSE Snake[k]

Safe(ks) == {k \in ks : Snake[k] \notin Unsafe}

\* Mutant: the columns of the file are named before reserved names are changed.
ExtraColumnsAsIs(ks, f) == {Snake[k] : k \in Safe(ks)} \ (Fixed[f] \union Stable)

\* extraModularColumnsFromKeys.
ExtraColumns(ks, f) == {Column(k) : k \in Safe(ks)} \ (Fixed[f] \union Stable)

\* flattenModular: of several keys of one column one answer is kept.
Flat(r) == {Column(k) : k \in Safe(Keys[r])}

\* The columns in which a row of the file holds an answer of report r. A fixed
\* column never does.
Cells(r) == CASE format \in {"csv", "gpkg"} -> Flat(r) \intersect (columns \union Stable)
              [] format \in {"geojson", "kml"} -> Flat(r) \ Fixed[format]
              [] format = "shapefile" -> {}

------------------------------------------------------------------------------
(* The steps of an export *)

End(s) == step' = "done" /\ status' = s /\ temps' = {}

\* The status of GeoJSON and KML is sent at once, the columns of CSV and GPKG
\* are asked for before anything else.
ExportReports(f) ==
  /\ step = "idle" /\ pc = "idle"
  /\ format' = f
  /\ step' = CASE f \in {"geojson", "kml"} -> "query"
               [] f \in {"csv", "gpkg"} -> "columns"
               [] f = "shapefile" -> "temp"
  /\ status' = IF f \in {"geojson", "kml"} THEN 200 ELSE 0
  /\ UNCHANGED <<file, temps, whole>>

ModularKeysRaw ==
  /\ step = "columns"
  /\ \/ /\ known' = Matching
        /\ columns' = ExtraColumns(UNION {Keys[r] : r \in Matching}, format)
        /\ IF format = "csv" THEN step' = "query" /\ status' = 200
                             ELSE step' = "temp" /\ UNCHANGED status
        /\ UNCHANGED temps
     \/ End(500) /\ UNCHANGED <<known, columns>>
  /\ UNCHANGED <<format, moment, todo, body, index, box, whole>>

TempFiles == IF format = "gpkg" THEN {"gpkg"} ELSE {"shp", "shx", "dbf"}

\* The files are made, and in the GeoPackage its tables, whose DDL a column
\* with the name of a keyword breaks.
CreateTemp ==
  /\ step = "temp"
  /\ \/ /\ format = "gpkg" => columns \intersect Keywords = {}
        /\ temps' = TempFiles /\ step' = "query" /\ UNCHANGED status
        /\ box' = IF format = "gpkg" THEN <<180, -180>> ELSE <<0, 0>>
     \/ End(500) /\ UNCHANGED box
  /\ UNCHANGED <<format, known, columns, moment, todo, body, index, whole>>

\* The handler gives up: a text file ends here, and what was buffered of it is
\* lost; a container has not been begun, and the client is told so.
Abort ==
  /\ step \in {"query", "rows"}
  /\ \E n \in 0 .. Len(body) :
        body' = IF format \in Containers THEN body ELSE SubSeq(body, 1, n)
  /\ End(IF format \in Containers THEN 500 ELSE status)
  /\ UNCHANGED <<format, known, columns, moment, todo, index, box, whole>>

\* ExportEach: one query, whose rows are those of one moment.
ExportEach ==
  /\ step = "query"
  /\ moment' = Matching /\ todo' = Matching /\ step' = "rows"
  /\ UNCHANGED <<format, known, columns, body, index, box, temps, status, whole>>

\* The box with x in it; the one of the Shapefile begins at its first record.
Grow(x) == IF format = "shapefile" /\ body = <<>> THEN <<x, x>>
           ELSE <<Min({box[1], x}), Max({box[2], x})>>

\* KML and the Shapefile have rows with a position only.
Skipped(r) == format \in {"kml", "shapefile"} /\ r \notin Resolved

\* The longitudes of the reports written.
Placed == {Longitude[r] : r \in ToSet(body) \intersect Resolved}

HeaderWords == 50
RecordWords == 14

\* Mutant: the offset counts the rows, not the records.
OffsetOfRow == HeaderWords + RecordWords * (Cardinality(moment \ todo))

OffsetOfNext == HeaderWords + RecordWords * Len(body)

WriteRow ==
  /\ step = "rows"
  /\ \E r \in todo :
       /\ \A s \in todo \ {r} : Before(r, s)
       /\ todo' = todo \ {r}
       /\ body' = IF Skipped(r) THEN body ELSE Append(body, r)
       /\ index' = IF format = "shapefile" /\ ~Skipped(r) THEN Append(index, OffsetOfNext)
                                                          ELSE index
       /\ box' = IF format \in Containers /\ r \in Resolved THEN Grow(Longitude[r]) ELSE box
  /\ UNCHANGED <<step, format, known, columns, moment, temps, status, whole>>

\* Mutant: rows.Err is not looked at, a broken cursor reads as the end.
FinishEarly ==
  /\ step = "rows"
  /\ IF format \in Containers
       THEN /\ step' = "copy"
            /\ box' = IF Placed = {} THEN <<0, 0>> ELSE box
            /\ UNCHANGED <<temps, status, whole>>
       ELSE End(status) /\ whole' = TRUE /\ UNCHANGED box
  /\ UNCHANGED <<format, known, columns, moment, todo, body, index>>

\* All rows are written: a text file is ended and flushed, the headers of a
\* container are written, for which a file of no position has its box at 0.
Finish ==
  /\ step = "rows" /\ todo = {}
  /\ IF format \in Containers
       THEN /\ step' = "copy"
            /\ box' = IF Placed = {} THEN <<0, 0>> ELSE box
            /\ UNCHANGED <<temps, status, whole>>
       ELSE End(status) /\ whole' = TRUE /\ UNCHANGED box
  /\ UNCHANGED <<format, known, columns, moment, todo, body, index>>

\* Mutant: the temporary files are left when the copy fails.
CopyLeaving ==
  /\ step = "copy" /\ step' = "done"
  /\ \/ status' = 200 /\ whole' = TRUE /\ temps' = {}
     \/ status' \in {200, 500} /\ UNCHANGED <<whole, temps>>
  /\ UNCHANGED <<format, file>>

\* The file goes to the client. When that fails the status is 500 only if
\* nothing had been sent.
Copy ==
  /\ step = "copy"
  /\ \/ End(200) /\ whole' = TRUE
     \/ \E s \in {200, 500} : End(s) /\ UNCHANGED whole
  /\ UNCHANGED <<format, file>>

\* The client has its answer.
Close ==
  /\ step = "done"
  /\ step' = "idle" /\ format' = "csv" /\ status' = 0 /\ whole' = FALSE /\ temps' = {}
  /\ known' = {} /\ columns' = {} /\ moment' = {} /\ todo' = {}
  /\ body' = <<>> /\ index' = <<>> /\ box' = <<0, 0>>

ExportNext == \/ \E f \in Formats : ExportReports(f)
              \/ ModularKeysRaw \/ CreateTemp \/ Abort \/ ExportEach
              \/ WriteRow \/ Finish \/ Copy \/ Close

ReadsInit == Init /\ ExportInit

\* The reports change while a client walks or exports.
ReadsNext ==
  \/ /\ UNCHANGED export
     /\ \E r \in ReportIds : \/ \E state \in {"match", "other"} : Submit(r, state)
                             \/ WithdrawReport(r) \/ Update(r)
  \/ /\ UNCHANGED export /\ step = "idle"
     /\ (\E m \in {"cursor", "page"} : Start(m)) \/ NextByCursor \/ NextByPage
  \/ ExportNext /\ UNCHANGED vars

ReadsSpec == ReadsInit /\ [][ReadsNext]_readVars

------------------------------------------------------------------------------
(* Properties *)

ReadsTypeOK ==
  /\ TypeOK
  /\ step \in {"idle", "columns", "temp", "query", "rows", "copy", "done"}
  /\ format \in Formats
  /\ known \subseteq ReportIds /\ todo \subseteq moment /\ moment \subseteq ReportIds
  /\ columns \subseteq {Column(k) : k \in RawKeys}
  /\ body \in Seq(ReportIds) /\ index \in Seq(Nat)
  /\ box \in (-180 .. 180) \X (-180 .. 180)
  /\ temps \subseteq {"gpkg", "shp", "shx", "dbf"}
  /\ status \in {0, 200, 500} /\ whole \in BOOLEAN

\* A file that reached its end holds the reports of one moment, in the order of
\* the list and each once, less those its format cannot place.
WholeFileIsOneMoment ==
  whole => /\ ToSet(body) = {r \in moment : ~Skipped(r)}
           /\ \A i, j \in DOMAIN body : i < j => Before(body[i], body[j])

\* The columns of the file and those of its rows are named alike, whatever keys
\* collide or are reserved: no answer is left out for want of a column, except
\* of a report that came to match after the columns were read, and no column of
\* a GeoPackage is one that its table has already.
ColumnsFit ==
  /\ \A r \in ToSet(body) :
       format # "shapefile" /\ (format \in {"csv", "gpkg"} => r \in known) =>
          Flat(r) \ Fixed[format] \subseteq Cells(r)
  /\ format = "gpkg" => columns \intersect (Reserved \union Stable \union Fixed["gpkg"]) = {}

\* The members of a Shapefile agree, whatever rows were skipped: the index
\* holds for each record where it begins. The box of a container is that of
\* the positions in it, and lies at 0 if there are none.
MembersAgree ==
  step = "copy" =>
    /\ format = "shapefile" => index = [i \in DOMAIN body |-> 50 + (i - 1) * 14]
    /\ box = IF Placed = {} THEN <<0, 0>> ELSE <<Min(Placed), Max(Placed)>>

\* Nothing of a container is sent before its last row is in it and its members
\* agree, so an export that failed is refused and never cut short by its own
\* query; and no temporary file outlives its request, in whatever step it failed.
\* Every variable keeps its type.
ContainerWholeOrRefused ==
  /\ ReadsTypeOK /\ MembersAgree
  /\ format \in Containers /\ status = 200 => step = "done" /\ todo = {}
  /\ step \in {"idle", "done"} => temps = {}
==============================================================================
