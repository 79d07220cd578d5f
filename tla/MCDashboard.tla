---------------------------- MODULE MCDashboard ----------------------------
(***************************************************************************)
(* An instance of Dashboard, and with it of the listing and the export:    *)
(* two reports of one moment and one building, one of them without a       *)
(* position, and two others; sections that collide, are reserved, are      *)
(* fixed in some formats, or are keywords; and times at which the chart    *)
(* has a report of the future, hours, a week or a month of days.           *)
(***************************************************************************)
EXTENDS Dashboard

MCCapturedAt == [r \in ReportIds |-> r \div 2]
MCLongitude == [r \in ReportIds \ {2} |-> CASE r = 1 -> 36 [] r = 3 -> -70 [] OTHER -> 20]
MCKeys == [r \in ReportIds |-> CASE r = 1 -> {"geom", "healthServices"}
                                 [] r = 2 -> {"note", "Note"}
                                 [] r = 3 -> {"order", "9lives"}
                                 [] OTHER -> {"id", "fid"}]
MCSnake == [k \in {"geom", "healthServices", "note", "Note", "order", "9lives", "id", "fid"} |->
              CASE k = "healthServices" -> "health_services" [] k = "Note" -> "note" [] OTHER -> k]
MCPrefixed == [c \in {"fid", "geom"} |-> IF c = "fid" THEN "x_fid" ELSE "x_geom"]
MCFixed == [f \in Formats |-> IF f = "kml" THEN {} ELSE {"id"}]
MCTier == [r \in ReportIds |-> CASE r = 1 -> "minimal" [] r = 2 -> "partial" [] OTHER -> "complete"]
MCPlaceOf == [r \in ReportIds |-> CASE r = 2 -> NoPlace [] r = 3 -> "north" [] OTHER -> "south"]
MCCell == [r \in Resolved |-> IF r = 1 THEN 1 ELSE 2]
MCBuildingOf == [r \in ReportIds |-> IF r \in {2, 3} THEN "house" ELSE NoBuilding]
==============================================================================
