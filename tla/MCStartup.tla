----------------------------- MODULE MCStartup -----------------------------
(* Startup for TLC: four seeds of which two name the building, four legacy *)
(* rows of which two can have a cell, pages of two, two restarts.          *)
EXTENDS Startup, TLC

CONSTANTS tur, syr, l1, l2, l3, l4, live

MCCountries == {tur, syr}
MCLegacy == {l1, l2, l3, l4}
MCCellable == {l1, l2}
MCLive == {live}
MCVerified == {2, 3}
MCBuildIndex == (1 :> 1) @@ (2 :> 3) @@ (3 :> 0) @@ (4 :> 2)
MCOnBuilding == {1, 3}
=============================================================================
