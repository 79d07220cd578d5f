--------------------------- MODULE MCBoundaryLoader --------------------------
(***************************************************************************)
(* Instances of BoundaryLoader.  One country, published as COD-AB or not:  *)
(* a point inside its outline, one inside an area of the seed as well, and *)
(* one that lies beyond the outline in an area of either layer.  And two   *)
(* countries of one point each, only the first of them published.          *)
(***************************************************************************)
EXTENDS BoundaryLoader

CONSTANTS c1, c2, p1, p2, p3, r1, r2, r3

Places(c, chains, points) == [chain : chains, of : {c}, point : points]

Coast == Places(c1, {"country", "gb", "cod1", "cod2"}, {p1, p2})
           \union Places(NoCountry, {"seed"}, {p2})
           \union Places(c1, {"gb", "cod1"}, {p3})
Border == Places(c1, {"country", "gb", "cod1", "cod2"}, {p1})
            \union Places(c2, {"country", "gb", "cod1", "cod2"}, {p2})

\* One report at each point, or two at the first and one at the second.
OneEach == [r \in ReportIds |-> IF r = r1 THEN p1 ELSE IF r = r2 THEN p2 ELSE p3]
TwoAndOne == [r \in ReportIds |-> IF r = r3 THEN p2 ELSE p1]

MayBePublished == {{}, {c1}}
IsPublished == {{c1}}
==============================================================================
