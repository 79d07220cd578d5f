-------------------------- MODULE MCBuildingVersions -------------------------
(***************************************************************************)
(* Instances of BuildingVersions.  Every report has a damage grade of its  *)
(* own, so that a grade tells which report it came from.                   *)
(***************************************************************************)
EXTENDS BuildingVersions, TLC

CONSTANT b1, b2

\* Documents 1..n, document r with capture time c[r], building p[r], key k[r].
Draft(c, p, k) ==
  [r \in ReportIds |-> [building |-> p[r], key |-> k[r], captured |-> c[r], damage |-> r]]

\* Three reports of one building: ties, and a newest report at either end or in
\* the middle of the order of the ids.
OneBuilding == {Draft(c, <<b1, b1, b1>>, <<1, 2, 3>>) :
                  c \in {<<1, 1, 1>>, <<1, 2, 1>>, <<2, 1, 1>>, <<2, 2, 1>>}}

\* A report re-sent under a new id with its old key, with and without buildings.
SharedKeys == {Draft(<<1, 2, 1>>, p, <<1, 2, 1>>) :
                 p \in {<<b1, b1, b1>>, <<b1, b1, b2>>, <<b1, b2, NoBuilding>>}}

MCDrafts == OneBuilding \union SharedKeys

\* Requests differ only in the document they carry.
Symm == Permutations(Requests) \union Permutations(Takedowns)
==============================================================================
