-------------------------- MODULE MCCrisisLifecycle --------------------------
(***************************************************************************)
(* Instances of CrisisLifecycle.                                           *)
(***************************************************************************)
EXTENDS CrisisLifecycle, TLC

CONSTANTS s1, s2, s3, a1, a2, b1, c0, e1, e2, e3

\* Report r: sender s[r], point p[r], capture time t[r], area a[r], building
\* b[r], pin q[r].
Draft(s, p, t, a, b, q) ==
  [r \in ReportIds |-> [submitter |-> s[r], spot |-> p[r], captured |-> t[r],
                        area |-> a[r], building |-> b[r], pin |-> q[r]]]

none3 == <<NoCrisis, NoCrisis, NoCrisis>>
bare3 == <<NoBuilding, NoBuilding, NoBuilding>>

\* Three neighbours: all at one spot; in a row whose ends are not in one circle;
\* of two devices only; in two admin areas; on one building.
Neighbours == {
  Draft(<<s1, s2, s3>>, <<5, 5, 5>>, <<0, 0, 0>>, <<a1, a1, a1>>, <<b1, NoBuilding, b1>>, none3),
  Draft(<<s1, s2, s3>>, <<5, 7, 8>>, <<0, 1, 0>>, <<NoArea, NoArea, NoArea>>, bare3, none3),
  Draft(<<s1, s1, s2>>, <<5, 5, 6>>, <<0, 3, 9>>, <<a1, a1, a2>>, bare3, none3)}

\* Reports that carry a pin: inside, too far out, on an unknown crisis, and one
\* without a point.
Pinned == {
  Draft(<<s1, s2, NoSubmitter>>, <<9, 30, NoSpot>>, <<0, 0, 0>>, <<a1, a1, NoArea>>,
        <<b1, NoBuilding, NoBuilding>>, <<c0, c0, c0>>),
  Draft(<<s1, s2, s3>>, <<20, 20, 20>>, <<0, 0, 0>>, <<a1, a1, a1>>,
        <<b1, b1, NoBuilding>>, <<NoCrisis, NoCrisis, e1>>)}

MCDrafts == Neighbours \union Pinned

\* A declared crisis that covers the pinned reports near it, and one that is over.
MCBoards == {[c \in Declared |-> [center |-> 10, radius |-> 2, started |-> 0, ended |-> Never]],
             [c \in Declared |-> [center |-> 20, radius |-> 2, started |-> -9, ended |-> -5]]}

\* What the footprints loaded for a building were scoped to matters to reports of it.
MCInit == /\ Init
          /\ \A b \in Buildings :
               (\A r \in ReportIds : doc[r].building # b) => scopeOf[b] = NoRow

MCSpec == MCInit /\ [][Next]_vars

Symm == Permutations(Workers) \union Permutations({e2, e3})
==============================================================================
