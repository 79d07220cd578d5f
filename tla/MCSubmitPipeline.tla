--------------------------- MODULE MCSubmitPipeline --------------------------
(***************************************************************************)
(* Instances of SubmitPipeline.                                            *)
(***************************************************************************)
EXTENDS SubmitPipeline, TLC

CONSTANTS d1, d2

\* Documents 1..n at the points p, with capture times c and keys k, of one
\* device unless `other` names the ones of a second.
Draft(p, c, k, other, tapped) ==
  [r \in ReportIds |->
     [key |-> k[r], device |-> IF r \in other THEN d2 ELSE d1,
      spot |-> p[r], captured |-> c[r], footprint |-> r \in tapped]]

\* One without a location and one with a footprint: nothing is a duplicate, and
\* the rate limits bite.  One place, pairwise near-duplicates.  One place, a
\* late capture, a second device and a key that is re-sent under a new id.
MCDrafts == {Draft(<<0, NoSpot, 0>>, <<0, 0, 9>>, <<1, 2, 3>>, {}, {3}),
             Draft(<<0, 1, 0>>, <<2, 1, 0>>, <<1, 2, 3>>, {}, {}),
             Draft(<<0, 0, 0>>, <<4, 0, 1>>, <<1, 2, 2>>, {3}, {})}

Symm == Permutations(Workers)
==============================================================================
