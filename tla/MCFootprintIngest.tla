-------------------------- MODULE MCFootprintIngest --------------------------
(***************************************************************************)
(* Instances of FootprintIngest.                                           *)
(***************************************************************************)
EXTENDS FootprintIngest

CONSTANTS b1, b2, q1, q2

\* Two reports of one building, or of two; with one key or two.
Draft(p, k) ==
  [r \in ReportIds |-> [building |-> p[r], key |-> k[r], captured |-> 1, damage |-> r]]

MCDrafts == {Draft(<<b1, b1>>, <<1, 2>>), Draft(<<b1, b2>>, <<1, 1>>)}

F(k, b) == [kind |-> k, building |-> b]

\* Batches of two, a full one and a rest, with a feature of the wrong type; and a
\* file with a syntax error.
MCFiles == {<<F("polygon", b1), F("odd", b1), F("polygon", b2), F("polygon", b1)>>,
            <<F("polygon", b2), F("broken", b1)>>}

\* The two requests can change places, and nobody takes down what nobody submits.
MCInit == /\ IInit
          /\ post[q1] <= post[q2]
          /\ \A w \in Takedowns : target[w] \in {post[q1], post[q2]}

MCSpec == MCInit /\ [][INext]_allvars /\ IFairness
==============================================================================
