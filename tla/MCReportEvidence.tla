-------------------------- MODULE MCReportEvidence ---------------------------
(***************************************************************************)
(* Instances of ReportEvidence.                                            *)
(***************************************************************************)
EXTENDS ReportEvidence, TLC

\* Ids that differ only in characters that photoFileName replaces.
SameName == [r \in ReportIds |-> "a_b.jpg"]

\* One of them is posted twice and decided about.
First == CHOOSE r \in ReportIds : TRUE
Posts == [r \in ReportIds |-> IF r = First THEN 1 ELSE 0]
Decisions == [r \in ReportIds |-> IF r = First THEN 2 ELSE 0]

Symm == Permutations(Uploads) \union Permutations(Analysts)
==============================================================================
