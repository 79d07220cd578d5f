--------------------------- MODULE CrisisLifecycle ---------------------------
(***************************************************************************)
(* How reports come to belong to a crisis: the pin a client sends, the     *)
(* assignment by space and time, the emergent crisis a cluster of pending  *)
(* reports forms, and the analyst who confirms, closes or dismisses.  The  *)
(* reads (the pinned crisis, the assignment, the gate of the detection)    *)
(* run outside any transaction, so the crisis they saw may have changed    *)
(* when the insert or the formation commits; those two and the change of   *)
(* a status are one transaction each, and one step here.  Deliveries of a  *)
(* report that is stored insert nothing and detect nothing; they, and      *)
(* deliveries of one that was taken down, are left out: BuildingVersions   *)
(* and SubmitPipeline have them.                                           *)
(***************************************************************************)
EXTENDS Integers, FiniteSets, FiniteSetsExt, Functions

CONSTANTS
  ReportIds,
  Submitters, NoSubmitter,  \* devices; a NULL submitter_id
  NoSpot,                   \* an unresolved location
  Areas, NoArea,            \* admin P-codes; a point outside all boundaries
  Buildings, NoBuilding,
  Declared,                 \* crises of the seed and the feeds
  Emergent,                 \* bound: the ids of the crises that clusters may form
  NoCrisis,                 \* a NULL crisis_id: the report is pending
  NoRow,                    \* no row in `reports` or `buildings`
  Never,                    \* a NULL ended_at
  Drafts,                   \* the sets of documents the clients of a behaviour hold
  Boards,                   \* the extents the declared crises may have
  MinReports, Radius, Window,  \* EmergentConfig
  Grace,                    \* the seven days around a crisis
  PinSlack,                 \* the five kilometres around a pinned crisis
  Workers,                  \* handlers that run at the same time
  MaxFaults,                \* bound: best-effort steps that fail
  MaxChanges                \* bound: changes of status and takedowns

Crises == Declared \union Emergent

\* Points lie on a line.
Doc == [submitter : Submitters \union {NoSubmitter}, spot : Int \union {NoSpot},
        captured : Int, area : Areas \union {NoArea},
        building : Buildings \union {NoBuilding}, pin : Crises \union {NoCrisis}]
Extent == [center : Int, radius : Nat, started : Int, ended : Int \union {Never}]
Statuses == {"none", "proposed", "active", "closed", "dismissed"}
Formation == [gated : SUBSET ReportIds, attached : SUBSET ReportIds,
              alone : BOOLEAN]

ASSUME IdsAssumption == IsFiniteSet(ReportIds) /\ IsFiniteSet(Workers) /\ Declared \cap Emergent = {}
ASSUME DraftsAssumption == Drafts \subseteq [ReportIds -> Doc] /\ Boards \subseteq [Declared -> Extent]
ASSUME ThresholdsAssumption == /\ MinReports \in Nat \ {0, 1} /\ Radius \in Nat /\ Window \in Nat
                               /\ Grace \in Nat /\ PinSlack \in Nat
                               /\ MaxFaults \in Nat /\ MaxChanges \in Nat
ASSUME NullsAssumption == /\ NoCrisis \notin Crises /\ NoRow \notin Crises \union {NoCrisis} \union ReportIds
                          /\ NoSubmitter \notin Submitters /\ NoBuilding \notin Buildings

VARIABLES
  doc,       \* doc[r]: the document with id r
  crisisOf,  \* crisisOf[r]: the crisis_id of the row of r, or NoRow
  scopeOf,   \* scopeOf[b]: the crisis_id of the row of building b, or NoRow
  status,    \* status[c]: the status of crisis c, "none" before it exists
  extent,    \* extent[c]: where and when crisis c is
  pc, job,   \* what handler w runs next, and its report
  choice,    \* choice[w]: the crisis its report is to join
  gated,     \* gated[w]: the reports its detection counted
  alone,     \* alone[w]: no other handler or analyst wrote since it counted
  faults,    \* best-effort steps that failed so far
  changes,   \* changes of status and takedowns so far
  formation, \* formation[c]: how emergent crisis c was formed
  released,  \* released[c]: the reports stored when c was last dismissed
  erased     \* the reports that were taken down

vars == <<doc, crisisOf, scopeOf, status, extent, pc, job, choice, gated, alone,
          faults, changes, formation, released, erased>>
board == <<crisisOf, scopeOf, status, extent, changes, formation, released, erased>>

Abs(n) == IF n < 0 THEN -n ELSE n
Stored  == {r \in ReportIds : crisisOf[r] # NoRow}
Pending == {r \in ReportIds : crisisOf[r] = NoCrisis}
Senders(S) == {doc[r].submitter : r \in S} \ {NoSubmitter}
NotFormed == [gated |-> {}, attached |-> {}, alone |-> FALSE]
Nowhere == [center |-> 0, radius |-> 0, started |-> 0, ended |-> Never]

Init == /\ doc \in Drafts
        /\ crisisOf = [r \in ReportIds |-> NoRow]
        /\ scopeOf \in [Buildings -> {NoRow, NoCrisis} \union Declared]
        /\ status = [c \in Crises |-> IF c \in Declared THEN "active" ELSE "none"]
        /\ \E b \in Boards :
             extent = [c \in Crises |-> IF c \in Declared THEN b[c] ELSE Nowhere]
        /\ pc = [w \in Workers |-> "idle"]
        /\ job = [w \in Workers |-> NoRow]
        /\ choice = [w \in Workers |-> NoCrisis]
        /\ gated = [w \in Workers |-> {}]
        /\ alone = [w \in Workers |-> FALSE]
        /\ faults = 0 /\ changes = 0
        /\ formation = [c \in Emergent |-> NotFormed]
        /\ released = [c \in Crises |-> {}]
        /\ erased = {}

------------------------------------------------------------------------------
(* POST /api/v1/reports *)

Goto(w, label) == pc' = [pc EXCEPT ![w] = label]

\* The handler is done with its report.
Finish(w) == /\ Goto(w, "idle")
             /\ job' = [job EXCEPT ![w] = NoRow]
             /\ choice' = [choice EXCEPT ![w] = NoCrisis]
             /\ gated' = [gated EXCEPT ![w] = {}]

\* What w writes, the others have not seen.
Disturb(w) == alone' = [v \in Workers |-> v = w /\ alone[v]]

\* A new report arrives.  Without a point there is nothing to check or assign.
Receive(w, r) ==
  /\ pc[w] = "idle" /\ r \notin Stored \union erased
  /\ \A v \in Workers : job[v] # r
  /\ job' = [job EXCEPT ![w] = r]
  /\ choice' = [choice EXCEPT ![w] = doc[r].pin]
  /\ Goto(w, CASE doc[r].spot = NoSpot -> "insert"
               [] doc[r].spot # NoSpot /\ doc[r].pin = NoCrisis -> "assign"
               [] OTHER -> "contain")
  /\ UNCHANGED <<doc, board, gated, alone, faults>>

Distance(r, c) == Abs(doc[r].spot - extent[c].center)

\* pinOutsideContainment: beyond max(radius * 1.5, radius + 5 km).
PinOutside(r, c) ==
  /\ extent[c].radius > 0
  /\ 2 * Distance(r, c) > 3 * extent[c].radius
  /\ Distance(r, c) > extent[c].radius + PinSlack

\* A pin far outside its crisis is dropped.  A pin on an unknown crisis stays,
\* and so does every pin when the read fails.
CheckPin(w) ==
  /\ pc[w] = "contain"
  /\ LET c == choice[w] IN
     IF status[c] # "none" /\ PinOutside(job[w], c)
       THEN choice' = [choice EXCEPT ![w] = NoCrisis] /\ Goto(w, "assign")
       ELSE Goto(w, "insert") /\ UNCHANGED choice
  /\ UNCHANGED <<doc, board, job, gated, alone, faults>>

CheckPinFails(w) ==
  /\ pc[w] = "contain" /\ faults < MaxFaults
  /\ faults' = faults + 1
  /\ Goto(w, "insert")
  /\ UNCHANGED <<doc, board, job, choice, gated, alone>>

\* AssignCrisis: an open crisis that covers the report in space and time ...
Covers(c, r) ==
  /\ status[c] \in {"active", "proposed"}
  /\ Distance(r, c) <= extent[c].radius
  /\ doc[r].captured >= extent[c].started - Grace
  /\ extent[c].ended = Never \/ doc[r].captured <= extent[c].ended + Grace

\* ... and is the nearest, any of them when several are as near.
AssignCrisis(w) ==
  /\ pc[w] = "assign"
  /\ LET open == {c \in Crises : Covers(c, job[w])} IN
     IF open = {} THEN UNCHANGED choice
     ELSE \E c \in open : /\ \A d \in open : Distance(job[w], c) <= Distance(job[w], d)
                          /\ choice' = [choice EXCEPT ![w] = c]
  /\ Goto(w, "insert")
  /\ UNCHANGED <<doc, board, job, gated, alone, faults>>

\* An error leaves the report pending.
AssignFails(w) ==
  /\ pc[w] = "assign" /\ faults < MaxFaults
  /\ faults' = faults + 1
  /\ Goto(w, "insert")
  /\ UNCHANGED <<doc, board, job, choice, gated, alone>>

\* The transaction: the building's row, unless there is one, and the report's.
\* A report that stayed pending and has a point goes on to the detection.
InsertReport(w) ==
  /\ pc[w] = "insert"
  /\ choice[w] # NoCrisis => status[choice[w]] # "none"
  /\ crisisOf' = [crisisOf EXCEPT ![job[w]] = choice[w]]
  /\ LET b == doc[job[w]].building IN
     scopeOf' = IF b # NoBuilding /\ scopeOf[b] = NoRow
                  THEN [scopeOf EXCEPT ![b] = choice[w]] ELSE scopeOf
  /\ Disturb(w)
  /\ IF choice[w] = NoCrisis /\ doc[job[w]].spot # NoSpot
       THEN Goto(w, "gate") /\ UNCHANGED <<job, choice, gated>>
       ELSE Finish(w)
  /\ UNCHANGED <<doc, status, extent, faults, changes, formation, released, erased>>

\* A pin on a crisis that does not exist: the foreign key refuses the row.
InsertUnknownCrisis(w) ==
  /\ pc[w] = "insert" /\ choice[w] # NoCrisis /\ status[choice[w]] = "none"
  /\ Finish(w)
  /\ UNCHANGED <<doc, board, alone, faults>>

------------------------------------------------------------------------------
(* DetectEmergentCrisis *)

\* Mutant: the report that triggers the detection does not count.
InCircleOfOthers(r) ==
  {s \in Pending \ {r} : /\ doc[s].captured >= doc[r].captured - Window
                         /\ doc[s].spot # NoSpot
                         /\ Abs(doc[s].spot - doc[r].spot) <= Radius
                         /\ doc[r].area # NoArea => doc[s].area = doc[r].area}

\* The pending reports around r, in its admin area if it has one, that were
\* captured since Window before it.
InCircle(r) ==
  {s \in Pending : /\ doc[s].captured >= doc[r].captured - Window
                   /\ doc[s].spot # NoSpot
                   /\ Abs(doc[s].spot - doc[r].spot) <= Radius
                   /\ doc[r].area # NoArea => doc[s].area = doc[r].area}

\* The gate: enough distinct submitters.
CountCluster(w) ==
  /\ pc[w] = "gate"
  /\ LET found == InCircle(job[w]) IN
     IF Cardinality(Senders(found)) < MinReports
       THEN Finish(w) /\ UNCHANGED alone
       ELSE /\ gated' = [gated EXCEPT ![w] = found]
            /\ alone' = [alone EXCEPT ![w] = TRUE]
            /\ Goto(w, "form")
            /\ UNCHANGED <<job, choice>>
  /\ UNCHANGED <<doc, board, faults>>

SumOf(f) == FoldFunction(+, 0, f)
Centroid(S) == SumOf([r \in S |-> doc[r].spot]) \div Cardinality(S)
Earliest(S) == Min({doc[r].captured : r \in S})

\* Where and when the crisis of the reports in S is.
Place(S) == [center |-> Centroid(S), radius |-> Radius, started |-> Earliest(S), ended |-> Never]

\* Crisis c is formed from the reports the gate of w counted, and takes the
\* pending reports of `joining` with it, and their buildings that have no crisis.
Form(w, c, joining) ==
  /\ status[c] = "none"
  /\ status' = [status EXCEPT ![c] = "proposed"]
  /\ extent' = [extent EXCEPT ![c] = Place(gated[w])]
  /\ crisisOf' = [r \in ReportIds |-> IF r \in joining THEN c ELSE crisisOf[r]]
  /\ scopeOf' = [b \in Buildings |->
                   IF scopeOf[b] = NoCrisis /\ \E r \in joining : doc[r].building = b
                     THEN c ELSE scopeOf[b]]
  /\ formation' = [formation EXCEPT ![c] = [gated |-> gated[w],
                                            attached |-> joining, alone |-> alone[w]]]
  /\ Disturb(w)
  /\ Finish(w)
  /\ UNCHANGED <<doc, faults, changes, released, erased>>

\* Mutant: the reports are taken from a circle around the centroid.
FormCrisisAtCentroid(w) ==
  /\ pc[w] = "form"
  /\ \E c \in Emergent :
       Form(w, c, {s \in Pending : /\ doc[s].spot # NoSpot
                                   /\ Abs(doc[s].spot - Centroid(gated[w])) <= Radius})

\* The transaction: a proposed crisis, and the reports that are pending around
\* the trigger by now.
FormCrisis(w) ==
  /\ pc[w] = "form"
  /\ \E c \in Emergent : Form(w, c, InCircle(job[w]))

\* A request that fails, or a detection that fails after the commit: the report
\* that was inserted stays.
Fail(w) ==
  /\ pc[w] # "idle" /\ faults < MaxFaults
  /\ faults' = faults + 1
  /\ Finish(w)
  /\ UNCHANGED <<doc, board, alone>>

------------------------------------------------------------------------------
(* PATCH /api/v1/crises/{id}/status *)

\* Mutant: a dismissal changes the status and nothing else.
SetCrisisStatusOnly(c, s) ==
  /\ status[c] # "none" /\ changes < MaxChanges
  /\ changes' = changes + 1
  /\ status' = [status EXCEPT ![c] = s]
  /\ released' = IF s = "dismissed" THEN [released EXCEPT ![c] = Stored] ELSE released
  /\ alone' = [w \in Workers |-> FALSE]
  /\ UNCHANGED <<doc, crisisOf, scopeOf, extent, pc, job, choice, gated, faults, formation, erased>>

\* Mutant: the buildings of a dismissed crisis stay in it.
SetCrisisStatusOfReports(c, s) ==
  /\ status[c] # "none" /\ changes < MaxChanges
  /\ changes' = changes + 1
  /\ status' = [status EXCEPT ![c] = s]
  /\ IF s = "dismissed"
       THEN /\ crisisOf' = [r \in ReportIds |-> IF crisisOf[r] = c THEN NoCrisis ELSE crisisOf[r]]
            /\ released' = [released EXCEPT ![c] = Stored]
       ELSE UNCHANGED <<crisisOf, released>>
  /\ alone' = [w \in Workers |-> FALSE]
  /\ UNCHANGED <<doc, scopeOf, extent, pc, job, choice, gated, faults, formation, erased>>

\* Any status follows any other; a dismissal makes the reports and the buildings
\* of the crisis pending again.
SetCrisisStatus(c, s) ==
  /\ status[c] # "none" /\ changes < MaxChanges
  /\ changes' = changes + 1
  /\ status' = [status EXCEPT ![c] = s]
  /\ IF s = "dismissed"
       THEN /\ crisisOf' = [r \in ReportIds |-> IF crisisOf[r] = c THEN NoCrisis ELSE crisisOf[r]]
            /\ scopeOf' = [b \in Buildings |-> IF scopeOf[b] = c THEN NoCrisis ELSE scopeOf[b]]
            /\ released' = [released EXCEPT ![c] = Stored]
       ELSE UNCHANGED <<crisisOf, scopeOf, released>>
  /\ alone' = [w \in Workers |-> FALSE]
  /\ UNCHANGED <<doc, extent, pc, job, choice, gated, faults, formation, erased>>

\* DELETE /api/v1/reports/{id}: the row goes, and the building keeps its crisis.
WithdrawReport(r) ==
  /\ r \in Stored /\ changes < MaxChanges
  /\ changes' = changes + 1
  /\ crisisOf' = [crisisOf EXCEPT ![r] = NoRow]
  /\ erased' = erased \union {r}
  /\ alone' = [w \in Workers |-> FALSE]
  /\ UNCHANGED <<doc, scopeOf, status, extent, pc, job, choice, gated, faults,
                 formation, released>>

Submit(w) == \/ \E r \in ReportIds : Receive(w, r)
             \/ CheckPin(w) \/ CheckPinFails(w) \/ AssignCrisis(w) \/ AssignFails(w)
             \/ InsertReport(w) \/ InsertUnknownCrisis(w)
             \/ CountCluster(w) \/ FormCrisis(w) \/ Fail(w)

\* Every report has been answered.
Quiescent == /\ \A w \in Workers : pc[w] = "idle"
             /\ UNCHANGED vars

Next == \/ \E w \in Workers : Submit(w)
        \/ \E c \in Crises, s \in Statuses \ {"none"} : SetCrisisStatus(c, s)
        \/ \E r \in ReportIds : WithdrawReport(r)
        \/ Quiescent

Spec == Init /\ [][Next]_vars

------------------------------------------------------------------------------
(* Properties *)

\* An emergent crisis is where the reports were that formed it.
ExtentsOK ==
  /\ DOMAIN extent = Crises
  /\ \A c \in Declared : extent[c] \in Extent
  /\ \A c \in Emergent :
       extent[c] = IF status[c] = "none" THEN Nowhere ELSE Place(formation[c].gated)

TypeOK ==
  /\ doc \in [ReportIds -> Doc]
  /\ crisisOf \in [ReportIds -> Crises \union {NoCrisis, NoRow}]
  /\ scopeOf \in [Buildings -> Crises \union {NoCrisis, NoRow}]
  /\ status \in [Crises -> Statuses]
  /\ ExtentsOK
  /\ pc \in [Workers -> {"idle", "contain", "assign", "insert", "gate", "form"}]
  /\ job \in [Workers -> ReportIds \union {NoRow}]
  /\ \A w \in Workers : pc[w] = "idle" <=> job[w] = NoRow
  /\ choice \in [Workers -> Crises \union {NoCrisis}]
  /\ gated \in [Workers -> SUBSET ReportIds]
  /\ alone \in [Workers -> BOOLEAN]
  /\ faults \in 0 .. MaxFaults /\ changes \in 0 .. MaxChanges
  /\ formation \in [Emergent -> Formation]
  /\ released \in [Crises -> SUBSET ReportIds]
  /\ erased \subseteq ReportIds

Formed == {c \in Emergent : status[c] # "none"}

\* "Exactly the gated reports attach": a detection that nothing came between
\* takes the reports it counted, so its crisis has enough distinct submitters.
\* Every variable keeps its type.
UndisturbedFormation ==
  /\ TypeOK
  /\ \A c \in Formed :
       formation[c].alone =>
         /\ formation[c].attached = formation[c].gated
         /\ Cardinality(Senders(formation[c].attached)) >= MinReports

\* The same of every detection.
GatedReportsAttach ==
  \A c \in Formed : Cardinality(Senders(formation[c].attached)) >= MinReports

\* A dismissal releases: as long as the crisis stays dismissed, the reports that
\* were stored then are not in it.
ReleasedStaysReleased ==
  \A c \in Crises :
    status[c] = "dismissed" =>
      \A r \in released[c] : crisisOf[r] # c

\* The map files a building under a crisis that it has a report of, through every
\* formation and dismissal, unless its footprint was loaded for the crisis and not
\* released since, or a report of it was taken down.
ScopeHasReport ==
  \A b \in Buildings \ {doc[r].building : r \in erased} :
    scopeOf[b] \in Crises =>
      \/ \E r \in Stored : doc[r].building = b /\ crisisOf[r] = scopeOf[b]
      \/ scopeOf[b] \in Declared /\ released[scopeOf[b]] = {} /\ status[scopeOf[b]] # "dismissed"

\* Reports that no detection can tell apart.
Alike(r, s) == /\ doc[r].spot = doc[s].spot /\ doc[r].captured = doc[s].captured
               /\ doc[r].area = doc[s].area

\* No cluster is missed because its reports were inserted at the same time: when
\* all is quiet, nothing failed and nothing was dismissed, too few submitters
\* are pending at any one spot.
NoClusterMissed ==
  /\ \A w \in Workers : pc[w] = "idle"
  /\ faults = 0
  /\ \A c \in Crises : released[c] = {}
  => \A r \in Pending : doc[r].spot # NoSpot =>
       Cardinality(Senders({s \in Pending : Alike(r, s)})) < MinReports
==============================================================================
