------------------------- MODULE CrisisLifecycleProofs -----------------------
(***************************************************************************)
(* What holds of the crises for any number of reports, handlers, crises    *)
(* and documents, and any thresholds: a detection nothing came between     *)
(* takes what it counted, a dismissal lasts, the map files no building     *)
(* under a crisis it has nothing to do with, and no cluster is missed.     *)
(* Each report has at most one handler, which has not inserted it before;  *)
(* and a cluster that is complete has a handler that will see all of it.   *)
(***************************************************************************)
EXTENDS CrisisLifecycle, FiniteSetTheorems, TLAPS

Inserting == {"contain", "assign", "insert"}
Detecting == {"gate", "form"}

\* A report has one handler, which inserts it if it was never stored.
HandlerInv ==
  /\ \A v, w \in Workers : job[v] = job[w] /\ job[v] # NoRow => v = w
  /\ \A w \in Workers : pc[w] \in Inserting => job[w] \notin Stored \union erased
  /\ \A w \in Workers : pc[w] \in Detecting => doc[job[w]].spot # NoSpot

\* Dismissed crises released reports that were stored.
ReleasedInv == \A c \in Crises : released[c] \subseteq Stored \union erased

\* A detection has counted enough submitters, and if nothing came between, what
\* it counted is what is there.
GateInv ==
  \A w \in Workers : pc[w] = "form" =>
    /\ Cardinality(Senders(gated[w])) >= MinReports
    /\ alone[w] => gated[w] = InCircle(job[w])

FormedInv ==
  \A c \in Formed :
    formation[c].alone =>
      /\ formation[c].attached = formation[c].gated
      /\ Cardinality(Senders(formation[c].attached)) >= MinReports

Cluster(r) == {s \in Pending : Alike(r, s)}

\* A complete cluster has a handler that will see it.
ClusterInv ==
  faults = 0 /\ (\A c \in Crises : released[c] = {}) =>
    \A r \in ReportIds :
      doc[r].spot # NoSpot /\ Cardinality(Senders(Cluster(r))) >= MinReports
        => \E w \in Workers : pc[w] \in Detecting /\ Alike(r, job[w])

CrisisInv == /\ TypeOK
             /\ HandlerInv
             /\ ReleasedInv
             /\ ReleasedStaysReleased
             /\ ScopeHasReport
             /\ GateInv
             /\ FormedInv
             /\ ClusterInv

------------------------------------------------------------------------------
(* Types *)

LEMMA InitTypeOK == Init => TypeOK
<1> SUFFICES ASSUME Init PROVE TypeOK
  OBVIOUS
<1>1. doc \in [ReportIds -> Doc]
  BY DraftsAssumption DEF Init
<1>2. 0 \in 0 .. MaxFaults /\ 0 \in 0 .. MaxChanges
  BY ThresholdsAssumption, SMT
<1>3. /\ DOMAIN extent = Crises
      /\ \A c \in Declared : extent[c] \in Extent
      /\ \A c \in Emergent : extent[c] = Nowhere /\ status[c] = "none"
  <2>1. PICK b \in Boards :
          extent = [c \in Crises |-> IF c \in Declared THEN b[c] ELSE Nowhere]
    BY DEF Init
  <2>2. b \in [Declared -> Extent]
    BY DraftsAssumption
  <2> QED
    BY <2>1, <2>2, IdsAssumption DEF Init, Crises
<1>4. formation \in [Emergent -> Formation]
  BY DEF Init, NotFormed, Formation
<1>5. /\ crisisOf \in [ReportIds -> Crises \union {NoCrisis, NoRow}]
      /\ scopeOf \in [Buildings -> Crises \union {NoCrisis, NoRow}]
      /\ status \in [Crises -> Statuses]
  BY DEF Init, Crises, Statuses
<1> QED
  BY <1>1, <1>2, <1>3, <1>4, <1>5 DEF Init, TypeOK, ExtentsOK

\* A crisis stays where it is.
LEMMA SameExtents ==
  ASSUME ExtentsOK, UNCHANGED <<doc, extent, formation>>,
         \A c \in Emergent : status'[c] = "none" <=> status[c] = "none"
  PROVE  ExtentsOK'
BY DEF ExtentsOK, Nowhere, Place, Centroid, Earliest

\* A handler that is done has no report.
LEMMA Finished ==
  ASSUME TypeOK, NEW w \in Workers, Finish(w)
  PROVE  /\ pc'[w] = "idle" /\ job'[w] = NoRow /\ choice'[w] = NoCrisis /\ gated'[w] = {}
         /\ pc' \in [Workers -> {"idle", "contain", "assign", "insert", "gate", "form"}]
         /\ job' \in [Workers -> ReportIds \union {NoRow}]
         /\ \A v \in Workers : pc'[v] = "idle" <=> job'[v] = NoRow
         /\ choice' \in [Workers -> Crises \union {NoCrisis}]
         /\ gated' \in [Workers -> SUBSET ReportIds]
         /\ \A v \in Workers : v # w => /\ pc'[v] = pc[v] /\ job'[v] = job[v]
                                        /\ choice'[v] = choice[v] /\ gated'[v] = gated[v]
BY DEF TypeOK, Finish, Goto

\* The steps of a handler that write nothing but its own variables.
LEMMA QuietTypeOK ==
  ASSUME TypeOK, NEW w \in Workers,
         \/ \E r \in ReportIds : Receive(w, r)
         \/ CheckPin(w) \/ CheckPinFails(w) \/ AssignCrisis(w) \/ AssignFails(w)
         \/ InsertUnknownCrisis(w) \/ CountCluster(w) \/ Fail(w)
  PROVE  TypeOK'
<1> USE DEF board, Goto
<1>0. ExtentsOK'
  BY SameExtents DEF TypeOK, Receive, CheckPin, CheckPinFails, AssignCrisis, AssignFails,
                     InsertUnknownCrisis, CountCluster, Fail
<1>1. ASSUME NEW r \in ReportIds, Receive(w, r) PROVE TypeOK'
  <2>1. doc[r].pin \in Crises \union {NoCrisis} /\ r # NoRow
    BY NullsAssumption DEF TypeOK, Doc
  <2>2. /\ pc' \in [Workers -> {"idle", "contain", "assign", "insert", "gate", "form"}]
        /\ job' \in [Workers -> ReportIds \union {NoRow}]
        /\ \A v \in Workers : pc'[v] = "idle" <=> job'[v] = NoRow
    BY <1>1, <2>1 DEF TypeOK, Receive
  <2>3. choice' \in [Workers -> Crises \union {NoCrisis}]
    BY <1>1, <2>1 DEF TypeOK, Receive
  <2> QED
    BY <1>0, <1>1, <2>2, <2>3 DEF TypeOK, Receive
<1>2. CASE CheckPin(w) \/ AssignCrisis(w)
  <2>1. choice' \in [Workers -> Crises \union {NoCrisis}]
    BY <1>2 DEF TypeOK, CheckPin, AssignCrisis
  <2>2. /\ pc' \in [Workers -> {"idle", "contain", "assign", "insert", "gate", "form"}]
        /\ pc[w] # "idle" /\ pc'[w] # "idle" /\ \A v \in Workers : v # w => pc'[v] = pc[v]
    BY <1>2 DEF TypeOK, CheckPin, AssignCrisis
  <2> QED
    BY <1>0, <1>2, <2>1, <2>2 DEF TypeOK, CheckPin, AssignCrisis
<1>3. CASE CheckPinFails(w) \/ AssignFails(w)
  <2>1. faults' \in 0 .. MaxFaults
    BY <1>3, ThresholdsAssumption DEF TypeOK, CheckPinFails, AssignFails
  <2> QED
    BY <1>0, <1>3, <2>1 DEF TypeOK, CheckPinFails, AssignFails
<1>4. CASE InsertUnknownCrisis(w)
  BY <1>0, <1>4, Finished DEF TypeOK, InsertUnknownCrisis
<1>5. CASE CountCluster(w)
  <2>1. CASE Finish(w) /\ UNCHANGED alone
    BY <1>0, <1>5, <2>1, Finished DEF TypeOK, CountCluster
  <2>2. CASE /\ gated' = [gated EXCEPT ![w] = InCircle(job[w])]
             /\ alone' = [alone EXCEPT ![w] = TRUE]
             /\ pc' = [pc EXCEPT ![w] = "form"]
             /\ UNCHANGED <<job, choice>>
    <3>1. gated' \in [Workers -> SUBSET ReportIds]
      BY <2>2 DEF TypeOK, InCircle, Pending
    <3> QED
      BY <1>0, <1>5, <2>2, <3>1 DEF TypeOK, CountCluster
  <2> QED
    BY <1>5, <2>1, <2>2 DEF CountCluster
<1>6. CASE Fail(w)
  <2>1. faults' \in 0 .. MaxFaults
    BY <1>6, ThresholdsAssumption DEF TypeOK, Fail
  <2> QED
    BY <1>0, <1>6, <2>1, Finished DEF TypeOK, Fail
<1> QED
  BY <1>1, <1>2, <1>3, <1>4, <1>5, <1>6

LEMMA InsertTypeOK ==
  ASSUME TypeOK, NEW w \in Workers, InsertReport(w)
  PROVE  TypeOK'
<1>1. choice[w] \in Crises \union {NoCrisis} /\ job[w] \in ReportIds /\ pc[w] = "insert"
  BY DEF TypeOK, InsertReport
<1>2. crisisOf' \in [ReportIds -> Crises \union {NoCrisis, NoRow}]
  BY <1>1 DEF TypeOK, InsertReport
<1>3. scopeOf' \in [Buildings -> Crises \union {NoCrisis, NoRow}]
  BY <1>1 DEF TypeOK, InsertReport
<1>4. alone' \in [Workers -> BOOLEAN]
  BY DEF TypeOK, InsertReport, Disturb
<1>0. ExtentsOK'
  BY SameExtents DEF TypeOK, InsertReport
<1>5. CASE Finish(w)
  BY <1>0, <1>2, <1>3, <1>4, <1>5, Finished DEF TypeOK, InsertReport
<1>6. CASE Goto(w, "gate") /\ UNCHANGED <<job, choice, gated>>
  BY <1>0, <1>1, <1>2, <1>3, <1>4, <1>6 DEF TypeOK, InsertReport, Goto
<1> QED
  BY <1>5, <1>6 DEF InsertReport

LEMMA FormTypeOK ==
  ASSUME TypeOK, NEW w \in Workers, FormCrisis(w)
  PROVE  TypeOK'
<1>1. PICK c \in Emergent : Form(w, c, InCircle(job[w]))
  BY DEF FormCrisis
<1>2. c \in Crises /\ InCircle(job[w]) \in SUBSET ReportIds /\ gated[w] \in SUBSET ReportIds
  BY DEF Crises, InCircle, Pending, TypeOK
<1>3. /\ crisisOf' \in [ReportIds -> Crises \union {NoCrisis, NoRow}]
      /\ scopeOf' \in [Buildings -> Crises \union {NoCrisis, NoRow}]
  BY <1>1, <1>2 DEF TypeOK, Form
<1>4. status' \in [Crises -> Statuses] /\ alone' \in [Workers -> BOOLEAN]
  BY <1>1, <1>2 DEF TypeOK, Form, Disturb, Statuses
<1>5. /\ formation' = [formation EXCEPT ![c] = [gated |-> gated[w], attached |-> InCircle(job[w]),
                                                alone |-> alone[w]]]
      /\ formation' \in [Emergent -> Formation]
  BY <1>1, <1>2 DEF TypeOK, Form, Formation
<1>6. ExtentsOK'
  <2>1. /\ DOMAIN extent' = Crises
        /\ extent'[c] = Place(gated[w])
        /\ \A d \in Crises : d # c => extent'[d] = extent[d]
    BY <1>1, <1>2 DEF TypeOK, ExtentsOK, Form
  <2>2. \A d \in Declared : extent'[d] \in Extent
    BY <2>1, IdsAssumption DEF TypeOK, ExtentsOK, Crises
  <2>3. ASSUME NEW d \in Emergent
        PROVE  extent'[d] = (IF status[d] = "none" THEN Nowhere ELSE Place(formation[d].gated))'
    <3>1. CASE d = c
      <4>1. formation'[d].gated = gated[w] /\ status'[d] = "proposed" /\ doc' = doc
        BY <1>1, <1>2, <1>5, <3>1 DEF TypeOK, Form
      <4> QED
        BY <2>1, <3>1, <4>1 DEF Place, Centroid, Earliest
    <3>2. CASE d # c
      <4>1. /\ formation'[d] = formation[d] /\ status'[d] = status[d] /\ doc' = doc
            /\ extent'[d] = extent[d]
        BY <1>1, <1>2, <1>5, <2>1, <2>3, <3>2 DEF TypeOK, Form, Crises
      <4> QED
        BY <2>3, <4>1 DEF TypeOK, ExtentsOK, Nowhere, Place, Centroid, Earliest
    <3> QED
      BY <3>1, <3>2
  <2> QED
    BY <2>1, <2>2, <2>3 DEF ExtentsOK
<1> QED
  BY <1>1, <1>3, <1>4, <1>5, <1>6, Finished DEF TypeOK, Form

LEMMA StatusTypeOK ==
  ASSUME TypeOK, NEW c \in Crises, NEW s \in Statuses \ {"none"}, SetCrisisStatus(c, s)
  PROVE  TypeOK'
<1>1. ExtentsOK'
  BY SameExtents DEF TypeOK, SetCrisisStatus, Crises
<1>2. changes' \in 0 .. MaxChanges
  BY ThresholdsAssumption DEF TypeOK, SetCrisisStatus
<1>3. /\ crisisOf' \in [ReportIds -> Crises \union {NoCrisis, NoRow}]
      /\ scopeOf' \in [Buildings -> Crises \union {NoCrisis, NoRow}]
  BY DEF TypeOK, SetCrisisStatus
<1>4. released' \in [Crises -> SUBSET ReportIds]
  BY DEF TypeOK, SetCrisisStatus, Stored
<1> QED
  BY <1>1, <1>2, <1>3, <1>4 DEF TypeOK, SetCrisisStatus

LEMMA TypeStep == TypeOK /\ [Next]_vars => TypeOK'
<1> SUFFICES ASSUME TypeOK, [Next]_vars PROVE TypeOK'
  OBVIOUS
<1>1. ASSUME NEW r \in ReportIds, WithdrawReport(r) PROVE TypeOK'
  <2>1. ExtentsOK'
    BY <1>1, SameExtents DEF TypeOK, WithdrawReport
  <2>2. changes' \in 0 .. MaxChanges
    BY <1>1, ThresholdsAssumption DEF TypeOK, WithdrawReport
  <2>3. crisisOf' \in [ReportIds -> Crises \union {NoCrisis, NoRow}]
    BY <1>1 DEF TypeOK, WithdrawReport
  <2> QED
    BY <1>1, <2>1, <2>2, <2>3 DEF TypeOK, WithdrawReport
<1>2. CASE UNCHANGED vars
  <2>1. ExtentsOK'
    BY <1>2, SameExtents DEF TypeOK, vars
  <2> QED
    BY <1>2, <2>1 DEF TypeOK, vars
<1> QED
  BY <1>1, <1>2, QuietTypeOK, InsertTypeOK, FormTypeOK, StatusTypeOK DEF Next, Submit, Quiescent

------------------------------------------------------------------------------
(* The steps *)

\* What is pending around a report, and who sent it, changes with the rows only.
LEMMA SamePending ==
  ASSUME UNCHANGED <<doc, crisisOf>>
  PROVE  /\ Stored' = Stored /\ Pending' = Pending
         /\ \A r \in ReportIds : InCircle(r)' = InCircle(r) /\ Cluster(r)' = Cluster(r)
BY DEF Stored, Pending, InCircle, Cluster, Alike

LEMMA SameSenders ==
  ASSUME UNCHANGED doc
  PROVE  /\ \A S : Senders(S)' = Senders(S)
         /\ \A r, s \in ReportIds : Alike(r, s)' = Alike(r, s)
BY DEF Senders, Alike

\* A larger set of reports has no fewer senders.
LEMMA MoreSenders ==
  ASSUME NEW S \in SUBSET ReportIds, NEW T \in SUBSET S
  PROVE  /\ Cardinality(Senders(T)) \in Nat /\ Cardinality(Senders(S)) \in Nat
         /\ Cardinality(Senders(T)) <= Cardinality(Senders(S))
<1>1. IsFiniteSet(S)
  BY IdsAssumption, FS_Subset
<1>2. IsFiniteSet({doc[r].submitter : r \in S})
  <2> DEFINE f == [r \in S |-> doc[r].submitter]
             T0 == {doc[r].submitter : r \in S}
  <2>1. f \in Surjection(S, T0)
    BY DEF Surjection
  <2> HIDE DEF f, T0
  <2>2. IsFiniteSet(T0)
    BY <1>1, <2>1, FS_Surjection
  <2> QED
    BY <2>2 DEF T0
<1>3. Senders(S) \subseteq {doc[r].submitter : r \in S} /\ Senders(T) \subseteq Senders(S)
  BY DEF Senders
<1>4. IsFiniteSet(Senders(S))
  BY <1>2, <1>3, FS_Subset
<1> QED
  BY <1>3, <1>4, FS_Subset, FS_CardinalityType

\* The reports that nothing can tell apart from r are around each of them.
LEMMA ClusterInCircle ==
  ASSUME TypeOK, NEW r \in ReportIds, NEW s \in ReportIds, Alike(r, s), doc[r].spot # NoSpot
  PROVE  Cluster(r) \subseteq InCircle(s)
<1>1. ASSUME NEW q \in Cluster(r) PROVE q \in InCircle(s)
  <2>1. q \in Pending /\ q \in ReportIds /\ Alike(r, q)
    BY DEF Cluster, Pending
  <2>2. /\ doc[q].spot = doc[s].spot /\ doc[q].captured = doc[s].captured
        /\ doc[q].area = doc[s].area /\ doc[q].spot # NoSpot
    BY <2>1 DEF Alike
  <2>3. doc[q].captured \in Int /\ doc[q].spot \in Int
    BY <2>1, <2>2 DEF TypeOK, Doc
  <2>4. doc[s].captured - Window <= doc[q].captured /\ Abs(doc[q].spot - doc[s].spot) <= Radius
    BY <2>2, <2>3, ThresholdsAssumption DEF Abs
  <2> QED
    BY <2>1, <2>2, <2>3, <2>4, ThresholdsAssumption DEF InCircle
<1> QED
  BY <1>1

LEMMA InitCrisisInv == Init => CrisisInv
<1> SUFFICES ASSUME Init PROVE CrisisInv
  OBVIOUS
<1>1. TypeOK
  BY InitTypeOK
<1>2. Stored = {} /\ Pending = {} /\ Formed = {}
  BY NullsAssumption, IdsAssumption DEF Init, Stored, Pending, Formed, Crises
<1>3. HandlerInv /\ ReleasedInv /\ GateInv /\ FormedInv
  BY <1>1, <1>2 DEF Init, HandlerInv, ReleasedInv, GateInv, FormedInv, Inserting, Detecting
<1>4. ReleasedStaysReleased
  BY DEF Init, ReleasedStaysReleased
<1>5. ScopeHasReport
  BY NullsAssumption DEF Init, ScopeHasReport, Crises
<1>6. ClusterInv
  <2>1. ASSUME NEW r \in ReportIds PROVE ~ Cardinality(Senders(Cluster(r))) >= MinReports
    <3>1. Senders(Cluster(r)) = {}
      BY <1>2 DEF Cluster, Senders
    <3> QED
      BY <3>1, FS_EmptySet, ThresholdsAssumption
  <2> QED
    BY <2>1 DEF ClusterInv
<1> QED
  BY <1>1, <1>3, <1>4, <1>5, <1>6 DEF CrisisInv

\* What holds of the rows holds on when they and the takedowns stay.
LEMMA SameBoard ==
  ASSUME CrisisInv, UNCHANGED <<doc, board>>
  PROVE  ReleasedInv' /\ ReleasedStaysReleased' /\ ScopeHasReport' /\ FormedInv'
<1>1. Stored' = Stored /\ Pending' = Pending
  BY SamePending DEF board
<1>2. ReleasedInv' /\ ReleasedStaysReleased'
  BY <1>1 DEF CrisisInv, board, ReleasedInv, ReleasedStaysReleased
<1>3. ScopeHasReport'
  BY <1>1 DEF CrisisInv, board, ScopeHasReport
<1>4. FormedInv'
  BY SameSenders DEF CrisisInv, board, FormedInv, Formed
<1> QED
  BY <1>2, <1>3, <1>4

\* A handler on its way to the insert.
LEMMA ApproachInv ==
  ASSUME CrisisInv, TypeOK', NEW w \in Workers,
         \/ \E r \in ReportIds : Receive(w, r)
         \/ CheckPin(w) \/ CheckPinFails(w) \/ AssignCrisis(w) \/ AssignFails(w)
  PROVE  CrisisInv'
<1>0. /\ UNCHANGED <<doc, board, gated, alone>>
      /\ pc'[w] \in Inserting /\ pc[w] \notin Detecting
      /\ \/ job' = job /\ pc[w] \in Inserting
         \/ \E r \in ReportIds : /\ r \notin Stored \union erased /\ \A v \in Workers : job[v] # r
                                 /\ job'[w] = r
      /\ \A v \in Workers : v # w => pc'[v] = pc[v] /\ job'[v] = job[v]
      /\ faults' = faults \/ faults' = faults + 1
  BY DEF Receive, CheckPin, CheckPinFails, AssignCrisis, AssignFails, Goto, CrisisInv, TypeOK,
         Inserting, Detecting
<1>1. /\ Stored' = Stored /\ erased' = erased /\ released' = released
      /\ \A r \in ReportIds : InCircle(r)' = InCircle(r) /\ Cluster(r)' = Cluster(r)
      /\ \A S : Senders(S)' = Senders(S)
      /\ \A r, s \in ReportIds : Alike(r, s)' = Alike(r, s)
  BY <1>0, SamePending, SameSenders DEF board
<1>2. HandlerInv'
  BY <1>0, <1>1, NullsAssumption DEF CrisisInv, HandlerInv, Inserting, Detecting
<1>3. GateInv'
  BY <1>0, <1>1 DEF CrisisInv, TypeOK, GateInv, Inserting, Detecting
<1>4. ClusterInv'
  <2>1. faults' = 0 => faults = 0
    BY <1>0 DEF CrisisInv, TypeOK
  <2>2. ASSUME NEW v \in Workers, pc[v] \in Detecting
        PROVE  v # w /\ pc'[v] \in Detecting /\ job'[v] = job[v] /\ job[v] \in ReportIds
    BY <1>0, <2>2 DEF CrisisInv, TypeOK, Detecting
  <2> QED
    BY <1>0, <1>1, <2>1, <2>2 DEF CrisisInv, ClusterInv
<1> QED
  BY <1>0, <1>2, <1>3, <1>4, SameBoard DEF CrisisInv

\* A handler that finds too few submitters leaves no cluster behind.
LEMMA CountInv ==
  ASSUME CrisisInv, TypeOK', NEW w \in Workers, CountCluster(w)
  PROVE  CrisisInv'
<1>0. /\ UNCHANGED <<doc, board, faults>> /\ pc[w] = "gate" /\ job[w] \in ReportIds
      /\ doc[job[w]].spot # NoSpot
  BY DEF CountCluster, CrisisInv, TypeOK, HandlerInv, Detecting
<1>1. /\ Stored' = Stored /\ erased' = erased /\ released' = released
      /\ \A r \in ReportIds : InCircle(r)' = InCircle(r) /\ Cluster(r)' = Cluster(r)
      /\ \A S : Senders(S)' = Senders(S)
      /\ \A r, s \in ReportIds : Alike(r, s)' = Alike(r, s)
  BY <1>0, SamePending, SameSenders DEF board
<1>2. \/ /\ ~ Cardinality(Senders(InCircle(job[w]))) >= MinReports
         /\ pc'[w] = "idle" /\ job'[w] = NoRow /\ alone' = alone
         /\ \A v \in Workers : v # w => gated'[v] = gated[v]
      \/ /\ Cardinality(Senders(InCircle(job[w]))) >= MinReports
         /\ pc'[w] = "form" /\ job' = job /\ gated'[w] = InCircle(job[w])
         /\ \A v \in Workers : v # w => gated'[v] = gated[v] /\ alone'[v] = alone[v]
  <2>1. InCircle(job[w]) \in SUBSET ReportIds
    BY DEF InCircle, Pending
  <2>2. /\ Cardinality(Senders(InCircle(job[w]))) \in Nat /\ MinReports \in Nat
    BY <2>1, MoreSenders, ThresholdsAssumption
  <2>3. Finish(w) => /\ pc'[w] = "idle" /\ job'[w] = NoRow
                     /\ \A v \in Workers : v # w => gated'[v] = gated[v]
    BY Finished DEF CrisisInv
  <2> QED
    BY <2>2, <2>3 DEF CountCluster, Goto, CrisisInv, TypeOK
<1>3. \A v \in Workers : v # w => pc'[v] = pc[v] /\ job'[v] = job[v]
  BY Finished DEF CountCluster, Goto, CrisisInv, TypeOK
<1>4. HandlerInv'
  BY <1>0, <1>1, <1>2, <1>3 DEF CrisisInv, HandlerInv, Inserting, Detecting
<1>5. GateInv'
  BY <1>0, <1>1, <1>2, <1>3 DEF CrisisInv, TypeOK, GateInv
<1>6. ClusterInv'
  <2> SUFFICES ASSUME faults' = 0, \A c \in Crises : released'[c] = {}, NEW r \in ReportIds,
                      doc[r].spot # NoSpot, Cardinality(Senders(Cluster(r))) >= MinReports
               PROVE  \E v \in Workers : pc'[v] \in Detecting /\ Alike(r, job[v]) /\ job'[v] = job[v]
    <3>1. \A s \in ReportIds : doc'[s] = doc[s] /\ Senders(Cluster(s))' = Senders(Cluster(s))
      BY <1>0, <1>1
    <3>2. \A s \in ReportIds : \A v \in Workers :
            job'[v] = job[v] => (Alike(s, job[v])' <=> Alike(s, job[v]))
      BY <1>0 DEF Alike
    <3> QED
      BY <3>1, <3>2 DEF ClusterInv
  <2>1. PICK v \in Workers : pc[v] \in Detecting /\ Alike(r, job[v])
    BY <1>0, <1>1 DEF CrisisInv, ClusterInv
  <2>2. CASE v # w
    BY <1>3, <2>1, <2>2
  <2>3. CASE v = w
    <3>1. Cluster(r) \subseteq InCircle(job[w]) /\ InCircle(job[w]) \in SUBSET ReportIds
      BY <1>0, <2>1, <2>3, ClusterInCircle DEF CrisisInv, InCircle, Pending
    <3>2. Cardinality(Senders(InCircle(job[w]))) >= MinReports
      <4>1. /\ Cardinality(Senders(Cluster(r))) \in Nat
            /\ Cardinality(Senders(InCircle(job[w]))) \in Nat /\ MinReports \in Nat
            /\ Cardinality(Senders(Cluster(r))) <= Cardinality(Senders(InCircle(job[w])))
        BY <3>1, MoreSenders, ThresholdsAssumption
      <4> QED
        BY <4>1
    <3> QED
      BY <1>2, <2>1, <2>3, <3>2 DEF Detecting
  <2> QED
    BY <2>2, <2>3
<1> QED
  BY <1>0, <1>4, <1>5, <1>6, SameBoard DEF CrisisInv

\* A handler that gives up before the insert, or fails.
LEMMA GiveUpInv ==
  ASSUME CrisisInv, TypeOK', NEW w \in Workers, InsertUnknownCrisis(w) \/ Fail(w)
  PROVE  CrisisInv'
<1>0. /\ UNCHANGED <<doc, board, alone>> /\ Finish(w)
      /\ \/ faults' = faults /\ pc[w] \notin Detecting
         \/ faults' # 0
  BY DEF InsertUnknownCrisis, Fail, CrisisInv, TypeOK, Detecting
<1>1. /\ Stored' = Stored /\ erased' = erased /\ released' = released
      /\ \A r \in ReportIds : InCircle(r)' = InCircle(r) /\ Cluster(r)' = Cluster(r)
      /\ \A S : Senders(S)' = Senders(S)
      /\ \A r, s \in ReportIds : Alike(r, s)' = Alike(r, s)
  BY <1>0, SamePending, SameSenders DEF board
<1>2. /\ pc'[w] = "idle" /\ job'[w] = NoRow
      /\ \A v \in Workers : v # w => pc'[v] = pc[v] /\ job'[v] = job[v] /\ gated'[v] = gated[v]
  BY <1>0, Finished DEF CrisisInv
<1>3. HandlerInv'
  BY <1>0, <1>1, <1>2 DEF CrisisInv, HandlerInv, Inserting, Detecting
<1>4. GateInv'
  BY <1>0, <1>1, <1>2 DEF CrisisInv, TypeOK, GateInv
<1>5. ClusterInv'
  <2>1. ASSUME NEW v \in Workers, pc[v] \in Detecting, faults' = 0
        PROVE  v # w /\ pc'[v] \in Detecting /\ job'[v] = job[v] /\ job[v] \in ReportIds
    BY <1>0, <1>2, <2>1 DEF CrisisInv, TypeOK, Detecting
  <2> QED
    BY <1>0, <1>1, <2>1 DEF CrisisInv, ClusterInv
<1> QED
  BY <1>0, <1>3, <1>4, <1>5, SameBoard DEF CrisisInv

\* The report was not stored before; if it is pending, its handler goes on to look
\* for a cluster.
LEMMA InsertInv ==
  ASSUME CrisisInv, TypeOK', NEW w \in Workers, InsertReport(w)
  PROVE  CrisisInv'
<1>a. PICK r \in ReportIds : r = job[w]
  BY DEF CrisisInv, TypeOK, InsertReport
<1>0. /\ pc[w] = "insert" /\ r \notin Stored \union erased /\ r # NoRow
      /\ choice[w] \in Crises \union {NoCrisis}
  BY <1>a, NullsAssumption DEF CrisisInv, TypeOK, InsertReport, HandlerInv, Inserting
<1>1. /\ crisisOf'[r] = choice[w] /\ Stored' = Stored \union {r}
      /\ \A q \in ReportIds : q # r => crisisOf'[q] = crisisOf[q]
      /\ UNCHANGED <<doc, status, extent, faults, changes, formation, released, erased>>
  <2>1. /\ crisisOf'[r] = choice[w]
        /\ \A q \in ReportIds : q # r => crisisOf'[q] = crisisOf[q]
    BY <1>a DEF CrisisInv, TypeOK, InsertReport
  <2> QED
    BY <1>0, <2>1, NullsAssumption DEF InsertReport, Stored
<1>2. /\ \A v \in Workers : v # w => /\ pc'[v] = pc[v] /\ job'[v] = job[v] /\ ~alone'[v]
                                     /\ gated'[v] = gated[v]
      /\ \/ choice[w] = NoCrisis /\ doc[r].spot # NoSpot /\ pc'[w] = "gate" /\ job'[w] = r
         \/ ~ (choice[w] = NoCrisis /\ doc[r].spot # NoSpot) /\ pc'[w] = "idle" /\ job'[w] = NoRow
  <2>1. \A v \in Workers : v # w => ~alone'[v]
    BY DEF InsertReport, Disturb
  <2>2. CASE choice[w] = NoCrisis /\ doc[r].spot # NoSpot
    BY <1>a, <2>1, <2>2 DEF InsertReport, Goto, CrisisInv, TypeOK
  <2>3. CASE ~ (choice[w] = NoCrisis /\ doc[r].spot # NoSpot)
    <3>1. Finish(w)
      BY <1>a, <2>3 DEF InsertReport
    <3> QED
      BY <2>1, <2>3, <3>1, Finished DEF CrisisInv
  <2> QED
    BY <2>2, <2>3
<1>3. HandlerInv'
  <2>1. \A v \in Workers : v # w /\ job[v] # NoRow => job[v] # r
    BY <1>a, <1>0 DEF CrisisInv, HandlerInv
  <2>2. \A v \in Workers : pc'[v] \in Inserting => v # w /\ pc[v] # "idle"
    BY <1>2 DEF Inserting
  <2> QED
    BY <1>a, <1>0, <1>1, <1>2, <2>1, <2>2 DEF CrisisInv, TypeOK, HandlerInv, Inserting, Detecting
<1>4. ReleasedInv'
  BY <1>1 DEF CrisisInv, ReleasedInv
<1>5. ReleasedStaysReleased'
  BY <1>0, <1>1 DEF CrisisInv, ReleasedInv, ReleasedStaysReleased, TypeOK
<1>6. ScopeHasReport'
  <2> SUFFICES ASSUME NEW b \in Buildings, \A q \in erased : doc[q].building # b,
                      scopeOf'[b] \in Crises
               PROVE  \/ \E q \in Stored' : doc[q].building = b /\ crisisOf'[q] = scopeOf'[b]
                      \/ /\ scopeOf'[b] \in Declared /\ released[scopeOf'[b]] = {}
                         /\ status[scopeOf'[b]] # "dismissed"
    BY <1>1 DEF ScopeHasReport
  <2>1. CASE scopeOf'[b] = scopeOf[b]
    <3>1. \A q \in Stored : q # r /\ q \in Stored' /\ crisisOf'[q] = crisisOf[q]
      BY <1>0, <1>1 DEF Stored
    <3> QED
      BY <2>1, <3>1 DEF CrisisInv, ScopeHasReport
  <2>2. CASE scopeOf'[b] # scopeOf[b]
    <3>1. b = doc[r].building /\ scopeOf'[b] = choice[w]
      BY <1>a, <2>2 DEF InsertReport, CrisisInv, TypeOK
    <3> QED
      BY <1>1, <3>1
  <2> QED
    BY <2>1, <2>2
<1>7. GateInv'
  BY <1>1, <1>2, SameSenders DEF CrisisInv, TypeOK, GateInv
<1>8. FormedInv'
  BY <1>1, SameSenders DEF CrisisInv, FormedInv, Formed
<1>9. ClusterInv'
  <2> SUFFICES ASSUME faults = 0, \A c \in Crises : released[c] = {}, NEW q \in ReportIds,
                      doc[q].spot # NoSpot, Cardinality(Senders(Cluster(q)')) >= MinReports
               PROVE  \E v \in Workers : /\ pc'[v] \in Detecting
                                         /\ job'[v] \in ReportIds /\ Alike(q, job'[v])
    <3>1. \A S : Senders(S)' = Senders(S)
      BY <1>1, SameSenders
    <3> QED
      BY <1>1, <3>1 DEF ClusterInv, Alike
  <2>1. CASE r \in Cluster(q)'
    <3>1. Alike(q, r) /\ crisisOf'[r] = NoCrisis
      BY <1>1, <2>1 DEF Cluster, Pending, Alike
    <3>2. doc[r].spot # NoSpot
      BY <3>1 DEF Alike
    <3> QED
      BY <1>1, <1>2, <3>1, <3>2 DEF Detecting
  <2>2. CASE r \notin Cluster(q)'
    <3>1. Cluster(q)' \subseteq Cluster(q) /\ Cluster(q) \in SUBSET ReportIds
      BY <1>1, <2>2 DEF Cluster, Pending, Alike
    <3>2. Cardinality(Senders(Cluster(q))) >= MinReports
      <4>1. /\ Cardinality(Senders(Cluster(q)')) \in Nat
            /\ Cardinality(Senders(Cluster(q))) \in Nat /\ MinReports \in Nat
            /\ Cardinality(Senders(Cluster(q)')) <= Cardinality(Senders(Cluster(q)))
        BY <3>1, MoreSenders, ThresholdsAssumption
      <4> QED
        BY <4>1
    <3>3. PICK v \in Workers : pc[v] \in Detecting /\ Alike(q, job[v])
      BY <3>2 DEF CrisisInv, ClusterInv
    <3>4. v # w /\ job[v] \in ReportIds
      BY <1>0, <3>3 DEF CrisisInv, TypeOK, Detecting
    <3> QED
      BY <1>2, <3>3, <3>4
  <2> QED
    BY <2>1, <2>2
<1> QED
  BY <1>3, <1>4, <1>5, <1>6, <1>7, <1>8, <1>9 DEF CrisisInv

\* No cluster that has shrunk to nothing is complete.
LEMMA NoEmptyCluster == ~ Cardinality(Senders({})) >= MinReports
<1>1. Senders({}) = {}
  BY DEF Senders
<1> QED
  BY <1>1, FS_EmptySet, ThresholdsAssumption

\* A crisis is formed of pending reports only, the ones that cannot be told from
\* its trigger among them.
LEMMA FormInv ==
  ASSUME CrisisInv, TypeOK', NEW w \in Workers, FormCrisis(w)
  PROVE  CrisisInv'
<1>0. PICK c \in Emergent : Form(w, c, InCircle(job[w]))
  BY DEF FormCrisis
<1>a. PICK J : J = InCircle(job[w])
  OBVIOUS
<1>1. /\ c \in Crises /\ c # NoCrisis /\ c # NoRow /\ c \notin Declared
      /\ J \subseteq Pending /\ Pending \subseteq Stored
      /\ pc[w] = "form" /\ job[w] \in ReportIds
  BY <1>a, NullsAssumption, IdsAssumption
     DEF Crises, InCircle, Pending, Stored, FormCrisis, CrisisInv, TypeOK
<1>2. /\ status[c] = "none" /\ status'[c] = "proposed"
      /\ \A d \in Crises : d # c => status'[d] = status[d]
      /\ \A q \in ReportIds : crisisOf'[q] = IF q \in J THEN c ELSE crisisOf[q]
      /\ \A b \in Buildings : scopeOf'[b] = IF scopeOf[b] = NoCrisis /\ \E q \in J : doc[q].building = b
                                              THEN c ELSE scopeOf[b]
      /\ UNCHANGED <<doc, faults, changes, released, erased>>
  BY <1>0, <1>a, <1>1 DEF Form, CrisisInv, TypeOK
<1>3. /\ pc'[w] = "idle" /\ job'[w] = NoRow
      /\ \A v \in Workers : v # w => /\ pc'[v] = pc[v] /\ job'[v] = job[v] /\ gated'[v] = gated[v]
                                     /\ ~alone'[v]
  BY <1>0, Finished DEF Form, Disturb, CrisisInv
<1>4. Stored' = Stored
  BY <1>1, <1>2 DEF Stored
<1>5. HandlerInv'
  BY <1>2, <1>3, <1>4 DEF CrisisInv, HandlerInv, Inserting, Detecting
<1>6. ReleasedInv' /\ ReleasedStaysReleased'
  <2>1. ReleasedInv'
    BY <1>2, <1>4 DEF CrisisInv, ReleasedInv
  <2>2. ASSUME NEW d \in Crises, status'[d] = "dismissed", NEW r \in released[d]
        PROVE  crisisOf'[r] # d
    <3>1. d # c /\ status[d] = "dismissed" /\ r \in ReportIds
      BY <1>2, <2>2 DEF CrisisInv, TypeOK
    <3> QED
      BY <1>2, <2>2, <3>1 DEF CrisisInv, ReleasedStaysReleased
  <2> QED
    BY <1>2, <2>1, <2>2 DEF ReleasedStaysReleased
<1>7. ScopeHasReport'
  <2> SUFFICES ASSUME NEW b \in Buildings, \A q \in erased : doc[q].building # b,
                      scopeOf'[b] \in Crises
               PROVE  \/ \E q \in Stored : doc[q].building = b /\ crisisOf'[q] = scopeOf'[b]
                      \/ /\ scopeOf'[b] \in Declared /\ released[scopeOf'[b]] = {}
                         /\ status'[scopeOf'[b]] # "dismissed"
    BY <1>2, <1>4 DEF ScopeHasReport
  <2>1. CASE scopeOf'[b] = scopeOf[b]
    <3>1. \A q \in Stored : crisisOf[q] = scopeOf[b] => crisisOf'[q] = crisisOf[q]
      <4>1. \A q \in J : crisisOf[q] = NoCrisis
        BY <1>1 DEF Pending
      <4> QED
        BY <1>2, <2>1, <4>1, NullsAssumption DEF Stored
    <3> QED
      BY <1>1, <1>2, <2>1, <3>1 DEF CrisisInv, ScopeHasReport, Crises
  <2>2. CASE scopeOf'[b] # scopeOf[b]
    <3>1. PICK q \in J : doc[q].building = b
      BY <1>2, <2>2
    <3>2. q \in Stored /\ crisisOf'[q] = c /\ scopeOf'[b] = c
      BY <1>1, <1>2, <2>2 DEF Stored
    <3> QED
      BY <3>1, <3>2
  <2> QED
    BY <2>1, <2>2
<1>8. GateInv'
  BY <1>2, <1>3, SameSenders DEF CrisisInv, TypeOK, GateInv
<1>9. FormedInv'
  <2>1. /\ formation'[c] = [gated |-> gated[w], attached |-> J, alone |-> alone[w]]
        /\ \A d \in Emergent : d # c => formation'[d] = formation[d]
    BY <1>0, <1>a DEF Form, CrisisInv, TypeOK
  <2>2. alone[w] => J = gated[w] /\ Cardinality(Senders(J)) >= MinReports
    BY <1>a, <1>1 DEF CrisisInv, GateInv
  <2>3. \A S : Senders(S)' = Senders(S)
    BY <1>2, SameSenders
  <2>4. ASSUME NEW d \in Emergent, status'[d] # "none", formation'[d].alone
        PROVE  /\ formation'[d].attached = formation'[d].gated
               /\ Cardinality(Senders(formation'[d].attached)) >= MinReports
    <3>1. CASE d = c
      BY <2>1, <2>2, <2>4, <3>1
    <3>2. CASE d # c
      BY <1>2, <2>1, <2>4, <3>2 DEF CrisisInv, FormedInv, Formed, Crises
    <3> QED
      BY <3>1, <3>2
  <2> QED
    BY <2>3, <2>4 DEF FormedInv, Formed
<1>10. ClusterInv'
  <2> SUFFICES ASSUME faults = 0, \A d \in Crises : released[d] = {}, NEW q \in ReportIds,
                      doc[q].spot # NoSpot, Cardinality(Senders(Cluster(q)')) >= MinReports
               PROVE  \E v \in Workers : pc'[v] \in Detecting /\ Alike(q, job'[v])
    <3>1. \A S : Senders(S)' = Senders(S)
      BY <1>2, SameSenders
    <3> QED
      BY <1>2, <3>1 DEF ClusterInv, Alike
  <2>1. Cluster(q)' = Cluster(q) \ J /\ Cluster(q) \in SUBSET ReportIds
    BY <1>1, <1>2 DEF Cluster, Pending, Alike
  <2>2. Cardinality(Senders(Cluster(q))) >= MinReports
    <3>1. /\ Cardinality(Senders(Cluster(q)')) \in Nat
          /\ Cardinality(Senders(Cluster(q))) \in Nat /\ MinReports \in Nat
          /\ Cardinality(Senders(Cluster(q)')) <= Cardinality(Senders(Cluster(q)))
      BY <2>1, MoreSenders, ThresholdsAssumption
    <3> QED
      BY <3>1
  <2>3. PICK v \in Workers : pc[v] \in Detecting /\ Alike(q, job[v])
    BY <2>2 DEF CrisisInv, ClusterInv
  <2>4. v # w
    <3>1. ASSUME v = w PROVE FALSE
      <4>1. Cluster(q) \subseteq J
        BY <1>a, <1>1, <2>3, <3>1, ClusterInCircle DEF CrisisInv
      <4>2. Cluster(q)' = {}
        BY <2>1, <4>1
      <4> QED
        BY <4>2, NoEmptyCluster
    <3> QED
      BY <3>1
  <2> QED
    BY <1>3, <2>3, <2>4
<1> QED
  BY <1>5, <1>6, <1>7, <1>8, <1>9, <1>10 DEF CrisisInv

\* A dismissal takes the reports and the buildings out of the crisis.
LEMMA StatusInv ==
  ASSUME CrisisInv, TypeOK', NEW c \in Crises, NEW s \in Statuses \ {"none"}, SetCrisisStatus(c, s)
  PROVE  CrisisInv'
<1>0. /\ status[c] # "none" /\ status'[c] = s /\ s # "none"
      /\ \A d \in Crises : d # c => status'[d] = status[d]
      /\ UNCHANGED <<doc, extent, pc, job, choice, gated, faults, formation, erased>>
      /\ \A v \in Workers : ~alone'[v]
  BY DEF SetCrisisStatus, CrisisInv, TypeOK
<1>1. \/ s # "dismissed" /\ UNCHANGED <<crisisOf, scopeOf, released>>
      \/ /\ s = "dismissed"
         /\ \A r \in ReportIds : crisisOf'[r] = IF crisisOf[r] = c THEN NoCrisis ELSE crisisOf[r]
         /\ \A b \in Buildings : scopeOf'[b] = IF scopeOf[b] = c THEN NoCrisis ELSE scopeOf[b]
         /\ released'[c] = Stored
         /\ \A d \in Crises : d # c => released'[d] = released[d]
  BY DEF SetCrisisStatus, CrisisInv, TypeOK
<1>2. Stored' = Stored
  BY <1>1, NullsAssumption DEF Stored
<1>3. HandlerInv'
  BY <1>0, <1>2 DEF CrisisInv, HandlerInv, Inserting, Detecting
<1>4. ReleasedInv'
  BY <1>0, <1>1, <1>2 DEF CrisisInv, ReleasedInv
<1>5. ReleasedStaysReleased'
  <2>1. CASE s # "dismissed"
    BY <1>0, <1>1, <2>1 DEF CrisisInv, ReleasedStaysReleased
  <2>2. CASE s = "dismissed"
    <3>1. ASSUME NEW d \in Crises, status'[d] = "dismissed", NEW r \in released'[d]
          PROVE  crisisOf'[r] # d
      <4>1. r \in ReportIds
        BY <3>1 DEF TypeOK
      <4>2. CASE d = c
        BY <1>1, <2>2, <4>1, <4>2, NullsAssumption
      <4>3. CASE d # c
        <5>1. crisisOf[r] # d
          BY <1>0, <1>1, <2>2, <3>1, <4>3 DEF CrisisInv, ReleasedStaysReleased
        <5> QED
          BY <1>1, <2>2, <4>1, <5>1, NullsAssumption
      <4> QED
        BY <4>2, <4>3
    <3> QED
      BY <3>1 DEF ReleasedStaysReleased
  <2> QED
    BY <2>1, <2>2
<1>6. ScopeHasReport'
  <2>1. CASE s # "dismissed"
    BY <1>0, <1>1, <1>2, <2>1 DEF CrisisInv, ScopeHasReport
  <2>2. CASE s = "dismissed"
    <3>1. ASSUME NEW b \in Buildings, \A q \in erased : doc[q].building # b, scopeOf'[b] \in Crises
          PROVE  \/ \E q \in Stored : doc[q].building = b /\ crisisOf'[q] = scopeOf'[b]
                 \/ /\ scopeOf'[b] \in Declared /\ released'[scopeOf'[b]] = {}
                    /\ status'[scopeOf'[b]] # "dismissed"
      <4>1. scopeOf'[b] = scopeOf[b] /\ scopeOf[b] # c
        BY <1>1, <2>2, <3>1, NullsAssumption
      <4>2. \A q \in Stored : crisisOf[q] = scopeOf[b] => crisisOf'[q] = crisisOf[q]
        BY <1>1, <2>2, <4>1 DEF Stored
      <4> QED
        BY <1>0, <1>1, <2>2, <3>1, <4>1, <4>2 DEF CrisisInv, ScopeHasReport
    <3> QED
      BY <1>0, <1>2, <3>1 DEF ScopeHasReport
  <2> QED
    BY <2>1, <2>2
<1>7. GateInv'
  BY <1>0, SameSenders DEF CrisisInv, GateInv
<1>8. FormedInv'
  BY <1>0, SameSenders DEF CrisisInv, FormedInv, Formed, Crises
<1>9. ClusterInv'
  <2>1. CASE s # "dismissed"
    BY <1>0, <1>1, <2>1, SamePending, SameSenders DEF CrisisInv, TypeOK, ClusterInv, Alike
  <2>2. CASE s = "dismissed"
    <3>1. ASSUME NEW r \in ReportIds, Stored = {} PROVE Cluster(r)' = {}
      BY <1>2, <3>1, NullsAssumption DEF Cluster, Pending, Stored
    <3>2. Senders({})' = Senders({})
      BY <1>0, SameSenders
    <3> QED
      BY <1>1, <2>2, <3>1, <3>2, NoEmptyCluster DEF ClusterInv
  <2> QED
    BY <2>1, <2>2
<1> QED
  BY <1>3, <1>4, <1>5, <1>6, <1>7, <1>8, <1>9 DEF CrisisInv

LEMMA WithdrawInv ==
  ASSUME CrisisInv, TypeOK', NEW r \in ReportIds, WithdrawReport(r)
  PROVE  CrisisInv'
<1>0. /\ r \in Stored /\ crisisOf'[r] = NoRow /\ erased' = erased \union {r}
      /\ \A q \in ReportIds : q # r => crisisOf'[q] = crisisOf[q]
      /\ \A v \in Workers : ~alone'[v]
      /\ UNCHANGED <<doc, scopeOf, status, extent, pc, job, choice, gated, faults, formation, released>>
  BY DEF WithdrawReport, CrisisInv, TypeOK
<1>1. Stored' = Stored \ {r} /\ Pending' = Pending \ {r}
  BY <1>0, NullsAssumption DEF Stored, Pending
<1>2. HandlerInv'
  BY <1>0, <1>1 DEF CrisisInv, HandlerInv, Inserting, Detecting
<1>3. ReleasedInv'
  BY <1>0, <1>1 DEF CrisisInv, ReleasedInv
<1>4. ReleasedStaysReleased'
  BY <1>0, NullsAssumption DEF CrisisInv, TypeOK, ReleasedStaysReleased
<1>5. ScopeHasReport'
  <2>1. ASSUME NEW b \in Buildings, \A q \in erased \union {r} : doc[q].building # b,
               scopeOf[b] \in Crises
        PROVE  \/ \E q \in Stored' : doc[q].building = b /\ crisisOf'[q] = scopeOf[b]
               \/ /\ scopeOf[b] \in Declared /\ released[scopeOf[b]] = {}
                  /\ status[scopeOf[b]] # "dismissed"
    <3>1. \A q \in Stored : doc[q].building = b => q \in Stored' /\ crisisOf'[q] = crisisOf[q]
      BY <1>0, <1>1, <2>1 DEF Stored
    <3> QED
      BY <2>1, <3>1 DEF CrisisInv, ScopeHasReport
  <2> QED
    BY <1>0, <2>1 DEF ScopeHasReport
<1>6. GateInv'
  BY <1>0, SameSenders DEF CrisisInv, GateInv
<1>7. FormedInv'
  BY <1>0, SameSenders DEF CrisisInv, FormedInv, Formed
<1>8. ClusterInv'
  <2> SUFFICES ASSUME faults = 0, \A d \in Crises : released[d] = {}, NEW q \in ReportIds,
                      doc[q].spot # NoSpot, Cardinality(Senders(Cluster(q)')) >= MinReports
               PROVE  \E v \in Workers : pc[v] \in Detecting /\ Alike(q, job[v])
    <3>1. \A S : Senders(S)' = Senders(S)
      BY <1>0, SameSenders
    <3> QED
      BY <1>0, <3>1 DEF ClusterInv, Alike
  <2>1. Cluster(q)' \subseteq Cluster(q) /\ Cluster(q) \in SUBSET ReportIds
    BY <1>0, <1>1 DEF Cluster, Pending, Alike
  <2>2. /\ Cardinality(Senders(Cluster(q)')) \in Nat
        /\ Cardinality(Senders(Cluster(q))) \in Nat /\ MinReports \in Nat
        /\ Cardinality(Senders(Cluster(q)')) <= Cardinality(Senders(Cluster(q)))
    BY <2>1, MoreSenders, ThresholdsAssumption
  <2>3. Cardinality(Senders(Cluster(q))) >= MinReports
    BY <2>2
  <2> QED
    BY <2>3 DEF CrisisInv, ClusterInv
<1> QED
  BY <1>2, <1>3, <1>4, <1>5, <1>6, <1>7, <1>8 DEF CrisisInv

------------------------------------------------------------------------------
(* The invariant and what it says *)

LEMMA StutterInv ==
  ASSUME CrisisInv, TypeOK', UNCHANGED vars
  PROVE  CrisisInv'
<1> USE DEF vars, CrisisInv
<1>1. UNCHANGED <<doc, board>>
  BY DEF board
<1>2. HandlerInv'
  BY <1>1, SamePending DEF HandlerInv, board
<1>3. GateInv'
  BY SamePending, SameSenders DEF TypeOK, GateInv
<1>4. ClusterInv'
  BY SamePending, SameSenders DEF TypeOK, ClusterInv, Alike
<1> QED
  BY <1>1, <1>2, <1>3, <1>4, SameBoard

\* The inductive invariant of the crises.
THEOREM CrisisInvariant == Spec => []CrisisInv
<1>1. CrisisInv /\ [Next]_vars => CrisisInv'
  <2> SUFFICES ASSUME CrisisInv, [Next]_vars PROVE CrisisInv'
    OBVIOUS
  <2>1. TypeOK'
    BY TypeStep DEF CrisisInv
  <2> QED
    BY <2>1, ApproachInv, CountInv, GiveUpInv, InsertInv, FormInv, StatusInv, WithdrawInv, StutterInv
       DEF Next, Submit, Quiescent
<1> QED
  BY <1>1, InitCrisisInv, PTL DEF Spec

\* A detection nothing came between takes exactly the reports it counted, which
\* have enough submitters; and every variable keeps its type.
THEOREM UndisturbedFormationAlways == Spec => []UndisturbedFormation
<1>1. CrisisInv => UndisturbedFormation
  BY DEF CrisisInv, FormedInv, UndisturbedFormation
<1> QED
  BY <1>1, CrisisInvariant, PTL

\* As long as a crisis stays dismissed, the reports it released are not in it.
THEOREM ReleasedStaysReleasedAlways == Spec => []ReleasedStaysReleased
<1>1. CrisisInv => ReleasedStaysReleased
  BY DEF CrisisInv
<1> QED
  BY <1>1, CrisisInvariant, PTL

\* A building is filed under a crisis that it has a report of, or under the one
\* its footprint was loaded for.
THEOREM ScopeHasReportAlways == Spec => []ScopeHasReport
<1>1. CrisisInv => ScopeHasReport
  BY DEF CrisisInv
<1> QED
  BY <1>1, CrisisInvariant, PTL

\* When all is quiet and nothing failed, no cluster was missed, however many
\* handlers inserted its reports at the same time.
THEOREM NoClusterMissedAlways == Spec => []NoClusterMissed
<1>1. CrisisInv => NoClusterMissed
  <2> SUFFICES ASSUME CrisisInv, \A w \in Workers : pc[w] = "idle", faults = 0,
                      \A c \in Crises : released[c] = {}, NEW r \in Pending, doc[r].spot # NoSpot
               PROVE  Cardinality(Senders({s \in Pending : Alike(r, s)})) < MinReports
    BY DEF NoClusterMissed
  <2>1. r \in ReportIds /\ Cluster(r) \in SUBSET ReportIds
    BY DEF Pending, Cluster
  <2>2. ~ Cardinality(Senders(Cluster(r))) >= MinReports
    BY <2>1 DEF CrisisInv, ClusterInv, Detecting
  <2>3. Cardinality(Senders(Cluster(r))) \in Nat /\ MinReports \in Nat
    BY <2>1, MoreSenders, ThresholdsAssumption
  <2> QED
    BY <2>2, <2>3 DEF Cluster
<1> QED
  BY <1>1, CrisisInvariant, PTL
==============================================================================
