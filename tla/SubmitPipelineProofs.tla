-------------------------- MODULE SubmitPipelineProofs -----------------------
(***************************************************************************)
(* How far handlers that read before they write can overshoot, for any     *)
(* number of handlers, devices and documents and any limits and windows.   *)
(* The invariants count what is stored together with the handlers that     *)
(* have read already and will write: a handler that reads finds room, so   *)
(* what is stored then is below the limit and all the others add at most   *)
(* one each; a handler that writes moves from one side to the other.       *)
(***************************************************************************)
EXTENDS SubmitPipeline, FiniteSetTheorems, TLAPS

\* The handlers of device d that have passed the guard in front of the labels.
Passed(d, labels) ==
  {w \in Workers : device[w] = d /\ (pc[w] \in labels \/ path[w] = "checked")}

AfterBurst     == {"sustained", "dedup"}
AfterSustained == {"dedup"}

\* The reports of the window and those still to come stay below the bound.
RateInv(window, limit, labels) ==
  \A d \in Devices :
    Cardinality(Admitted(d, window)) + Cardinality(Passed(d, labels))
      <= limit + Cardinality(Workers) - 1

\* What a handler knows about its document and when it knows it.
HandlerInv ==
  \A w \in Workers :
    /\ path[w] # "unguarded" => pc[w] \in {"insert", "lookup"}
    /\ since[w] <= now
    /\ pc[w] \in {"known", "burst", "sustained", "dedup"} \/ path[w] = "checked"
         => device[w] = doc[job[w]].device

\* A row the guards let through is of the device that sent it.
RowInv == \A r \in Stored : reports[r].path = "checked" => reports[r].device = doc[r].device

Checked == {r \in Stored : reports[r].path = "checked"}
Passing == {w \in Workers : path[w] = "checked"}
PairwiseNear(S) == \A r, s \in S : r # s => Near(r, s)

\* Near-duplicates that are stored and those still to come are no more than the
\* handlers.
NearInv ==
  \A S \in SUBSET Checked, T \in SUBSET Passing :
    LET coming == {job[w] : w \in T} IN
    S \cap coming = {} /\ PairwiseNear(S \union coming)
      => Cardinality(S) + Cardinality(T) <= Cardinality(Workers)

\* A report that was stored when its document arrived is stored still, or it was
\* taken down.
ReplayInv ==
  /\ \A w \in Workers :
       /\ arrived[w] \/ path[w] = "replay" => job[w] \in Stored \union erased
       /\ arrived[w] /\ (pc[w] \in {"burst", "sustained", "dedup"} \/ refused[w])
            => job[w] \in erased
  /\ \A r \in Stored : reports[r].path = "replay" => r \in erased

SubmitInv == /\ TypeOK
             /\ HandlerInv
             /\ RowInv
             /\ RateInv(BurstWindow, BurstMax, AfterBurst)
             /\ RateInv(SustainedWindow, SustainedMax, AfterSustained)
             /\ NearInv
             /\ ReplayInv

------------------------------------------------------------------------------
(* Types, and what a handler's step changes *)

LEMMA InitTypeOK == Init => TypeOK
<1> SUFFICES ASSUME Init PROVE TypeOK
  OBVIOUS
<1>1. doc \in [ReportIds -> Doc]
  BY DraftsAssumption DEF Init
<1>2. 0 \in 0 .. MaxNow /\ 0 \in 0 .. MaxFaults
  BY LimitsAssumption, SMT
<1> QED
  BY <1>1, <1>2 DEF Init, TypeOK, Paths

\* The variables of the other handlers stay as they are.
LEMMA Others ==
  ASSUME TypeOK, NEW w \in Workers, HandlerStep(w), NEW v \in Workers, v # w
  PROVE  /\ pc'[v] = pc[v] /\ job'[v] = job[v] /\ device'[v] = device[v]
         /\ since'[v] = since[v] /\ path'[v] = path[v]
         /\ refused'[v] = refused[v] /\ arrived'[v] = arrived[v]
BY DEF TypeOK, HandlerStep, Receive, LookupById, LookupFails, CountBurst, CountSustained, FindDuplicate,
       InsertReplay, InsertKeySeen, InsertNew, LookupByKey, Fail, Finish, Refuse, Free, Proceed, Pass, Goto

\* A handler that answers is as it was in the beginning.
LEMMA Freed ==
  ASSUME TypeOK, NEW w \in Workers, Free(w)
  PROVE  /\ pc'[w] = "idle" /\ device'[w] = NoDevice /\ since'[w] = 0 /\ path'[w] = "unguarded"
         /\ pc' = [pc EXCEPT ![w] = "idle"]
         /\ device' \in [Workers -> Devices \union {NoDevice}]
         /\ since' \in [Workers -> 0 .. MaxNow]
         /\ path' \in [Workers -> Paths]
BY LimitsAssumption DEF TypeOK, Free, Goto, Paths

LEMMA HandlerTypeOK ==
  ASSUME TypeOK, NEW w \in Workers, HandlerStep(w)
  PROVE  TypeOK'
<1>1. ASSUME NEW r \in ReportIds, Receive(w, r) PROVE TypeOK'
  <2>1. doc[r].device \in Devices
    BY DEF TypeOK, Doc
  <2>2. faults' \in 0 .. MaxFaults
    BY <1>1, LimitsAssumption DEF TypeOK, Receive
  <2>3. device' \in [Workers -> Devices \union {NoDevice}]
    BY <1>1, <2>1 DEF TypeOK, Receive
  <2>4. r # NoReport
    BY NullsAssumption
  <2>5. /\ job' \in [Workers -> ReportIds \union {NoReport}]
        /\ pc' \in [Workers -> {"idle", "known", "burst", "sustained", "dedup", "insert", "lookup"}]
        /\ \A v \in Workers : pc'[v] # "idle" => job'[v] # NoReport
    BY <1>1, <2>4 DEF TypeOK, Receive, Goto
  <2>6. refused' \in [Workers -> BOOLEAN] /\ arrived' \in [Workers -> BOOLEAN]
    BY <1>1 DEF TypeOK, Receive
  <2> QED
    BY <1>1, <2>2, <2>3, <2>5, <2>6 DEF TypeOK, Receive, table
<1>2. CASE LookupById(w) \/ LookupFails(w)
  <2>1. faults' \in 0 .. MaxFaults
    BY <1>2, LimitsAssumption DEF TypeOK, LookupById, LookupFails
  <2> QED
    BY <1>2, <2>1 DEF TypeOK, LookupById, LookupFails, Proceed, Goto, table, Paths
<1>3. ASSUME Refuse(w), UNCHANGED <<table, faults>> PROVE TypeOK'
  BY <1>3, Freed DEF TypeOK, Refuse, table
<1>4. ASSUME Finish(w), UNCHANGED <<doc, now, erased, faults>>,
             reports' \in [ReportIds -> Row \union {NoRow}]
      PROVE  TypeOK'
  BY <1>4, Freed DEF TypeOK, Finish
<1>5. ASSUME pc[w] # "idle", Pass(w), UNCHANGED <<table, faults>> PROVE TypeOK'
  BY <1>5, LimitsAssumption DEF TypeOK, Pass, Proceed, Goto, table, Paths
<1>6. CASE CountBurst(w) \/ CountSustained(w)
  BY <1>3, <1>5, <1>6 DEF TypeOK, CountBurst, CountSustained, Proceed, Goto, table
<1>7. CASE FindDuplicate(w)
  BY <1>3, <1>5, <1>7 DEF FindDuplicate
<1>8. CASE InsertReplay(w) \/ LookupByKey(w) \/ Fail(w)
  BY <1>4, <1>8 DEF TypeOK, InsertReplay, LookupByKey, Fail, table
<1>9. CASE InsertKeySeen(w)
  BY <1>9 DEF TypeOK, InsertKeySeen, Proceed, Goto, table
<1>10. CASE InsertNew(w)
  <2>1. [device |-> device[w], created |-> now, path |-> path[w]] \in Row
    BY LimitsAssumption DEF TypeOK, Row
  <2> QED
    BY <1>4, <1>10, <2>1 DEF TypeOK, InsertNew
<1> QED
  BY <1>1, <1>2, <1>6, <1>7, <1>8, <1>9, <1>10 DEF HandlerStep

LEMMA TypeStep == TypeOK /\ [Next]_vars => TypeOK'
<1> SUFFICES ASSUME TypeOK, [Next]_vars PROVE TypeOK'
  OBVIOUS
<1>1. ASSUME NEW r \in ReportIds, WithdrawReport(r) PROVE TypeOK'
  BY <1>1 DEF TypeOK, WithdrawReport
<1>2. CASE Tick
  <2>1. now' \in 0 .. MaxNow
    BY <1>2, LimitsAssumption DEF TypeOK, Tick
  <2> QED
    BY <1>2, <2>1 DEF TypeOK, Tick
<1>3. CASE UNCHANGED vars
  BY <1>3 DEF TypeOK, vars
<1> QED
  BY <1>1, <1>2, <1>3, HandlerTypeOK DEF Next

\* A handler's step leaves the documents, the clock and the takedowns alone, and
\* the reports too unless it inserts.
LEMMA TableFrame ==
  ASSUME NEW w \in Workers, HandlerStep(w)
  PROVE  /\ doc' = doc /\ now' = now /\ erased' = erased
         /\ reports' = reports \/ InsertNew(w)
BY DEF HandlerStep, Receive, LookupById, LookupFails, CountBurst, CountSustained, FindDuplicate,
       InsertReplay, InsertKeySeen, InsertNew, LookupByKey, Fail, table

LEMMA Inserted ==
  ASSUME TypeOK, NEW w \in Workers, InsertNew(w)
  PROVE  /\ job[w] \in ReportIds \ Stored
         /\ Stored' = Stored \union {job[w]}
         /\ reports'[job[w]] = [device |-> device[w], created |-> now, path |-> path[w]]
         /\ \A r \in ReportIds : r # job[w] => reports'[r] = reports[r]
<1>1. job[w] \in ReportIds /\ job[w] \notin Stored
  BY DEF TypeOK, InsertNew
<1>2. [device |-> device[w], created |-> now, path |-> path[w]] \in Row
  BY LimitsAssumption DEF TypeOK, Row
<1>3. /\ reports'[job[w]] = [device |-> device[w], created |-> now, path |-> path[w]]
      /\ \A r \in ReportIds : r # job[w] => reports'[r] = reports[r]
  BY <1>1 DEF TypeOK, InsertNew
<1>4. Stored' = Stored \union {job[w]}
  BY <1>1, <1>2, <1>3, NullsAssumption DEF Stored
<1> QED
  BY <1>1, <1>3, <1>4

\* What one handler knows, the part of HandlerInv and ReplayInv that is about w.
Knows(w) ==
  /\ path[w] # "unguarded" => pc[w] \in {"insert", "lookup"}
  /\ since[w] <= now
  /\ pc[w] \in {"known", "burst", "sustained", "dedup"} \/ path[w] = "checked"
       => device[w] = doc[job[w]].device
  /\ arrived[w] \/ path[w] = "replay" => job[w] \in Stored \union erased
  /\ arrived[w] /\ (pc[w] \in {"burst", "sustained", "dedup"} \/ refused[w])
       => job[w] \in erased

LEMMA KnowsStep ==
  ASSUME TypeOK, NEW w \in Workers, Knows(w), HandlerStep(w)
  PROVE  Knows(w)'
<1>0. /\ doc' = doc /\ now' = now /\ erased' = erased /\ 0 <= now
      /\ reports' = reports \/ InsertNew(w)
  BY TableFrame, LimitsAssumption DEF TypeOK
<1>1. Stored \subseteq Stored'
  <2>1. CASE reports' = reports
    BY <2>1 DEF Stored
  <2>2. CASE InsertNew(w)
    BY <2>2, Inserted
  <2> QED
    BY <1>0, <2>1, <2>2
<1>2. CASE Finish(w)
  BY <1>0, <1>2, Freed DEF TypeOK, Finish, Knows
<1>3. ASSUME Refuse(w), pc[w] \in {"burst", "sustained", "dedup"} PROVE Knows(w)'
  BY <1>0, <1>1, <1>3, Freed DEF TypeOK, Refuse, Knows
<1>4. ASSUME Pass(w), pc[w] \in {"sustained", "dedup"} PROVE Knows(w)'
  <2>1. /\ path'[w] = "checked" /\ since'[w] = 0 /\ pc'[w] = "insert"
        /\ UNCHANGED <<job, device, refused, arrived>>
    BY <1>4 DEF TypeOK, Pass, Proceed, Goto
  <2> QED
    BY <1>0, <1>1, <1>4, <2>1 DEF Knows
<1>5. ASSUME NEW r \in ReportIds, Receive(w, r) PROVE Knows(w)'
  <2>1. /\ job'[w] = r /\ ~refused'[w] /\ arrived'[w] = (r \in Stored)
        /\ UNCHANGED <<since, path, reports>>
        /\ pc'[w] \in {"known", "insert"} /\ pc[w] = "idle"
        /\ pc'[w] = "known" => device'[w] = doc[r].device
    BY <1>5 DEF TypeOK, Receive, Goto, table
  <2>2. path'[w] = "unguarded"
    BY <2>1 DEF Knows
  <2> QED
    BY <1>0, <1>1, <2>1, <2>2 DEF Knows
<1>6. CASE LookupById(w)
  <2>1. \/ job[w] \in Stored /\ path'[w] = "replay" /\ pc'[w] = "insert" /\ since' = since
        \/ job[w] \notin Stored /\ path' = path /\ pc'[w] = "burst" /\ since'[w] = now
    BY <1>6 DEF TypeOK, LookupById, Proceed, Goto
  <2>2. pc[w] = "known" /\ UNCHANGED <<job, device, refused, arrived, reports>>
    BY <1>6 DEF LookupById, Proceed, table
  <2>3. since'[w] <= now
    BY <2>1, LimitsAssumption DEF TypeOK, Knows
  <2> QED
    BY <1>0, <1>1, <2>1, <2>2, <2>3 DEF Knows
<1>7. CASE LookupFails(w) \/ InsertKeySeen(w)
  <2>1. /\ pc'[w] \in {"insert", "lookup"} /\ pc[w] \in {"known", "insert"}
        /\ UNCHANGED <<job, device, refused, arrived, since, path>>
    BY <1>7 DEF TypeOK, LookupFails, InsertKeySeen, Proceed, Goto
  <2> QED
    BY <1>0, <1>1, <2>1 DEF Knows
<1>8. CASE CountBurst(w) \/ CountSustained(w)
  <2>1. ASSUME Proceed(w, "sustained") \/ Proceed(w, "dedup"), UNCHANGED <<since, path>>,
               pc[w] \in {"burst", "sustained"}
        PROVE  Knows(w)'
    BY <1>0, <1>1, <2>1 DEF TypeOK, Proceed, Goto, Knows
  <2> QED
    BY <1>3, <1>4, <1>8, <2>1 DEF CountBurst, CountSustained
<1>9. CASE FindDuplicate(w)
  BY <1>3, <1>4, <1>9 DEF FindDuplicate
<1> QED
  BY <1>2, <1>5, <1>6, <1>7, <1>8, <1>9
     DEF HandlerStep, InsertReplay, InsertNew, LookupByKey, Fail

LEMMA KnowledgeStep ==
  ASSUME TypeOK, HandlerInv, RowInv, ReplayInv, [Next]_vars
  PROVE  HandlerInv' /\ RowInv' /\ ReplayInv'
<1>0. \A w \in Workers : Knows(w)
  BY DEF HandlerInv, ReplayInv, Knows
<1>1. ASSUME NEW w \in Workers, HandlerStep(w) PROVE HandlerInv' /\ RowInv' /\ ReplayInv'
  <2>1. /\ doc' = doc /\ now' = now /\ erased' = erased
        /\ reports' = reports \/ InsertNew(w)
    BY <1>1, TableFrame
  <2>2. Stored \subseteq Stored'
    BY <2>1, Inserted DEF Stored
  <2>3. ASSUME NEW v \in Workers PROVE Knows(v)'
    <3>1. CASE v = w
      BY <1>0, <1>1, <3>1, KnowsStep
    <3>2. CASE v # w
      BY <1>0, <1>1, <2>1, <2>2, <3>2, Others DEF Knows
    <3> QED
      BY <3>1, <3>2
  <2>4. ASSUME NEW r \in Stored'
        PROVE  /\ reports'[r].path = "checked" => reports'[r].device = doc[r].device
               /\ reports'[r].path = "replay" => r \in erased
    <3>1. CASE reports' = reports
      BY <2>4, <3>1 DEF Stored, RowInv, ReplayInv
    <3>2. CASE InsertNew(w)
      <4>1. CASE r = job[w]
        <5>1. reports'[r].path = path[w] /\ reports'[r].device = device[w] /\ r \notin Stored
          <6>1. /\ reports'[job[w]] = [device |-> device[w], created |-> now, path |-> path[w]]
                /\ job[w] \notin Stored
            BY <3>2, Inserted
          <6> QED
            BY <4>1, <6>1
        <5> QED
          BY <1>0, <4>1, <5>1 DEF Knows
      <4>2. CASE r # job[w]
        BY <2>4, <3>2, <4>2, Inserted DEF Stored, RowInv, ReplayInv
      <4> QED
        BY <4>1, <4>2
    <3> QED
      BY <2>1, <3>1, <3>2
  <2> QED
    BY <2>1, <2>3, <2>4 DEF HandlerInv, RowInv, ReplayInv, Knows
<1>2. ASSUME NEW r \in ReportIds, WithdrawReport(r) PROVE HandlerInv' /\ RowInv' /\ ReplayInv'
  <2>1. /\ Stored \subseteq Stored' \union erased' /\ erased \subseteq erased'
        /\ \A q \in Stored' : q \in Stored /\ reports'[q] = reports[q]
    BY <1>2 DEF WithdrawReport, Stored, TypeOK
  <2>2. UNCHANGED <<doc, now, pc, job, device, since, path, refused, arrived>>
    BY <1>2 DEF WithdrawReport
  <2> QED
    BY <2>1, <2>2 DEF HandlerInv, RowInv, ReplayInv
<1>3. CASE Tick
  <2>1. \A w \in Workers : since[w] <= now'
    BY <1>3 DEF TypeOK, Tick, HandlerInv
  <2> QED
    BY <1>3, <2>1 DEF Tick, HandlerInv, RowInv, ReplayInv, Stored
<1>4. CASE UNCHANGED vars
  BY <1>4 DEF vars, HandlerInv, RowInv, ReplayInv, Stored
<1> QED
  BY <1>1, <1>2, <1>3, <1>4 DEF Next

------------------------------------------------------------------------------
(* Counting what is stored and what is to come *)

LEMMA CountKept ==
  ASSUME NEW A, NEW B, IsFiniteSet(A), IsFiniteSet(B), NEW A2 \in SUBSET A, NEW B2 \in SUBSET B
  PROVE  /\ Cardinality(A2) \in Nat /\ Cardinality(B2) \in Nat
         /\ Cardinality(A) \in Nat /\ Cardinality(B) \in Nat
         /\ Cardinality(A2) + Cardinality(B2) <= Cardinality(A) + Cardinality(B)
<1>1. /\ IsFiniteSet(A2) /\ Cardinality(A2) <= Cardinality(A)
      /\ IsFiniteSet(B2) /\ Cardinality(B2) <= Cardinality(B)
  BY FS_Subset
<1>2. /\ Cardinality(A2) \in Nat /\ Cardinality(B2) \in Nat
      /\ Cardinality(A) \in Nat /\ Cardinality(B) \in Nat
  BY <1>1, FS_CardinalityType
<1> QED
  BY <1>1, <1>2

\* One element leaves B and at most one joins A.
LEMMA CountMoved ==
  ASSUME NEW A, NEW B, IsFiniteSet(A), IsFiniteSet(B), NEW x, NEW b \in B,
         NEW A2 \in SUBSET (A \union {x}), NEW B2 \in SUBSET (B \ {b})
  PROVE  Cardinality(A2) + Cardinality(B2) <= Cardinality(A) + Cardinality(B)
<1>1. /\ IsFiniteSet(A \union {x}) /\ Cardinality(A \union {x}) <= Cardinality(A) + 1
      /\ Cardinality(A) \in Nat
  <2>1. Cardinality(A) \in Nat
    BY FS_CardinalityType
  <2>2. /\ IsFiniteSet(A \union {x})
        /\ Cardinality(A \union {x}) = IF x \in A THEN Cardinality(A) ELSE Cardinality(A) + 1
    BY FS_AddElement
  <2> QED
    BY <2>1, <2>2
<1>2. /\ IsFiniteSet(B \ {b}) /\ Cardinality(B \ {b}) = Cardinality(B) - 1
      /\ Cardinality(B) \in Nat
  BY FS_RemoveElement, FS_CardinalityType
<1>3. /\ Cardinality(A2) + Cardinality(B2) <= Cardinality(A \union {x}) + Cardinality(B \ {b})
      /\ Cardinality(A2) \in Nat /\ Cardinality(B2) \in Nat
      /\ Cardinality(A \union {x}) \in Nat /\ Cardinality(B \ {b}) \in Nat
  BY <1>1, <1>2, CountKept
<1> QED
  BY <1>1, <1>2, <1>3

LEMMA SetsAreFinite ==
  /\ Cardinality(Workers) \in Nat
  /\ \A T \in SUBSET Workers : IsFiniteSet(T) /\ Cardinality(T) \in Nat
                               /\ Cardinality(T) <= Cardinality(Workers)
  /\ \A S \in SUBSET ReportIds : IsFiniteSet(S) /\ Cardinality(S) \in Nat
BY WorkersAssumption, ReportIdsAssumption, FS_Subset, FS_CardinalityType

\* The admitted reports of a window grow by an insert only.
LEMMA AdmittedStep ==
  ASSUME TypeOK, [Next]_vars, NEW d \in Devices, NEW window \in Nat
  PROVE  \/ Admitted(d, window)' \subseteq Admitted(d, window)
         \/ \E w \in Workers :
              /\ InsertNew(w) /\ path[w] = "checked" /\ device[w] = d
              /\ Admitted(d, window)' \subseteq Admitted(d, window) \union {job[w]}
<1>1. ASSUME NEW r \in Stored, r \in Stored', reports'[r] = reports[r], now <= now',
             r \in Admitted(d, window)'
      PROVE  r \in Admitted(d, window)
  <2>1. reports[r] \in Row /\ now' \in Int /\ now \in Int
    BY <1>1, TypeStep, LimitsAssumption DEF TypeOK, Stored
  <2>2. reports[r].created \in Nat
    BY <2>1 DEF Row
  <2> QED
    BY <1>1, <2>1, <2>2 DEF Admitted, Recent
<1>2. now <= now'
  <2>1. now' = now \/ now' = now + 1
    BY TableFrame DEF Next, Tick, WithdrawReport, vars
  <2> QED
    BY <2>1 DEF TypeOK
<1>3. ASSUME \A r \in Stored' : r \in Stored /\ reports'[r] = reports[r]
      PROVE  Admitted(d, window)' \subseteq Admitted(d, window)
  BY <1>1, <1>2, <1>3 DEF Admitted, Recent
<1>4. ASSUME NEW w \in Workers, InsertNew(w)
      PROVE  \/ Admitted(d, window)' \subseteq Admitted(d, window)
             \/ /\ path[w] = "checked" /\ device[w] = d
                /\ Admitted(d, window)' \subseteq Admitted(d, window) \union {job[w]}
  <2>1. /\ job[w] \in ReportIds \ Stored
        /\ reports'[job[w]] = [device |-> device[w], created |-> now, path |-> path[w]]
        /\ Stored' = Stored \union {job[w]}
        /\ \A r \in ReportIds : r # job[w] => reports'[r] = reports[r]
    BY <1>4, Inserted
  <2>2. Admitted(d, window)' \subseteq Admitted(d, window) \union {job[w]}
    BY <1>1, <1>2, <2>1 DEF Admitted, Recent, Stored
  <2>3. job[w] \in Admitted(d, window)' => path[w] = "checked" /\ device[w] = d
    BY <2>1 DEF Admitted, Recent
  <2> QED
    BY <2>2, <2>3
<1>5. \/ \A r \in Stored' : r \in Stored /\ reports'[r] = reports[r]
      \/ \E w \in Workers : InsertNew(w)
  <2>1. ASSUME reports' = reports PROVE \A r \in Stored' : r \in Stored /\ reports'[r] = reports[r]
    BY <2>1 DEF Stored
  <2>2. ASSUME NEW q \in ReportIds, WithdrawReport(q)
        PROVE  \A r \in Stored' : r \in Stored /\ reports'[r] = reports[r]
    BY <2>2 DEF WithdrawReport, Stored, TypeOK
  <2> QED
    BY <2>1, <2>2, TableFrame DEF Next, Tick, vars
<1> QED
  BY <1>3, <1>4, <1>5

\* A handler joins those that passed a guard when it counted too few reports.
LEMMA Entered ==
  ASSUME TypeOK, HandlerInv, NEW w \in Workers, HandlerStep(w), NEW d \in Devices
  PROVE  /\ w \in Passed(d, AfterBurst)' =>
              \/ w \in Passed(d, AfterBurst)
              \/ /\ CountBurst(w)
                 /\ ~ Cardinality(Recent(d, since[w] - BurstWindow)) >= BurstMax
         /\ w \in Passed(d, AfterSustained)' =>
              \/ w \in Passed(d, AfterSustained)
              \/ /\ CountSustained(w)
                 /\ ~ Cardinality(Recent(d, since[w] - SustainedWindow)) >= SustainedMax
<1> USE DEF Passed, AfterBurst, AfterSustained
<1>0. path[w] # "unguarded" => pc[w] \in {"insert", "lookup"}
  BY DEF HandlerInv
<1>1. CASE Free(w)
  BY <1>1, Freed, NullsAssumption
<1>2. ASSUME NEW r \in ReportIds, Receive(w, r) PROVE path'[w] # "checked" /\ pc'[w] \in {"known", "insert"}
  BY <1>0, <1>2 DEF TypeOK, Receive, Goto
<1>3. CASE LookupById(w) \/ LookupFails(w) \/ InsertKeySeen(w)
  BY <1>3 DEF TypeOK, LookupById, LookupFails, InsertKeySeen, Proceed, Goto
<1>4. CASE CountBurst(w)
  BY <1>1, <1>4 DEF TypeOK, CountBurst, Proceed, Goto, Refuse
<1>5. CASE CountSustained(w)
  BY <1>1, <1>5 DEF TypeOK, CountSustained, Pass, Proceed, Goto, Refuse
<1>6. CASE FindDuplicate(w)
  BY <1>1, <1>6 DEF TypeOK, FindDuplicate, Pass, Proceed, Goto, Refuse
<1> QED
  BY <1>1, <1>2, <1>3, <1>4, <1>5, <1>6
     DEF HandlerStep, InsertReplay, InsertNew, LookupByKey, Fail, Finish

\* What a guard bounds stays bounded.
LEMMA RateStep ==
  ASSUME TypeOK, HandlerInv, [Next]_vars,
         NEW window \in Nat, NEW limit \in Nat \ {0}, NEW labels, RateInv(window, limit, labels),
         \A d \in Devices, w \in Workers :
           w \in Passed(d, labels)' =>
             \/ w \in Passed(d, labels)
             \/ /\ UNCHANGED <<reports, now>>
                /\ ~ Cardinality(Recent(d, since[w] - window)) >= limit
  PROVE  RateInv(window, limit, labels)'
<1> SUFFICES ASSUME NEW d \in Devices
             PROVE  Cardinality(Admitted(d, window)') + Cardinality(Passed(d, labels)')
                      <= limit + Cardinality(Workers) - 1
  BY DEF RateInv
<1> DEFINE A == Admitted(d, window)
           B == Passed(d, labels)
<1>0. /\ A \in SUBSET ReportIds /\ A' \in SUBSET ReportIds
      /\ B \in SUBSET Workers /\ B' \in SUBSET Workers
  BY DEF Admitted, Recent, Stored, Passed
<1>1. /\ IsFiniteSet(A) /\ IsFiniteSet(B) /\ Cardinality(A) \in Nat /\ Cardinality(B) \in Nat
      /\ Cardinality(A') \in Nat /\ Cardinality(B') \in Nat /\ Cardinality(Workers) \in Nat
      /\ Cardinality(B') <= Cardinality(Workers)
  BY <1>0, SetsAreFinite
<1>2. Cardinality(A) + Cardinality(B) <= limit + Cardinality(Workers) - 1
  BY DEF RateInv
<1>3. CASE B' \subseteq B
  <2>1. CASE A' \subseteq A
    <3> HIDE DEF A, B
    <3>1. Cardinality(A') + Cardinality(B') <= Cardinality(A) + Cardinality(B)
      BY <1>1, <1>3, <2>1, CountKept
    <3> QED
      BY <1>1, <1>2, <3>1 DEF A, B
  <2>2. ASSUME NEW w \in Workers, InsertNew(w), path[w] = "checked", device[w] = d,
               A' \subseteq A \union {job[w]}
        PROVE  Cardinality(A') + Cardinality(B') <= limit + Cardinality(Workers) - 1
    <3>1. w \in B
      BY <2>2 DEF Passed
    <3>2. w \notin B'
      BY <2>2, Freed, NullsAssumption DEF InsertNew, Finish, Passed
    <3> HIDE DEF A, B
    <3>3. Cardinality(A') + Cardinality(B') <= Cardinality(A) + Cardinality(B)
      <4>1. A' \in SUBSET (A \union {job[w]}) /\ B' \in SUBSET (B \ {w})
        BY <1>3, <2>2, <3>2
      <4> QED
        BY <1>1, <3>1, <4>1, CountMoved
    <3> QED
      BY <1>1, <1>2, <3>3
  <2> QED
    BY <2>1, <2>2, AdmittedStep
<1>4. ASSUME NEW w \in B', w \notin B
      PROVE  Cardinality(A') + Cardinality(B') <= limit + Cardinality(Workers) - 1
  <2> DEFINE R == Recent(d, since[w] - window)
  <2>1. w \in Workers /\ UNCHANGED <<reports, now>> /\ ~ Cardinality(R) >= limit
    BY <1>0, <1>4
  <2>2. R \in SUBSET ReportIds
    BY DEF Recent, Stored
  <2>3. A' \in SUBSET R
    <3>1. since[w] <= now /\ since[w] \in Nat /\ now \in Nat
      BY <2>1, LimitsAssumption DEF TypeOK, HandlerInv
    <3>2. ASSUME NEW r \in A' PROVE r \in R
      <4>1. /\ r \in Stored /\ reports[r].device = d /\ reports[r].created >= now - window
        BY <2>1, <3>2 DEF Admitted, Recent, Stored
      <4>2. reports[r].created \in Nat
        BY <4>1 DEF TypeOK, Stored, Row
      <4> QED
        BY <3>1, <4>1, <4>2 DEF Recent
    <3> QED
      BY <3>2
  <2>4. Cardinality(A') <= Cardinality(R) /\ Cardinality(R) \in Nat
    BY <2>2, <2>3, SetsAreFinite, FS_Subset
  <2> HIDE DEF A, B, R
  <2> QED
    BY <1>1, <2>1, <2>4
<1> QED
  BY <1>3, <1>4

------------------------------------------------------------------------------
(* Near-duplicates *)

\* A handler that passes finds nothing near its document, or does not look.
LEMMA PassAlone ==
  ASSUME TypeOK, HandlerInv, RowInv, NEW w \in Workers, HandlerStep(w),
         path[w] # "checked", path'[w] = "checked"
  PROVE  /\ reports' = reports
         /\ \A s \in Checked : s # job[w] => ~ (Near(s, job[w]) /\ Near(job[w], s))
<1>1. \/ CountSustained(w) /\ Pass(w) /\ ~Deduplicated(job[w])
      \/ FindDuplicate(w) /\ Duplicates(job[w], device[w]) = {}
  <2>1. CASE Free(w)
    BY <2>1, Freed
  <2> QED
    BY <2>1 DEF TypeOK, HandlerStep, Receive, LookupById, LookupFails, CountBurst, CountSustained,
                FindDuplicate, InsertReplay, InsertKeySeen, InsertNew, LookupByKey, Fail,
                Finish, Refuse, Proceed
<1>2. reports' = reports
  BY <1>1 DEF CountSustained, FindDuplicate, table
<1>3. CASE ~Deduplicated(job[w])
  BY <1>2, <1>3 DEF Near
<1>4. CASE FindDuplicate(w) /\ Duplicates(job[w], device[w]) = {}
  <2>1. ASSUME NEW s \in Checked, s # job[w], Near(s, job[w]) PROVE FALSE
    <3>1. /\ job[w] \in ReportIds /\ s \in ReportIds /\ s \in Stored
          /\ reports[s].device = doc[s].device /\ device[w] = doc[job[w]].device
      BY <1>4, <2>1 DEF TypeOK, FindDuplicate, HandlerInv, RowInv, Checked, Stored
    <3>2. /\ doc[s].device = doc[job[w]].device /\ Deduplicated(s)
          /\ Abs(doc[s].spot - doc[job[w]].spot) <= DedupRadius
          /\ Abs(doc[s].captured - doc[job[w]].captured) <= DedupWindow
      BY <2>1 DEF Near
    <3>3. doc[s].captured \in Int /\ doc[job[w]].captured \in Int /\ DedupWindow \in Nat
      BY <3>1, LimitsAssumption DEF TypeOK, Doc
    <3>4. doc[s].captured >= doc[job[w]].captured - DedupWindow
      BY <3>2, <3>3 DEF Abs
    <3>5. s \in Duplicates(job[w], device[w])
      BY <2>1, <3>1, <3>2, <3>4 DEF Duplicates
    <3> QED
      BY <1>4, <3>5
  <2> QED
    BY <1>2, <2>1
<1> QED
  BY <1>1, <1>3, <1>4

\* Whatever is stored and whoever may write is stored, or may write, before.
LEMMA NearKept ==
  ASSUME NearInv, UNCHANGED doc, Checked' \subseteq Checked, Passing' \subseteq Passing,
         \A w \in Passing' : job'[w] = job[w]
  PROVE  NearInv'
<1> SUFFICES ASSUME NEW S \in SUBSET Checked', NEW T \in SUBSET Passing',
                    S \cap {job'[w] : w \in T} = {},
                    PairwiseNear(S \union {job[w] : w \in T})'
             PROVE  Cardinality(S) + Cardinality(T) <= Cardinality(Workers)
  BY DEF NearInv
<1>1. {job'[w] : w \in T} = {job[w] : w \in T}
  OBVIOUS
<1>2. PairwiseNear(S \union {job[w] : w \in T})
  BY <1>1 DEF PairwiseNear, Near, Deduplicated
<1>3. S \in SUBSET Checked /\ T \in SUBSET Passing
  OBVIOUS
<1> QED
  BY <1>1, <1>2, <1>3 DEF NearInv

LEMMA InsertNear ==
  ASSUME TypeOK, NearInv, NEW w \in Workers, InsertNew(w)
  PROVE  NearInv'
<1>a. PICK r \in ReportIds : r = job[w]
  BY DEF TypeOK, InsertNew
<1>1. /\ r \notin Stored /\ Stored' = Stored \union {r}
      /\ reports'[r].path = path[w]
      /\ \A q \in ReportIds : q # r => reports'[q] = reports[q]
  <2>1. /\ reports'[r] = [device |-> device[w], created |-> now, path |-> path[w]]
        /\ r \notin Stored /\ Stored' = Stored \union {r}
        /\ \A q \in ReportIds : q # r => reports'[q] = reports[q]
    BY <1>a, Inserted
  <2> QED
    BY <2>1
<1>2. /\ doc' = doc
      /\ \A v \in Workers : v # w => path'[v] = path[v] /\ job'[v] = job[v]
      /\ path'[w] = "unguarded"
  BY Others, TableFrame, Freed DEF HandlerStep, InsertNew, Finish
<1>3. /\ Passing' \subseteq Passing \ {w}
      /\ Checked' \subseteq Checked \union {r} /\ r \notin Checked
      /\ r \in Checked' => w \in Passing
  BY <1>1, <1>2 DEF Passing, Checked, Stored
<1> SUFFICES ASSUME NEW S \in SUBSET Checked', NEW T \in SUBSET Passing',
                    S \cap {job'[v] : v \in T} = {},
                    PairwiseNear(S \union {job[v] : v \in T})'
             PROVE  Cardinality(S) + Cardinality(T) <= Cardinality(Workers)
  BY DEF NearInv
<1>4. {job'[v] : v \in T} = {job[v] : v \in T} /\ T \in SUBSET Passing /\ w \notin T
  BY <1>2, <1>3 DEF Passing
<1>5. PairwiseNear(S \union {job[v] : v \in T})
  BY <1>2, <1>4 DEF PairwiseNear, Near, Deduplicated
<1>6. CASE r \notin S
  <2>1. S \in SUBSET Checked
    BY <1>3, <1>6
  <2> QED
    BY <1>4, <1>5, <2>1 DEF NearInv
<1>7. CASE r \in S
  <2>1. PICK S2, T2 : S2 = S \ {r} /\ T2 = T \union {w}
    OBVIOUS
  <2>2. S2 \in SUBSET Checked /\ T2 \in SUBSET Passing
    BY <1>3, <1>4, <1>7, <2>1
  <2>3. {job[v] : v \in T2} = {job[v] : v \in T} \union {r}
    BY <1>a, <2>1
  <2>4. /\ S2 \cap {job[v] : v \in T2} = {}
        /\ S2 \union {job[v] : v \in T2} = S \union {job[v] : v \in T}
    BY <1>4, <1>7, <2>1, <2>3
  <2>5. Cardinality(S2) + Cardinality(T2) <= Cardinality(Workers)
    BY <1>5, <2>2, <2>4 DEF NearInv
  <2>6. /\ IsFiniteSet(S) /\ Cardinality(S) \in Nat
        /\ IsFiniteSet(T) /\ Cardinality(T) \in Nat
    BY SetsAreFinite DEF Checked, Passing, Stored
  <2>7. Cardinality(S2) = Cardinality(S) - 1 /\ Cardinality(T2) = Cardinality(T) + 1
    BY <1>4, <1>7, <2>1, <2>6, FS_AddElement, FS_RemoveElement
  <2> QED
    BY <2>5, <2>6, <2>7
<1> QED
  BY <1>6, <1>7

LEMMA PassNear ==
  ASSUME TypeOK, HandlerInv, RowInv, NearInv, NEW w \in Workers, HandlerStep(w),
         path[w] # "checked", path'[w] = "checked"
  PROVE  NearInv'
<1>1. /\ doc' = doc /\ reports' = reports
      /\ \A v \in Workers : v # w => path'[v] = path[v] /\ job'[v] = job[v]
  BY PassAlone, TableFrame, Others
<1>2. job'[w] = job[w]
  <2>1. CASE Free(w)
    BY <2>1, Freed
  <2> QED
    BY <2>1 DEF TypeOK, HandlerInv, HandlerStep, Receive, LookupById, LookupFails, CountBurst,
                CountSustained, FindDuplicate, InsertReplay, InsertKeySeen, InsertNew, LookupByKey,
                Fail, Finish, Refuse, Proceed, Pass
<1>3. Checked' = Checked /\ Passing' = Passing \union {w}
  BY <1>1 DEF Checked, Stored, Passing
<1> SUFFICES ASSUME NEW S \in SUBSET Checked', NEW T \in SUBSET Passing',
                    S \cap {job'[v] : v \in T} = {},
                    PairwiseNear(S \union {job[v] : v \in T})'
             PROVE  Cardinality(S) + Cardinality(T) <= Cardinality(Workers)
  BY DEF NearInv
<1>4. {job'[v] : v \in T} = {job[v] : v \in T}
  BY <1>1, <1>2 DEF Passing
<1>5. PairwiseNear(S \union {job[v] : v \in T})
  BY <1>1, <1>4 DEF PairwiseNear, Near, Deduplicated
<1>6. CASE w \notin T
  <2>1. S \in SUBSET Checked /\ T \in SUBSET Passing
    BY <1>3, <1>6
  <2> QED
    BY <1>4, <1>5, <2>1 DEF NearInv
<1>7. CASE w \in T
  <2>1. S = {}
    <3>1. ASSUME NEW s \in S PROVE FALSE
      <4>1. s # job[w] /\ s \in Checked /\ Near(s, job[w]) /\ Near(job[w], s)
        BY <1>3, <1>4, <1>5, <1>7 DEF PairwiseNear
      <4> QED
        BY <4>1, PassAlone
    <3> QED
      BY <3>1
  <2>2. Cardinality(S) = 0
    BY <2>1, FS_EmptySet
  <2>3. /\ Cardinality(T) \in Nat /\ Cardinality(Workers) \in Nat
        /\ Cardinality(T) <= Cardinality(Workers)
    BY SetsAreFinite DEF Passing
  <2> QED
    BY <2>2, <2>3
<1> QED
  BY <1>6, <1>7

LEMMA NearStep ==
  ASSUME TypeOK, HandlerInv, RowInv, NearInv, [Next]_vars
  PROVE  NearInv'
<1>1. ASSUME NEW w \in Workers, HandlerStep(w) PROVE NearInv'
  <2>1. CASE InsertNew(w)
    BY <2>1, InsertNear
  <2>2. CASE path[w] # "checked" /\ path'[w] = "checked"
    BY <1>1, <2>2, PassNear
  <2>3. CASE ~InsertNew(w) /\ (path'[w] = "checked" => path[w] = "checked")
    <3>1. doc' = doc /\ reports' = reports
      BY <1>1, <2>3, TableFrame
    <3>2. path'[w] = "checked" => job'[w] = job[w]
      <4>1. CASE Free(w)
        BY <4>1, Freed
      <4>2. ASSUME NEW r \in ReportIds, Receive(w, r) PROVE path'[w] # "checked"
        BY <4>2 DEF Receive, HandlerInv
      <4> QED
        BY <1>1, <4>1, <4>2
           DEF HandlerStep, LookupById, LookupFails, CountBurst, CountSustained, FindDuplicate,
               InsertReplay, InsertKeySeen, InsertNew, LookupByKey, Fail, Finish, Refuse, Proceed, Pass
    <3>3. Checked' = Checked
      BY <3>1 DEF Checked, Stored
    <3>4. Passing' \subseteq Passing /\ \A v \in Passing' : job'[v] = job[v]
      BY <1>1, <2>3, <3>2, Others DEF Passing
    <3> QED
      BY <3>1, <3>3, <3>4, NearKept
  <2> QED
    BY <2>1, <2>2, <2>3
<1>2. ASSUME NEW r \in ReportIds, WithdrawReport(r) PROVE NearInv'
  <2>1. Checked' \subseteq Checked
    BY <1>2 DEF WithdrawReport, TypeOK, Checked, Stored
  <2> QED
    BY <1>2, <2>1, NearKept DEF WithdrawReport, Passing
<1>3. CASE Tick
  <2>1. Checked' = Checked
    BY <1>3 DEF Tick, Checked, Stored
  <2> QED
    BY <1>3, <2>1, NearKept DEF Tick, Passing
<1>4. CASE UNCHANGED vars
  <2>1. Checked' = Checked
    BY <1>4 DEF vars, Checked, Stored
  <2> QED
    BY <1>4, <2>1, NearKept DEF vars, Passing
<1> QED
  BY <1>1, <1>2, <1>3, <1>4 DEF Next

------------------------------------------------------------------------------
(* The invariant and what it says *)

LEMMA InitSubmitInv == Init => SubmitInv
<1> SUFFICES ASSUME Init PROVE SubmitInv
  OBVIOUS
<1>1. TypeOK
  BY InitTypeOK
<1>2. Stored = {} /\ Checked = {} /\ Passing = {}
  BY DEF Init, Stored, Checked, Passing
<1>3. HandlerInv /\ RowInv /\ ReplayInv
  BY <1>1, <1>2, LimitsAssumption DEF Init, HandlerInv, RowInv, ReplayInv
<1>4. ASSUME NEW window \in Nat, NEW limit \in Nat \ {0},
             NEW labels \in {AfterBurst, AfterSustained}
      PROVE  RateInv(window, limit, labels)
  <2>1. \A d \in Devices : Admitted(d, window) = {} /\ Passed(d, labels) = {}
    BY <1>2 DEF Init, Admitted, Recent, Passed, AfterBurst, AfterSustained
  <2>2. Cardinality({}) = 0 /\ Cardinality(Workers) \in Nat
    BY FS_EmptySet, SetsAreFinite
  <2>3. 0 + 0 <= limit + Cardinality(Workers) - 1
    BY <2>2
  <2> QED
    BY <2>1, <2>2, <2>3 DEF RateInv
<1>5. NearInv
  <2>1. \A S \in SUBSET Checked, T \in SUBSET Passing : S = {} /\ T = {}
    BY <1>2
  <2>2. Cardinality({}) = 0 /\ Cardinality(Workers) \in Nat /\ 0 + 0 <= Cardinality(Workers)
    BY FS_EmptySet, SetsAreFinite
  <2> QED
    BY <2>1, <2>2 DEF NearInv
<1> QED
  BY <1>1, <1>3, <1>4, <1>5, LimitsAssumption DEF SubmitInv

LEMMA RatesStep ==
  ASSUME SubmitInv, [Next]_vars
  PROVE  /\ RateInv(BurstWindow, BurstMax, AfterBurst)'
         /\ RateInv(SustainedWindow, SustainedMax, AfterSustained)'
<1> USE DEF SubmitInv
<1>1. ASSUME NEW d \in Devices, NEW v \in Workers
      PROVE  /\ v \in Passed(d, AfterBurst)' =>
                  \/ v \in Passed(d, AfterBurst)
                  \/ /\ UNCHANGED <<reports, now>>
                     /\ ~ Cardinality(Recent(d, since[v] - BurstWindow)) >= BurstMax
             /\ v \in Passed(d, AfterSustained)' =>
                  \/ v \in Passed(d, AfterSustained)
                  \/ /\ UNCHANGED <<reports, now>>
                     /\ ~ Cardinality(Recent(d, since[v] - SustainedWindow)) >= SustainedMax
  <2>1. CASE UNCHANGED <<device, pc, path>>
    BY <2>1 DEF Passed
  <2>2. ASSUME NEW w \in Workers, HandlerStep(w), w # v
        PROVE  device'[v] = device[v] /\ pc'[v] = pc[v] /\ path'[v] = path[v]
    BY <2>2, Others
  <2>3. CASE HandlerStep(v)
    BY <2>3, Entered DEF CountBurst, CountSustained, table
  <2>4. \/ UNCHANGED <<device, pc, path>>
        \/ \E w \in Workers : HandlerStep(w)
    BY DEF Next, WithdrawReport, Tick, vars
  <2> QED
    BY <2>1, <2>2, <2>3, <2>4 DEF Passed
<1>2. RateInv(BurstWindow, BurstMax, AfterBurst)'
  BY <1>1, RateStep, LimitsAssumption
<1>3. RateInv(SustainedWindow, SustainedMax, AfterSustained)'
  BY <1>1, RateStep, LimitsAssumption
<1> QED
  BY <1>2, <1>3

\* The inductive invariant of a submission.
THEOREM SubmitInvariant == Spec => []SubmitInv
<1>1. SubmitInv /\ [Next]_vars => SubmitInv'
  BY TypeStep, KnowledgeStep, RatesStep, NearStep DEF SubmitInv
<1> QED
  BY <1>1, InitSubmitInv, PTL DEF Spec

\* Handlers that read before they write admit at most one report too many for each
\* further handler, in any window, whatever the limits; and every variable keeps
\* its type.
THEOREM RateOvershootBoundedAlways == Spec => []RateOvershootBounded
<1>1. ASSUME SubmitInv, NEW window, NEW limit \in Nat \ {0}, NEW labels,
             RateInv(window, limit, labels), NEW d \in Devices
      PROVE  Cardinality(Admitted(d, window)) <= limit + Cardinality(Workers) - 1
  <2>1. Admitted(d, window) \in SUBSET ReportIds /\ Passed(d, labels) \in SUBSET Workers
    BY DEF Admitted, Recent, Stored, Passed
  <2>2. /\ Cardinality(Admitted(d, window)) \in Nat /\ Cardinality(Passed(d, labels)) \in Nat
        /\ Cardinality(Workers) \in Nat
    BY <2>1, SetsAreFinite
  <2>3. Cardinality(Admitted(d, window)) + Cardinality(Passed(d, labels))
          <= limit + Cardinality(Workers) - 1
    BY <1>1 DEF RateInv
  <2> QED
    BY <2>2, <2>3
<1>2. SubmitInv => RateOvershootBounded
  BY <1>1, LimitsAssumption DEF SubmitInv, RateOvershootBounded
<1> QED
  BY <1>2, SubmitInvariant, PTL

\* Pairwise near-duplicates are no more than the handlers, in any layout of the
\* documents.
THEOREM NearDuplicatesBoundedAlways == Spec => []NearDuplicatesBounded
<1>1. SubmitInv => NearDuplicatesBounded
  <2> SUFFICES ASSUME SubmitInv, NEW S \in SUBSET Checked, PairwiseNear(S)
               PROVE  Cardinality(S) <= Cardinality(Workers)
    BY DEF NearDuplicatesBounded, Checked, PairwiseNear
  <2>1. PICK T : T = {}
    OBVIOUS
  <2>2. T \in SUBSET Passing /\ {job[w] : w \in T} = {}
    BY <2>1
  <2>3. Cardinality(S) + Cardinality(T) <= Cardinality(Workers)
    BY <2>2 DEF SubmitInv, NearInv
  <2>4. Cardinality(S) \in Nat /\ Cardinality(T) = 0
    BY <2>1, SetsAreFinite, FS_EmptySet DEF Checked, Stored
  <2> QED
    BY <2>3, <2>4
<1> QED
  BY <1>1, SubmitInvariant, PTL

\* A replay of a stored report trips no limit, and a request that skipped the
\* limits as a replay creates a row only after a takedown.
THEOREM ReplaysRecognisedAlways == Spec => []ReplaysRecognised
<1>1. SubmitInv => ReplaysRecognised
  BY DEF SubmitInv, ReplayInv, ReplaysRecognised
<1> QED
  BY <1>1, SubmitInvariant, PTL
==============================================================================
