-------------------------- MODULE ReportEvidenceProofs -----------------------
(***************************************************************************)
(* What the audit trail, the photo column and the photo file say of each   *)
(* other, for any number of reports, uploads, takedowns and analysts.  The *)
(* decisions rest on what the row lock keeps true between the read and the *)
(* write of a decision; the photos on what an upload may count on at each  *)
(* of its steps.                                                           *)
(***************************************************************************)
EXTENDS ReportEvidence, TLAPS

\* A locked row is still what its analyst read, and has one analyst.
LockInv ==
  /\ \A a \in Analysts : apc[a] = "locked" =>
       LET d == decision[a] IN
       /\ row[d.of] # NoRow
       /\ d.from = row[d.of].verification
       /\ d.to = "verified" => row[d.of].photo \/ d.forced
  /\ \A a, b \in Analysts :
       apc[a] = "locked" /\ apc[b] = "locked" /\ decision[a].of = decision[b].of => a = b

\* The trail of one row: each decision starts where the one before it ended, and
\* the row is where the last one ended.
Chained(r) ==
  /\ \A i \in 1 .. Len(audit[r]) :
       audit[r][i].from = IF i = 1 THEN "pending" ELSE audit[r][i - 1].to
  /\ row[r].verification = IF audit[r] = <<>> THEN "pending" ELSE audit[r][Len(audit[r])].to

\* An id without a row has no trail.
TrailInv == \A r \in ReportIds : IF row[r] = NoRow THEN audit[r] = <<>> ELSE Chained(r)

DecisionInv == TypeOK /\ LockInv /\ TrailInv /\ VerifiedHasPhoto

\* A file that no row refers to has somebody who will record or remove it.
TendedInv ==
  faults = 0 =>
    \A n \in Names : file[n] # "none" =>
      \/ \E r \in ReportIds : NameOf[r] = n /\ row[r] # NoRow /\ row[r].photo
      \/ \E u \in Uploads : NameOf[job[u]] = n /\ upc[u] \in {"write", "record", "remove"}
      \/ \E t \in Takedowns : NameOf[target[t]] = n /\ tpc[t] = "unlink"

\* Only who writes a file has it open, two that write one have collided, and a file
\* is removed for a report that was taken down.
OpenInv ==
  /\ \A u \in Uploads : linked[u] => upc[u] = "write"
  /\ \A u \in Uploads : mixed[u] => upc[u] = "write" /\ NameOf[job[u]] \in collided
  /\ \A t \in Takedowns : tpc[t] = "unlink" => target[t] \in erased
  /\ \A u \in Uploads :
       upc[u] # "idle" /\ job[u] \notin erased => row[job[u]] # NoRow /\ upc[u] # "remove"

\* What the uploads of a report may count on that was not taken down, while the file
\* was last opened for it: only an upload of that report has the file open, one at
\* a time, and while none has it open it is whole.
SteadyInv(r) ==
  /\ \A u \in Uploads : linked[u] /\ NameOf[job[u]] = NameOf[r] => job[u] = r
  /\ \A u, v \in Uploads : linked[u] /\ linked[v] /\ job[u] = r /\ job[v] = r => u = v
  /\ (\A u \in Uploads : job[u] = r => ~linked[u]) =>
       /\ row[r] # NoRow /\ row[r].photo => file[NameOf[r]] = "whole"
       /\ \A u \in Uploads :
            job[u] = r /\ upc[u] \in {"write", "record"} => file[NameOf[r]] = "whole"

\* The reports of which the photo file can be held to that.
Steady == {r \in ReportIds \ (erased \union usurped) : NameOf[r] \notin collided}

PhotoInv ==
  /\ TypeOK
  /\ TendedInv
  /\ OpenInv
  /\ faults = 0 => \A r \in Steady : SteadyInv(r)

------------------------------------------------------------------------------
(* Types *)

LEMMA SomeUndecided == SomeReport \in ReportIds /\ Undecided \in Decision
<1>1. SomeReport \in ReportIds
  BY ReportIdsAssumption DEF SomeReport
<1> QED
  BY <1>1 DEF Undecided, Decision, Verifications

\* Every report has a file name.
LEMMA NameOfReport == \A r \in ReportIds : NameOf[r] \in Names
BY DEF Names

LEMMA InitTypeOK == Init => TypeOK
<1> SUFFICES ASSUME Init PROVE TypeOK
  OBVIOUS
<1> USE BoundsAssumption DEF Init
<1>1. SomeReport \in ReportIds /\ Undecided \in Decision
  BY SomeUndecided
<1>2. /\ 0 \in 0 .. MaxFaults
      /\ posts \in [ReportIds -> Nat] /\ \A r \in ReportIds : posts[r] <= MaxPosts[r] + 1
  OBVIOUS
<1>3. /\ audit \in [ReportIds -> Seq(Audit)] /\ row \in [ReportIds -> Row \union {NoRow}]
      /\ file \in [Names -> Files] /\ decision \in [Analysts -> Decision]
      /\ job \in [Uploads -> ReportIds] /\ target \in [Takedowns -> ReportIds]
  BY <1>1 DEF Files
<1> QED
  BY <1>2, <1>3 DEF TypeOK

\* The row that a takedown or a decision does not touch.
LEMMA RowChange ==
  ASSUME TypeOK, NEW r \in ReportIds, row[r] # NoRow
  PROVE  /\ row[r] \in Row
         /\ [row EXCEPT ![r].photo = TRUE] \in [ReportIds -> Row \union {NoRow}]
         /\ \A v \in Verifications :
              [row EXCEPT ![r].verification = v] \in [ReportIds -> Row \union {NoRow}]
<1>1. row[r] \in Row
  BY DEF TypeOK
<1>2. [row[r] EXCEPT !.photo = TRUE] \in Row
  BY <1>1 DEF Row
<1>3. \A v \in Verifications : [row[r] EXCEPT !.verification = v] \in Row
  BY <1>1 DEF Row
<1> QED
  BY <1>1, <1>2, <1>3 DEF TypeOK

LEMMA UploadTypeOK ==
  ASSUME TypeOK, NEW u \in Uploads, UploadStep(u)
  PROVE  TypeOK'
<1> USE BoundsAssumption, SomeUndecided DEF UGoto, Answer, rvars, tvars, avars
<1>1. CASE Authorize(u)
  BY <1>1 DEF TypeOK, Authorize
<1>2. CASE OpenFile(u)
  <2>1. file' \in [Names -> Files] /\ collided' \subseteq Names
    BY <1>2, NameOfReport DEF TypeOK, OpenFile, Files
  <2>2. mixed' \in [Uploads -> BOOLEAN] /\ linked' \in [Uploads -> BOOLEAN]
    BY <1>2 DEF TypeOK, OpenFile
  <2>3. usurped' \subseteq ReportIds
    BY <1>2 DEF TypeOK, OpenFile, Sharing
  <2> QED
    BY <1>2, <2>1, <2>2, <2>3 DEF TypeOK, OpenFile
<1>3. CASE WriteFile(u)
  <2>1. file' \in [Names -> Files]
    BY <1>3 DEF TypeOK, WriteFile, Files
  <2> QED
    BY <1>3, <2>1 DEF TypeOK, WriteFile
<1>4. CASE WriteFails(u)
  BY <1>4 DEF TypeOK, WriteFails
<1>5. CASE SetPhotoURL(u)
  <2>1. row' \in [ReportIds -> Row \union {NoRow}]
    <3>1. job[u] \in ReportIds
      BY DEF TypeOK
    <3>2. \/ row' = row
          \/ row[job[u]] # NoRow /\ row' = [row EXCEPT ![job[u]].photo = TRUE]
      BY <1>5 DEF SetPhotoURL, UGoto
    <3>3. CASE row' = row
      BY <3>3 DEF TypeOK
    <3>4. CASE row[job[u]] # NoRow /\ row' = [row EXCEPT ![job[u]].photo = TRUE]
      BY <3>1, <3>4, RowChange
    <3> QED
      BY <3>2, <3>3, <3>4
  <2>2. upc' \in [Uploads -> {"idle", "open", "write", "record", "remove"}]
        /\ job' \in [Uploads -> ReportIds]
    BY <1>5 DEF TypeOK, SetPhotoURL
  <2> QED
    BY <1>5, <2>1, <2>2 DEF TypeOK, SetPhotoURL
<1>6. CASE SetPhotoURLFails(u)
  BY <1>6 DEF TypeOK, SetPhotoURLFails
<1>7. CASE RemovePhoto(u)
  <2>1. usurped' \subseteq ReportIds
    BY <1>7 DEF TypeOK, RemovePhoto, Unlink, Sharing
  <2>2. file' \in [Names -> Files] /\ linked' \in [Uploads -> BOOLEAN]
    BY <1>7 DEF TypeOK, RemovePhoto, Unlink, Files
  <2> QED
    BY <1>7, <2>1, <2>2 DEF TypeOK, RemovePhoto
<1> QED
  BY <1>1, <1>2, <1>3, <1>4, <1>5, <1>6, <1>7 DEF UploadStep

LEMMA ReportTypeOK ==
  ASSUME TypeOK,
         \/ \E r \in ReportIds : PostReport(r)
         \/ \E t \in Takedowns : EraseReport(t) \/ ErasePhoto(t)
  PROVE  TypeOK'
<1> USE BoundsAssumption DEF rvars, uvars, tvars, avars
<1>1. CASE \E r \in ReportIds : PostReport(r)
  <2>1. PICK r \in ReportIds : PostReport(r)
    BY <1>1
  <2>2. row' \in [ReportIds -> Row \union {NoRow}]
    BY <2>1 DEF TypeOK, PostReport, Row, Verifications
  <2>3. posts' \in [ReportIds -> Nat] /\ \A q \in ReportIds : posts'[q] <= MaxPosts[q] + 1
    BY <2>1 DEF TypeOK, PostReport
  <2> QED
    BY <2>1, <2>2, <2>3 DEF TypeOK, PostReport
<1>2. ASSUME NEW t \in Takedowns, EraseReport(t) PROVE TypeOK'
  <2>1. audit' \in [ReportIds -> Seq(Audit)]
    BY <1>2 DEF TypeOK, EraseReport
  <2> QED
    BY <1>2, <2>1 DEF TypeOK, EraseReport
<1>3. ASSUME NEW t \in Takedowns, ErasePhoto(t) PROVE TypeOK'
  <2>1. usurped' \subseteq ReportIds
    BY <1>3 DEF TypeOK, ErasePhoto, Unlink, Sharing
  <2>2. file' \in [Names -> Files] /\ linked' \in [Uploads -> BOOLEAN]
        /\ target' \in [Takedowns -> ReportIds]
    BY <1>3, SomeUndecided DEF TypeOK, ErasePhoto, Unlink, Files
  <2> QED
    BY <1>3, <2>1, <2>2 DEF TypeOK, ErasePhoto
<1> QED
  BY <1>1, <1>2, <1>3

LEMMA DecisionTypeOK ==
  ASSUME TypeOK, \E a \in Analysts : Decide(a) \/ UpdateVerification(a)
  PROVE  TypeOK'
<1> USE BoundsAssumption DEF rvars, uvars, tvars, avars
<1>1. Undecided \in Decision
  BY SomeUndecided
<1>2. ASSUME NEW a \in Analysts, Decide(a) PROVE TypeOK'
  <2>1. decision' \in [Analysts -> Decision]
    <3>1. PICK r \in ReportIds, s \in Verifications, forced \in BOOLEAN :
            /\ row[r] # NoRow
            /\ decision' = [decision EXCEPT ![a] = [of |-> r, from |-> row[r].verification,
                                                    to |-> s, forced |-> forced]]
      BY <1>2 DEF Decide
    <3>2. row[r].verification \in Verifications
      BY <3>1, RowChange DEF Row
    <3>3. [of |-> r, from |-> row[r].verification, to |-> s, forced |-> forced] \in Decision
      BY <3>2 DEF Decision
    <3> QED
      BY <3>1, <3>3 DEF TypeOK
  <2> QED
    BY <1>2, <2>1 DEF TypeOK, Decide
<1>3. ASSUME NEW a \in Analysts, UpdateVerification(a) PROVE TypeOK'
  <2> DEFINE d == decision[a]
  <2>1. d \in Decision
    BY DEF TypeOK
  <2>2. /\ d.of \in ReportIds /\ d.to \in Verifications
        /\ [from |-> d.from, to |-> d.to, forced |-> d.forced] \in Audit
    BY <2>1 DEF Decision, Audit
  <2>3. row' \in [ReportIds -> Row \union {NoRow}]
    BY <1>3, <2>2, RowChange DEF UpdateVerification
  <2>4. audit' \in [ReportIds -> Seq(Audit)]
    <3>1. Append(audit[d.of], [from |-> d.from, to |-> d.to, forced |-> d.forced]) \in Seq(Audit)
      BY <2>2 DEF TypeOK
    <3> QED
      BY <1>3, <2>2, <3>1 DEF TypeOK, UpdateVerification
  <2>5. decision' \in [Analysts -> Decision]
    BY <1>1, <1>3 DEF TypeOK, UpdateVerification
  <2> QED
    BY <1>3, <2>3, <2>4, <2>5 DEF TypeOK, UpdateVerification
<1> QED
  BY <1>2, <1>3

LEMMA TypeStep == TypeOK /\ [Next]_vars => TypeOK'
<1> SUFFICES ASSUME TypeOK, [Next]_vars PROVE TypeOK'
  OBVIOUS
<1>1. CASE Crash
  <2>1. /\ decision' \in [Analysts -> Decision]
        /\ job' \in [Uploads -> ReportIds] /\ target' \in [Takedowns -> ReportIds]
    BY <1>1, SomeUndecided DEF Crash
  <2>2. faults' \in 0 .. MaxFaults
    BY <1>1, BoundsAssumption DEF TypeOK, Crash
  <2> QED
    BY <1>1, <2>1, <2>2 DEF TypeOK, Crash, rvars
<1>2. CASE UNCHANGED vars
  BY <1>2 DEF TypeOK, vars
<1> QED
  BY <1>1, <1>2, UploadTypeOK, ReportTypeOK, DecisionTypeOK DEF Next, Quiescent

------------------------------------------------------------------------------
(* Decisions *)

LEMMA InitDecisionInv == Init => DecisionInv
BY InitTypeOK DEF Init, DecisionInv, LockInv, TrailInv, VerifiedHasPhoto

\* What a decision and the trail are made of.
LEMMA DecisionTypes ==
  ASSUME TypeOK
  PROVE  /\ \A a \in Analysts : /\ decision[a].of \in ReportIds
                                /\ decision[a].from \in Verifications
                                /\ decision[a].to \in Verifications
         /\ \A r \in ReportIds :
              /\ audit[r] \in Seq(Audit)
              /\ row[r] # NoRow => row[r] \in Row
BY DEF TypeOK, Decision

\* Rows that keep their status and lose no photo keep their story.
LEMMA SameStatus ==
  ASSUME DecisionInv, TypeOK', UNCHANGED <<audit, apc, decision>>,
         \A r \in ReportIds :
           row[r] # NoRow => /\ row'[r] # NoRow
                             /\ row'[r].verification = row[r].verification
                             /\ row[r].photo => row'[r].photo,
         \A r \in ReportIds :
           row[r] = NoRow => row'[r] = NoRow \/ row'[r].verification = "pending"
  PROVE  DecisionInv'
<1>1. LockInv'
  BY DecisionTypes DEF DecisionInv, LockInv
<1>2. ASSUME NEW r \in ReportIds
      PROVE  /\ IF row'[r] = NoRow THEN audit'[r] = <<>> ELSE Chained(r)'
             /\ row'[r] # NoRow /\ row'[r].verification = "verified"
                  => row'[r].photo \/ audit'[r][Len(audit'[r])].forced
  <2>1. CASE row[r] = NoRow
    BY <2>1 DEF DecisionInv, TrailInv, Chained
  <2>2. CASE row[r] # NoRow
    BY <2>2 DEF DecisionInv, TrailInv, Chained, VerifiedHasPhoto
  <2> QED
    BY <2>1, <2>2
<1> QED
  BY <1>1, <1>2 DEF DecisionInv, TrailInv, VerifiedHasPhoto

LEMMA EraseDecisionInv ==
  ASSUME DecisionInv, TypeOK', NEW t \in Takedowns, EraseReport(t)
  PROVE  DecisionInv'
<1>1. PICK r \in ReportIds : /\ row[r] # NoRow /\ ~Locked(r)
                             /\ row' = [row EXCEPT ![r] = NoRow]
                             /\ audit' = [audit EXCEPT ![r] = <<>>]
  BY DEF EraseReport
<1>2. apc' = apc /\ decision' = decision
  BY DEF EraseReport, avars
<1>3. /\ row'[r] = NoRow /\ audit'[r] = <<>>
      /\ \A q \in ReportIds : q # r => row'[q] = row[q] /\ audit'[q] = audit[q]
  BY <1>1 DEF DecisionInv, TypeOK
<1>4. LockInv'
  BY <1>1, <1>2, <1>3, DecisionTypes DEF DecisionInv, LockInv, Locked
<1>5. TrailInv' /\ VerifiedHasPhoto'
  BY <1>3 DEF DecisionInv, TrailInv, Chained, VerifiedHasPhoto
<1> QED
  BY <1>4, <1>5 DEF DecisionInv

LEMMA DecideDecisionInv ==
  ASSUME DecisionInv, TypeOK', NEW a \in Analysts, Decide(a)
  PROVE  DecisionInv'
<1>1. PICK r \in ReportIds, s \in Verifications, forced \in BOOLEAN :
        /\ row[r] # NoRow /\ ~Locked(r)
        /\ s = "verified" => row[r].photo \/ forced
        /\ decision' = [decision EXCEPT ![a] = [of |-> r, from |-> row[r].verification,
                                                to |-> s, forced |-> forced]]
  BY DEF Decide
<1>2. row' = row /\ audit' = audit /\ apc' = [apc EXCEPT ![a] = "locked"]
  BY DEF Decide, rvars
<1>3. /\ decision'[a] = [of |-> r, from |-> row[r].verification, to |-> s, forced |-> forced]
      /\ \A b \in Analysts : b # a => decision'[b] = decision[b] /\ apc'[b] = apc[b]
  BY <1>1, <1>2 DEF DecisionInv, TypeOK
<1>4. \A b \in Analysts : apc[b] = "locked" => decision[b].of # r
  BY <1>1 DEF Locked
<1>5. LockInv'
  BY <1>1, <1>2, <1>3, <1>4 DEF DecisionInv, LockInv
<1>6. TrailInv' /\ VerifiedHasPhoto'
  BY <1>2 DEF DecisionInv, TrailInv, Chained, VerifiedHasPhoto
<1> QED
  BY <1>5, <1>6 DEF DecisionInv

\* The decision starts at the status the row still has.
LEMMA UpdateDecisionInv ==
  ASSUME DecisionInv, TypeOK', NEW a \in Analysts, UpdateVerification(a)
  PROVE  DecisionInv'
<1>a. PICK r \in ReportIds : r = decision[a].of
  BY DecisionTypes DEF DecisionInv
<1>b. PICK e : e = [from |-> decision[a].from, to |-> decision[a].to,
                    forced |-> decision[a].forced]
  OBVIOUS
<1>1. /\ apc[a] = "locked" /\ row[r] # NoRow
      /\ audit' = [audit EXCEPT ![r] = Append(audit[r], e)]
      /\ row' = [row EXCEPT ![r].verification = e.to]
      /\ apc' = [apc EXCEPT ![a] = "idle"]
      /\ decision' = [decision EXCEPT ![a] = Undecided]
  BY <1>a, <1>b DEF UpdateVerification
<1>2. /\ r \in ReportIds /\ audit[r] \in Seq(Audit) /\ row[r] \in Row
      /\ e.to \in Verifications
  BY <1>b, <1>1, DecisionTypes DEF DecisionInv
<1>3. /\ e.from = row[r].verification
      /\ e.to = "verified" => row[r].photo \/ e.forced
      /\ \A b \in Analysts : b # a /\ apc[b] = "locked" => decision[b].of # r
  BY <1>a, <1>b, <1>1 DEF DecisionInv, LockInv
<1>4. /\ audit'[r] = Append(audit[r], e)
      /\ row'[r].verification = e.to /\ row'[r].photo = row[r].photo
      /\ \A q \in ReportIds : q # r => row'[q] = row[q] /\ audit'[q] = audit[q]
  BY <1>1, <1>2 DEF DecisionInv, TypeOK, Row
<1>5. row'[r] # NoRow
  <2>1. [row[r] EXCEPT !.verification = e.to] \in Row
    BY <1>2 DEF Row
  <2>2. row'[r] = [row[r] EXCEPT !.verification = e.to]
    BY <1>1, <1>2 DEF DecisionInv, TypeOK
  <2> QED
    BY <2>1, <2>2, NoRowAssumption
<1>6. \A b \in Analysts : apc'[b] = "locked" => b # a /\ apc[b] = "locked" /\ decision'[b] = decision[b]
  BY <1>1 DEF DecisionInv, TypeOK
<1>7. LockInv'
  BY <1>3, <1>4, <1>6, DecisionTypes DEF DecisionInv, LockInv
<1>8. Chained(r)'
  <2>1. /\ audit[r] \in Seq(Audit) /\ Len(audit[r]) \in Nat
        /\ Len(audit'[r]) = Len(audit[r]) + 1 /\ audit'[r] # <<>>
        /\ audit'[r][Len(audit[r]) + 1] = e
        /\ \A i \in 1 .. Len(audit[r]) : audit'[r][i] = audit[r][i]
    BY <1>2, <1>4
  <2>2. Chained(r)
    BY <1>1, <1>2 DEF DecisionInv, TrailInv
  <2>3. e.from = IF Len(audit[r]) = 0 THEN "pending" ELSE audit[r][Len(audit[r])].to
    BY <1>3, <2>1, <2>2 DEF Chained
  <2>4. \A i \in 1 .. Len(audit'[r]) :
          audit'[r][i].from = IF i = 1 THEN "pending" ELSE audit'[r][i - 1].to
    <3>1. TAKE i \in 1 .. Len(audit'[r])
    <3>2. CASE i \in 1 .. Len(audit[r])
      <4>1. audit[r][i].from = IF i = 1 THEN "pending" ELSE audit[r][i - 1].to
        BY <2>2, <3>2 DEF Chained
      <4>2. i # 1 => i - 1 \in 1 .. Len(audit[r])
        BY <2>1, <3>2
      <4> QED
        BY <2>1, <3>2, <4>1, <4>2
    <3>3. CASE i = Len(audit[r]) + 1
      <4>1. audit'[r][i].from = e.from /\ i - 1 = Len(audit[r])
        BY <2>1, <3>3
      <4>2. i # 1 => audit'[r][i - 1] = audit[r][i - 1]
        BY <2>1, <3>3, <4>1
      <4> QED
        BY <2>1, <2>3, <3>3, <4>1, <4>2
    <3> QED
      BY <2>1, <3>2, <3>3
  <2>5. audit'[r][Len(audit'[r])] = e
    BY <2>1
  <2> QED
    BY <1>4, <2>1, <2>4, <2>5 DEF Chained
<1>9. audit'[r][Len(audit'[r])] = e
  BY <1>2, <1>4
<1>10. TrailInv'
  <2>1. ASSUME NEW q \in ReportIds, q # r
        PROVE  IF row'[q] = NoRow THEN audit'[q] = <<>> ELSE Chained(q)'
    BY <1>4, <2>1 DEF DecisionInv, TrailInv, Chained
  <2> QED
    BY <1>5, <1>8, <2>1 DEF TrailInv
<1>11. VerifiedHasPhoto'
  BY <1>3, <1>4, <1>9 DEF DecisionInv, VerifiedHasPhoto
<1> QED
  BY <1>7, <1>10, <1>11 DEF DecisionInv

LEMMA UploadDecisionInv ==
  ASSUME DecisionInv, TypeOK', NEW u \in Uploads, UploadStep(u)
  PROVE  DecisionInv'
<1>1. UNCHANGED <<audit, apc, decision>>
  BY DEF UploadStep, Authorize, OpenFile, WriteFile, WriteFails, SetPhotoURL, SetPhotoURLFails,
         RemovePhoto, rvars, avars
<1>2. row' = row \/ SetPhotoURL(u)
  BY DEF UploadStep, Authorize, OpenFile, WriteFile, WriteFails, SetPhotoURL, SetPhotoURLFails,
         RemovePhoto, rvars
<1>3. \/ row' = row
      \/ row[job[u]] # NoRow /\ row' = [row EXCEPT ![job[u]].photo = TRUE]
  BY <1>2 DEF SetPhotoURL
<1>4. \A r \in ReportIds :
        \/ row'[r] = row[r]
        \/ row[r] # NoRow /\ row'[r] = [row[r] EXCEPT !.photo = TRUE]
  BY <1>3 DEF DecisionInv, TypeOK
<1>5. \A r \in ReportIds :
        row[r] # NoRow => /\ row'[r] # NoRow
                          /\ row'[r].verification = row[r].verification
                          /\ row[r].photo => row'[r].photo
  <2>1. ASSUME NEW r \in ReportIds, row[r] # NoRow
        PROVE  row[r] \in Row /\ [row[r] EXCEPT !.photo = TRUE] \in Row
    <3>1. row[r] \in Row
      BY <2>1, DecisionTypes DEF DecisionInv
    <3> QED
      BY <3>1 DEF Row
  <2> QED
    BY <1>4, <2>1, NoRowAssumption DEF Row
<1> QED
  BY <1>1, <1>4, <1>5, SameStatus

LEMMA DecisionStep == DecisionInv /\ [Next]_vars => DecisionInv'
<1> SUFFICES ASSUME DecisionInv, [Next]_vars PROVE DecisionInv'
  OBVIOUS
<1>1. TypeOK'
  BY TypeStep DEF DecisionInv
<1>2. ASSUME NEW r \in ReportIds, PostReport(r) PROVE DecisionInv'
  <2>1. /\ UNCHANGED <<audit, apc, decision>> /\ row[r] = NoRow
        /\ row'[r].verification = "pending"
        /\ \A q \in ReportIds : q # r => row'[q] = row[q]
    BY <1>2 DEF PostReport, avars, DecisionInv, TypeOK
  <2> QED
    BY <1>1, <2>1, SameStatus
<1>3. ASSUME NEW t \in Takedowns, ErasePhoto(t) PROVE DecisionInv'
  BY <1>1, <1>3, SameStatus DEF ErasePhoto, rvars, avars
<1>4. CASE Crash
  <2>1. /\ row' = row /\ audit' = audit /\ \A a \in Analysts : apc'[a] = "idle"
    BY <1>4 DEF Crash, rvars
  <2> QED
    BY <1>1, <2>1 DEF DecisionInv, LockInv, TrailInv, Chained, VerifiedHasPhoto
<1>5. CASE UNCHANGED vars
  BY <1>1, <1>5, SameStatus DEF vars
<1> QED
  BY <1>1, <1>2, <1>3, <1>4, <1>5, EraseDecisionInv, DecideDecisionInv, UpdateDecisionInv,
     UploadDecisionInv DEF Next, Quiescent

\* The inductive invariant of the decisions.
THEOREM DecisionInvariant == Spec => []DecisionInv
BY InitDecisionInv, DecisionStep, PTL DEF Spec

\* The audit trail tells the whole story of a status, for any number of analysts
\* who decide at the same time, and every variable keeps its type.
THEOREM AuditIsChainedAlways == Spec => []AuditIsChained
<1>1. DecisionInv => AuditIsChained
  <2> SUFFICES ASSUME DecisionInv, NEW r \in ReportIds, row[r] # NoRow
               PROVE  LET n == Len(audit[r])
                          before(i) == IF i = 1 THEN "pending" ELSE audit[r][i - 1].to IN
                      /\ \A i \in 1 .. n : audit[r][i].from = before(i)
                      /\ row[r].verification = before(n + 1)
    BY DEF AuditIsChained, DecisionInv
  <2>1. Chained(r) /\ audit[r] \in Seq(Audit)
    BY DecisionTypes DEF DecisionInv, TrailInv
  <2>2. /\ Len(audit[r]) \in Nat /\ (Len(audit[r]) + 1) - 1 = Len(audit[r])
        /\ Len(audit[r]) + 1 = 1 <=> audit[r] = <<>>
    BY <2>1
  <2> QED
    BY <2>1, <2>2 DEF Chained
<1> QED
  BY <1>1, DecisionInvariant, PTL

\* A verified report has a photo on record or was forced.
THEOREM VerifiedHasPhotoAlways == Spec => []VerifiedHasPhoto
<1>1. DecisionInv => VerifiedHasPhoto
  BY DEF DecisionInv
<1> QED
  BY <1>1, DecisionInvariant, PTL

------------------------------------------------------------------------------
(* Photos *)

LEMMA InitPhotoInv == Init => PhotoInv
<1> SUFFICES ASSUME Init PROVE PhotoInv
  OBVIOUS
<1>1. TendedInv /\ OpenInv
  BY DEF Init, TendedInv, OpenInv
<1>2. \A r \in Steady : SteadyInv(r)
  BY DEF Init, Steady, SteadyInv
<1> QED
  BY <1>1, <1>2, InitTypeOK DEF PhotoInv

\* A step that touches neither the files nor whoever works on them, and whose
\* rows keep their photos, keeps the files as they should be.
LEMMA SamePhotos ==
  ASSUME PhotoInv, TypeOK', faults <= faults',
         UNCHANGED <<file, erased, uvars, tvars>>,
         \A r \in ReportIds :
           \/ row'[r] = row[r]
           \/ row[r] = NoRow /\ ~row'[r].photo
           \/ row[r] # NoRow /\ row'[r] # NoRow /\ row'[r].photo = row[r].photo
  PROVE  PhotoInv'
<1> USE DEF uvars, tvars
<1>0. faults' = 0 => faults = 0
  BY DEF PhotoInv, TypeOK
<1>1. TendedInv'
  BY <1>0 DEF PhotoInv, TendedInv
<1>2. OpenInv'
  <2>1. \A r \in ReportIds : row[r] # NoRow => row'[r] # NoRow
    OBVIOUS
  <2>2. \A u \in Uploads : job[u] \in ReportIds
    BY DEF PhotoInv, TypeOK
  <2> QED
    BY <2>1, <2>2 DEF PhotoInv, OpenInv
<1>3. ASSUME faults' = 0, NEW r \in Steady' PROVE SteadyInv(r)'
  <2>1. SteadyInv(r) /\ r \in ReportIds
    BY <1>0, <1>3 DEF PhotoInv, Steady
  <2> QED
    BY <2>1 DEF SteadyInv
<1> QED
  BY <1>1, <1>2, <1>3 DEF PhotoInv

LEMMA AuthorizePhotoInv ==
  ASSUME PhotoInv, TypeOK', NEW u \in Uploads, Authorize(u)
  PROVE  PhotoInv'
<1>1. PICK r \in ReportIds : row[r] # NoRow /\ job' = [job EXCEPT ![u] = r]
  BY DEF Authorize
<1>2. /\ upc[u] = "idle" /\ upc' = [upc EXCEPT ![u] = "open"]
      /\ UNCHANGED <<file, faults, linked, mixed, collided, usurped, row, erased, tpc, target>>
  BY DEF Authorize, UGoto, rvars, tvars
<1>3. /\ job'[u] = r /\ upc'[u] = "open" /\ ~linked[u] /\ ~mixed[u]
      /\ \A v \in Uploads : v # u => job'[v] = job[v] /\ upc'[v] = upc[v]
  BY <1>1, <1>2 DEF PhotoInv, OpenInv, TypeOK
<1>4. TendedInv'
  BY <1>2, <1>3 DEF PhotoInv, TendedInv
<1>5. OpenInv'
  BY <1>1, <1>2, <1>3 DEF PhotoInv, OpenInv
<1>6. ASSUME faults' = 0, NEW q \in Steady' PROVE SteadyInv(q)'
  <2>1. SteadyInv(q)
    BY <1>2, <1>6 DEF PhotoInv, Steady
  <2> QED
    BY <1>2, <1>3, <2>1 DEF SteadyInv
<1> QED
  BY <1>4, <1>5, <1>6 DEF PhotoInv

LEMMA OpenPhotoInv ==
  ASSUME PhotoInv, TypeOK', NEW u \in Uploads, OpenFile(u)
  PROVE  PhotoInv'
<1>a. PICK r \in ReportIds : r = job[u]
  BY DEF PhotoInv, TypeOK
<1>b. PICK n \in Names : n = NameOf[r]
  BY NameOfReport
<1>1. /\ upc[u] = "open" /\ upc' = [upc EXCEPT ![u] = "write"]
      /\ file' = [file EXCEPT ![n] = "partial"] /\ linked' = [linked EXCEPT ![u] = TRUE]
      /\ mixed' = [v \in Uploads |-> mixed[v] \/ (Writing(u, n) # {} /\ v \in Writing(u, n) \union {u})]
      /\ collided' = IF Writing(u, n) = {} THEN collided ELSE collided \union {n}
      /\ usurped' = (usurped \ {r}) \union Sharing(r)
      /\ UNCHANGED <<job, faults, row, erased, tpc, target>>
  BY <1>a, <1>b DEF OpenFile, UGoto, rvars, tvars
<1>2. /\ upc'[u] = "write" /\ linked'[u]
      /\ \A v \in Uploads : v # u => upc'[v] = upc[v] /\ linked'[v] = linked[v]
      /\ \A m \in Names : m # n => file'[m] = file[m]
  BY <1>1 DEF PhotoInv, TypeOK
<1>3. TendedInv'
  BY <1>a, <1>b, <1>1, <1>2 DEF PhotoInv, TendedInv
<1>4. OpenInv'
  <2>1. \A v \in Uploads : mixed'[v] => upc'[v] = "write" /\ NameOf[job[v]] \in collided'
    BY <1>a, <1>b, <1>1, <1>2 DEF PhotoInv, OpenInv, Writing
  <2>2. \A v \in Uploads : upc'[v] # "idle" => upc[v] # "idle"
    BY <1>1, <1>2
  <2> QED
    BY <1>1, <1>2, <2>1, <2>2 DEF PhotoInv, OpenInv
<1>5. ASSUME faults' = 0, NEW q \in Steady' PROVE SteadyInv(q)'
  <2>1. q \in ReportIds /\ q \notin usurped' /\ NameOf[q] \notin collided' /\ q \notin erased
    BY <1>1, <1>5 DEF Steady
  <2>2. CASE q = r
    <3>1. Writing(u, n) = {}
      BY <1>b, <1>1, <2>1, <2>2
    <3>2. \A v \in Uploads : linked'[v] /\ NameOf[job'[v]] = n => v = u
      BY <1>1, <1>2, <3>1 DEF PhotoInv, OpenInv, Writing
    <3> QED
      BY <1>a, <1>b, <1>1, <1>2, <2>2, <3>2 DEF SteadyInv
  <2>3. CASE q # r
    <3>1. NameOf[q] # n
      BY <1>b, <1>1, <2>1, <2>3 DEF Sharing
    <3>2. NameOf[q] \in Names /\ file'[NameOf[q]] = file[NameOf[q]]
      BY <1>2, <2>1, <3>1, NameOfReport
    <3>3. SteadyInv(q)
      BY <1>1, <1>5, <2>1, <2>3 DEF PhotoInv, Steady
    <3> QED
      BY <1>a, <1>b, <1>1, <1>2, <2>3, <3>1, <3>2, <3>3 DEF SteadyInv
  <2> QED
    BY <2>2, <2>3
<1> QED
  BY <1>3, <1>4, <1>5 DEF PhotoInv

\* An upload that writes alone to a file with a name leaves it whole.
LEMMA WritePhotoInv ==
  ASSUME PhotoInv, TypeOK', NEW u \in Uploads, WriteFile(u)
  PROVE  PhotoInv'
<1>a. PICK r \in ReportIds : r = job[u]
  BY DEF PhotoInv, TypeOK
<1>b. PICK n \in Names : n = NameOf[r]
  BY NameOfReport
<1>1. /\ upc[u] = "write" /\ upc' = [upc EXCEPT ![u] = "record"]
      /\ linked' = [linked EXCEPT ![u] = FALSE] /\ mixed' = [mixed EXCEPT ![u] = FALSE]
      /\ \/ file' = file /\ (~linked[u] \/ Writing(u, n) # {})
         \/ linked[u] /\ \E f \in {"whole", "garbled"} :
                           /\ file' = [file EXCEPT ![n] = f]
                           /\ ~mixed[u] => f = "whole"
      /\ UNCHANGED <<job, faults, collided, usurped, row, erased, tpc, target>>
  BY <1>a, <1>b DEF WriteFile, UGoto, rvars, tvars
<1>2. /\ upc'[u] = "record" /\ ~linked'[u] /\ ~mixed'[u]
      /\ \A v \in Uploads :
           v # u => upc'[v] = upc[v] /\ linked'[v] = linked[v] /\ mixed'[v] = mixed[v]
      /\ \A m \in Names : m # n => file'[m] = file[m]
  <2>1. \A m \in Names : m # n => file'[m] = file[m]
    BY <1>1 DEF PhotoInv, TypeOK
  <2> QED
    BY <1>1, <2>1 DEF PhotoInv, TypeOK
<1>3. TendedInv'
  BY <1>a, <1>b, <1>1, <1>2 DEF PhotoInv, TendedInv
<1>4. OpenInv'
  BY <1>1, <1>2 DEF PhotoInv, OpenInv
<1>5. ASSUME faults' = 0, NEW q \in Steady' PROVE SteadyInv(q)'
  <2>1. SteadyInv(q) /\ q \in ReportIds /\ NameOf[q] \notin collided
    BY <1>1, <1>5 DEF PhotoInv, Steady
  <2>2. CASE q # r
    <3>1. file'[NameOf[q]] = file[NameOf[q]]
      <4>1. NameOf[q] = n => ~linked[u]
        BY <1>a, <1>b, <2>1, <2>2 DEF SteadyInv
      <4> QED
        BY <1>1, <1>2, <2>1, <4>1, NameOfReport
    <3> QED
      BY <1>a, <1>1, <1>2, <2>1, <2>2, <3>1 DEF SteadyInv
  <2>3. CASE q = r
    <3>1. Writing(u, n) # {} => ~linked[u]
      BY <1>a, <1>b, <2>1, <2>3 DEF SteadyInv, Writing
    <3>2. ~mixed[u]
      BY <1>a, <1>1, <2>1, <2>3 DEF PhotoInv, OpenInv
    <3>3. linked[u] => file'[n] = "whole"
      BY <1>1, <3>1, <3>2 DEF PhotoInv, TypeOK
    <3>4. ~linked[u] => file'[n] = file[n] /\ linked' = linked
      BY <1>1 DEF PhotoInv, TypeOK
    <3>5. CASE linked[u]
      BY <1>a, <1>b, <1>1, <1>2, <2>1, <2>3, <3>3, <3>5 DEF SteadyInv
    <3>6. CASE ~linked[u]
      BY <1>a, <1>b, <1>1, <1>2, <2>1, <2>3, <3>4, <3>6 DEF SteadyInv
    <3> QED
      BY <3>5, <3>6
  <2> QED
    BY <2>2, <2>3
<1> QED
  BY <1>3, <1>4, <1>5 DEF PhotoInv

LEMMA RecordPhotoInv ==
  ASSUME PhotoInv, TypeOK', NEW u \in Uploads, SetPhotoURL(u)
  PROVE  PhotoInv'
<1>a. PICK r \in ReportIds : r = job[u]
  BY DEF PhotoInv, TypeOK
<1>1. /\ upc[u] = "record"
      /\ \/ /\ row[r] = NoRow /\ row' = row
            /\ upc' = [upc EXCEPT ![u] = "remove"] /\ job' = job
         \/ /\ row[r] # NoRow /\ row' = [row EXCEPT ![r].photo = TRUE]
            /\ upc' = [upc EXCEPT ![u] = "idle"] /\ job' = [job EXCEPT ![u] = SomeReport]
      /\ UNCHANGED <<file, erased, faults, linked, mixed, collided, usurped, tpc, target>>
  BY <1>a DEF SetPhotoURL, Answer, UGoto, tvars
<1>2. /\ \A v \in Uploads : v # u => upc'[v] = upc[v] /\ job'[v] = job[v]
      /\ \A q \in ReportIds : q # r => row'[q] = row[q]
      /\ \/ row[r] = NoRow /\ row' = row /\ upc'[u] = "remove" /\ job'[u] = r
         \/ row[r] # NoRow /\ row'[r] = [row[r] EXCEPT !.photo = TRUE] /\ upc'[u] = "idle"
      /\ ~linked[u] /\ ~mixed[u]
  <2>1. /\ upc \in [Uploads -> {"idle", "open", "write", "record", "remove"}]
        /\ job \in [Uploads -> ReportIds] /\ DOMAIN row = ReportIds
    BY DEF PhotoInv, TypeOK
  <2>2. ~linked[u] /\ ~mixed[u]
    BY <1>1 DEF PhotoInv, OpenInv
  <2>3. \A v \in Uploads : v # u => upc'[v] = upc[v] /\ job'[v] = job[v]
    BY <1>1, <2>1
  <2>4. \A q \in ReportIds : q # r => row'[q] = row[q]
    BY <1>1, <2>1
  <2>5. CASE row[r] = NoRow
    BY <1>a, <1>1, <2>1, <2>2, <2>3, <2>4, <2>5
  <2>6. CASE row[r] # NoRow
    BY <1>1, <2>1, <2>2, <2>3, <2>4, <2>6
  <2> QED
    BY <2>5, <2>6
<1>3. row[r] # NoRow => row'[r] # NoRow /\ row'[r].photo
  <2>1. HAVE row[r] # NoRow
  <2>2. row[r] \in Row
    BY <2>1, DecisionTypes DEF PhotoInv
  <2>3. [row[r] EXCEPT !.photo = TRUE] \in Row /\ [row[r] EXCEPT !.photo = TRUE].photo
    BY <2>2 DEF Row
  <2> QED
    BY <1>2, <2>1, <2>3, NoRowAssumption
<1>4. TendedInv'
  BY <1>a, <1>1, <1>2, <1>3 DEF PhotoInv, TendedInv
<1>5. OpenInv'
  <2>1. /\ \A v \in Uploads : linked'[v] => upc'[v] = "write"
        /\ \A v \in Uploads : mixed'[v] => upc'[v] = "write" /\ NameOf[job'[v]] \in collided'
        /\ \A t \in Takedowns : tpc'[t] = "unlink" => target'[t] \in erased'
    BY <1>1, <1>2 DEF PhotoInv, OpenInv
  <2>2. ASSUME NEW v \in Uploads, upc'[v] # "idle", job'[v] \notin erased'
        PROVE  row'[job'[v]] # NoRow /\ upc'[v] # "remove"
    <3>1. CASE v = u
      BY <1>a, <1>1, <1>2, <2>2, <3>1 DEF PhotoInv, OpenInv
    <3>2. CASE v # u
      <4>1. job[v] \in ReportIds /\ job'[v] = job[v] /\ upc'[v] = upc[v]
        BY <1>2, <3>2 DEF PhotoInv, TypeOK
      <4>2. row[job[v]] # NoRow /\ upc[v] # "remove"
        BY <1>1, <2>2, <4>1 DEF PhotoInv, OpenInv
      <4> QED
        BY <1>2, <1>3, <4>1, <4>2
    <3> QED
      BY <3>1, <3>2
  <2> QED
    BY <2>1, <2>2 DEF OpenInv
<1>6. ASSUME faults' = 0, NEW q \in Steady' PROVE SteadyInv(q)'
  <2>1. SteadyInv(q)
    BY <1>1, <1>6 DEF PhotoInv, Steady
  <2>2. \A v \in Uploads : job'[v] = q /\ (linked'[v] \/ upc'[v] \in {"write", "record"}) => job[v] = q
    BY <1>1, <1>2
  <2>3. (\A v \in Uploads : job'[v] = q => ~linked'[v]) => \A v \in Uploads : job[v] = q => ~linked[v]
    BY <1>1, <1>2
  <2>4. row'[q] # NoRow /\ row'[q].photo =>
          \/ row[q] # NoRow /\ row[q].photo
          \/ job[u] = q /\ upc[u] = "record"
    <3>1. q = r \/ row'[q] = row[q]
      BY <1>2, <1>6 DEF Steady
    <3> QED
      BY <1>a, <1>1, <3>1
  <2>5. \A v \in Uploads : linked[v] => job'[v] = job[v]
    BY <1>2
  <2> QED
    BY <1>1, <1>2, <2>1, <2>2, <2>3, <2>4, <2>5 DEF SteadyInv
<1> QED
  BY <1>4, <1>5, <1>6 DEF PhotoInv

\* A file that is removed for a report takes no file from a report that can be held
\* to its own.
LEMMA UnlinkSteady ==
  ASSUME PhotoInv, TypeOK', NEW r \in ReportIds, r \in erased, Unlink(r),
         UNCHANGED <<faults, collided, row, erased>>,
         \A v \in Uploads : \/ job'[v] = job[v] /\ upc'[v] = upc[v]
                            \/ upc'[v] = "idle" /\ ~linked[v],
         NEW q \in Steady', faults' = 0
  PROVE  SteadyInv(q)'
<1>1. q \in ReportIds /\ q \notin erased /\ q \notin usurped'
  BY DEF Steady
<1>2. q \in Steady /\ NameOf[q] # NameOf[r]
  BY <1>1 DEF Steady, Unlink, Sharing
<1>3. SteadyInv(q)
  BY <1>2 DEF PhotoInv
<1>4. file'[NameOf[q]] = file[NameOf[q]]
  BY <1>1, <1>2, NameOfReport DEF Unlink, PhotoInv, TypeOK
<1>5. \A v \in Uploads : /\ linked'[v] => linked[v] /\ job'[v] = job[v]
                         /\ NameOf[job[v]] = NameOf[q] => linked'[v] = linked[v]
                         /\ upc'[v] \in {"write", "record"} => job'[v] = job[v] /\ upc'[v] = upc[v]
  <2>1. \A v \in Uploads : linked'[v] = (linked[v] /\ NameOf[job[v]] # NameOf[r])
    BY DEF Unlink
  <2>2. \A v \in Uploads : linked[v] \in BOOLEAN
    BY DEF PhotoInv, TypeOK
  <2> QED
    BY <1>2, <2>1, <2>2
<1>6. (\A v \in Uploads : job'[v] = q => ~linked'[v]) => \A v \in Uploads : job[v] = q => ~linked[v]
  BY <1>5
<1> QED
  BY <1>3, <1>4, <1>5, <1>6 DEF SteadyInv

\* A file that loses its name belongs to a report that was taken down.
LEMMA RemovePhotoInv ==
  ASSUME PhotoInv, TypeOK', NEW u \in Uploads, RemovePhoto(u)
  PROVE  PhotoInv'
<1>a. PICK r \in ReportIds : r = job[u]
  BY DEF PhotoInv, TypeOK
<1>b. PICK n \in Names : n = NameOf[r]
  BY NameOfReport
<1>1. /\ upc[u] = "remove" /\ upc' = [upc EXCEPT ![u] = "idle"]
      /\ Unlink(r) /\ job' = [job EXCEPT ![u] = SomeReport]
      /\ file' = [file EXCEPT ![n] = "none"]
      /\ linked' = [v \in Uploads |-> linked[v] /\ NameOf[job[v]] # n]
      /\ UNCHANGED <<mixed, faults, collided, row, erased, tpc, target>>
  BY <1>a, <1>b DEF RemovePhoto, Unlink, Answer, UGoto, rvars, tvars
<1>2. /\ upc'[u] = "idle" /\ file'[n] = "none" /\ ~linked[u] /\ ~mixed[u]
      /\ \A v \in Uploads : v # u => upc'[v] = upc[v] /\ job'[v] = job[v]
      /\ \A m \in Names : m # n => file'[m] = file[m]
  BY <1>1 DEF PhotoInv, OpenInv, TypeOK
<1>3. TendedInv'
  BY <1>a, <1>b, <1>1, <1>2 DEF PhotoInv, TendedInv
<1>4. OpenInv'
  <2>1. \A v \in Uploads : linked'[v] => linked[v]
    BY <1>1
  <2>2. \A v \in Uploads : linked'[v] \/ mixed'[v] => v # u
    BY <1>1, <1>2, <2>1
  <2>3. \A v \in Uploads : upc'[v] # "idle" => v # u
    BY <1>2
  <2> QED
    BY <1>1, <1>2, <2>1, <2>2, <2>3 DEF PhotoInv, OpenInv
<1>5. ASSUME faults' = 0, NEW q \in Steady' PROVE SteadyInv(q)'
  <2>1. r \in erased
    BY <1>a, <1>1 DEF PhotoInv, OpenInv
  <2> QED
    BY <1>1, <1>2, <1>5, <2>1, UnlinkSteady
<1> QED
  BY <1>3, <1>4, <1>5 DEF PhotoInv

LEMMA FaultPhotoInv ==
  ASSUME PhotoInv, TypeOK',
         \/ Crash
         \/ \E u \in Uploads : WriteFails(u) \/ SetPhotoURLFails(u)
  PROVE  PhotoInv'
<1>1. faults' # 0
  BY DEF PhotoInv, TypeOK, Crash, WriteFails, SetPhotoURLFails
<1>2. OpenInv'
  <2>1. CASE Crash
    BY <2>1 DEF PhotoInv, OpenInv, TypeOK, Crash, rvars
  <2>2. ASSUME NEW u \in Uploads, WriteFails(u) PROVE OpenInv'
    BY <2>2 DEF PhotoInv, OpenInv, TypeOK, WriteFails, Answer, UGoto, rvars, tvars
  <2>3. ASSUME NEW u \in Uploads, SetPhotoURLFails(u) PROVE OpenInv'
    BY <2>3 DEF PhotoInv, OpenInv, TypeOK, SetPhotoURLFails, Answer, UGoto, rvars, tvars
  <2> QED
    BY <2>1, <2>2, <2>3
<1> QED
  BY <1>1, <1>2 DEF PhotoInv, TendedInv

LEMMA ErasePhotoInv ==
  ASSUME PhotoInv, TypeOK', NEW t \in Takedowns, EraseReport(t) \/ ErasePhoto(t)
  PROVE  PhotoInv'
<1>1. CASE EraseReport(t)
  <2>1. PICK r \in ReportIds : /\ row' = [row EXCEPT ![r] = NoRow]
                               /\ erased' = erased \union {r}
                               /\ target' = [target EXCEPT ![t] = r]
    BY <1>1 DEF EraseReport
  <2>2. /\ tpc[t] = "idle" /\ tpc' = [tpc EXCEPT ![t] = "unlink"]
        /\ UNCHANGED <<file, faults, upc, job, linked, mixed, collided, usurped>>
    BY <1>1 DEF EraseReport, uvars
  <2>3. /\ tpc'[t] = "unlink" /\ target'[t] = r
        /\ \A s \in Takedowns : s # t => tpc'[s] = tpc[s] /\ target'[s] = target[s]
        /\ \A q \in ReportIds : q # r => row'[q] = row[q]
        /\ \A u \in Uploads : job[u] \in ReportIds
    BY <2>1, <2>2 DEF PhotoInv, TypeOK
  <2>4. TendedInv'
    BY <2>1, <2>2, <2>3 DEF PhotoInv, TendedInv
  <2>5. OpenInv'
    BY <2>1, <2>2, <2>3 DEF PhotoInv, OpenInv
  <2>6. ASSUME faults' = 0, NEW q \in Steady' PROVE SteadyInv(q)'
    <3>1. SteadyInv(q) /\ q # r /\ q \in ReportIds
      BY <2>1, <2>2, <2>6 DEF PhotoInv, Steady
    <3> QED
      BY <2>2, <2>3, <3>1 DEF SteadyInv
  <2> QED
    BY <2>4, <2>5, <2>6 DEF PhotoInv
<1>2. CASE ErasePhoto(t)
  <2>a. PICK r \in ReportIds : r = target[t]
    BY DEF PhotoInv, TypeOK
  <2>b. PICK n \in Names : n = NameOf[r]
    BY NameOfReport
  <2>1. /\ tpc[t] = "unlink" /\ tpc' = [tpc EXCEPT ![t] = "idle"]
        /\ Unlink(r) /\ target' = [target EXCEPT ![t] = SomeReport]
        /\ file' = [file EXCEPT ![n] = "none"]
        /\ linked' = [v \in Uploads |-> linked[v] /\ NameOf[job[v]] # n]
        /\ UNCHANGED <<upc, job, mixed, collided, faults, row, erased>>
    BY <1>2, <2>a, <2>b DEF ErasePhoto, Unlink, rvars
  <2>2. /\ tpc'[t] = "idle" /\ file'[n] = "none"
        /\ \A s \in Takedowns : s # t => tpc'[s] = tpc[s] /\ target'[s] = target[s]
        /\ \A m \in Names : m # n => file'[m] = file[m]
    BY <2>1 DEF PhotoInv, TypeOK
  <2>3. r \in erased
    BY <2>a, <2>1 DEF PhotoInv, OpenInv
  <2>4. TendedInv'
    BY <2>a, <2>b, <2>1, <2>2 DEF PhotoInv, TendedInv
  <2>5. OpenInv'
    <3>1. \A v \in Uploads : linked'[v] => linked[v]
      BY <2>1
    <3>2. \A s \in Takedowns : tpc'[s] = "unlink" => target'[s] \in erased
      BY <2>1, <2>2 DEF PhotoInv, OpenInv
    <3> QED
      BY <2>1, <3>1, <3>2 DEF PhotoInv, OpenInv
  <2>6. ASSUME faults' = 0, NEW q \in Steady' PROVE SteadyInv(q)'
    BY <2>1, <2>3, <2>6, UnlinkSteady
  <2> QED
    BY <2>4, <2>5, <2>6 DEF PhotoInv
<1> QED
  BY <1>1, <1>2

LEMMA PhotoStep == PhotoInv /\ [Next]_vars => PhotoInv'
<1> SUFFICES ASSUME PhotoInv, [Next]_vars PROVE PhotoInv'
  OBVIOUS
<1>1. TypeOK'
  BY TypeStep DEF PhotoInv
<1>2. faults <= faults
  BY DEF PhotoInv, TypeOK
<1>3. ASSUME NEW r \in ReportIds, PostReport(r) PROVE PhotoInv'
  <2>1. /\ row[r] = NoRow /\ ~row'[r].photo
        /\ \A q \in ReportIds : q # r => row'[q] = row[q]
    BY <1>3 DEF PostReport, PhotoInv, TypeOK
  <2> QED
    BY <1>1, <1>2, <1>3, <2>1, SamePhotos DEF PostReport
<1>4. ASSUME NEW a \in Analysts, Decide(a) PROVE PhotoInv'
  BY <1>1, <1>2, <1>4, SamePhotos DEF Decide, rvars
<1>5. ASSUME NEW a \in Analysts, UpdateVerification(a) PROVE PhotoInv'
  <2>1. PICK r \in ReportIds : r = decision[a].of
    BY DecisionTypes DEF PhotoInv
  <2>2. /\ row[r] # NoRow
        /\ row' = [row EXCEPT ![r].verification = decision[a].to]
    BY <1>5, <2>1 DEF UpdateVerification
  <2>3. /\ row'[r] \in Row /\ row'[r].photo = row[r].photo
        /\ \A q \in ReportIds : q # r => row'[q] = row[q]
    <3>1. row[r] \in Row /\ decision[a].to \in Verifications
      BY <2>2, DecisionTypes DEF PhotoInv
    <3>2. row'[r] = [row[r] EXCEPT !.verification = decision[a].to]
      BY <2>2 DEF PhotoInv, TypeOK
    <3>3. [row[r] EXCEPT !.verification = decision[a].to] \in Row
      BY <3>1 DEF Row
    <3>4. row'[r].photo = row[r].photo
      BY <3>1, <3>2 DEF Row
    <3> QED
      BY <2>2, <3>2, <3>3, <3>4 DEF PhotoInv, TypeOK
  <2>4. row'[r] # NoRow
    BY <2>3, NoRowAssumption
  <2> QED
    BY <1>1, <1>2, <1>5, <2>2, <2>3, <2>4, SamePhotos DEF UpdateVerification
<1>6. CASE UNCHANGED vars
  BY <1>1, <1>2, <1>6, SamePhotos DEF vars, uvars, tvars
<1> QED
  BY <1>1, <1>3, <1>4, <1>5, <1>6, AuthorizePhotoInv, OpenPhotoInv, WritePhotoInv, RecordPhotoInv,
     RemovePhotoInv, FaultPhotoInv, ErasePhotoInv DEF Next, Quiescent, UploadStep

\* The inductive invariant of the photos.
THEOREM PhotoInvariant == Spec => []PhotoInv
BY InitPhotoInv, PhotoStep, PTL DEF Spec

\* Uploads and takedowns, any number of them in any order, leave no photo without
\* a report that refers to it, as long as nothing fails.
THEOREM NoOrphanPhotoAlways == Spec => []NoOrphanPhoto
<1>1. PhotoInv => NoOrphanPhoto
  BY DEF PhotoInv, TendedInv, NoOrphanPhoto, Idle
<1> QED
  BY <1>1, PhotoInvariant, PTL

\* A photo on record is a whole file, but while it is being replaced, for a report
\* that was never taken down, whose uploads did not overlap and whose file no report
\* of the same file name has opened or removed since.
THEOREM RecordedPhotoIsWholeAlways == Spec => []RecordedPhotoIsWhole
<1>1. PhotoInv => RecordedPhotoIsWhole
  <2> SUFFICES ASSUME PhotoInv, NEW r \in ReportIds \ (erased \union usurped),
                      faults = 0, NameOf[r] \notin collided,
                      \A u \in Uploads : job[u] = r => upc[u] # "write",
                      row[r] # NoRow, row[r].photo
               PROVE  file[NameOf[r]] = "whole"
    BY DEF RecordedPhotoIsWhole
  <2>1. SteadyInv(r)
    BY DEF PhotoInv, Steady
  <2>2. \A u \in Uploads : job[u] = r => ~linked[u]
    BY DEF PhotoInv, OpenInv
  <2> QED
    BY <2>1, <2>2 DEF SteadyInv
<1> QED
  BY <1>1, PhotoInvariant, PTL
==============================================================================
