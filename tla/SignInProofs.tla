----------------------------- MODULE SignInProofs ----------------------------
(***************************************************************************)
(* A factor that is on has a secret, the analyst has it, and only a server *)
(* that can open a factor clears it or turns it on: for any number of      *)
(* tabs, keys, enrolments and restarts.  What makes the properties         *)
(* inductive is what a request between its check and its write may count   *)
(* on: the secret it checked is still in the row, or none is, or one that  *)
(* was enrolled while it was there; and the server opens whichever it is.  *)
(***************************************************************************)
EXTENDS SignIn, TLAPS

\* A request that is about to write has checked a code of the analyst's app.
CheckedInApp == \A t \in Tabs : pc[t] # "idle" => code[t] \in app

\* The secret in the row is the one it checked, unless it was replaced.
CheckedOrCrossed ==
  \A t \in Tabs :
    pc[t] # "idle" /\ secret # NoSecret => code[t] = secret \/ pc[t] \in crossed[secret]

\* Whatever the row holds by the time a request writes, the server can open it.
OpensWhatItChecked ==
  \A t \in Tabs : pc[t] # "idle" => key # NoKey /\ (secret # NoSecret => sealedBy[secret] = key)

\* The next enrolment makes a secret nobody has.
OnlyMade == secret <= made /\ \A s \in app : s <= made

\* A secret that is on is in the app unless its enrolment crossed a verification.
OnIsInApp == enabled /\ "enable" \notin crossed[secret] => secret \in app

SInv == /\ TypeOK
        /\ enabled => secret # NoSecret
        /\ CheckedInApp
        /\ CheckedOrCrossed
        /\ OpensWhatItChecked
        /\ OnlyMade
        /\ OnIsInApp

LEMMA InitSInv == Init => SInv
<1> SUFFICES ASSUME Init PROVE SInv
  OBVIOUS
<1> USE SignInAssumption DEF Init, Secrets, NoSecret
<1>1. TypeOK
  <2>1. made \in 0 .. MaxSecrets /\ restarts \in 0 .. MaxRestarts
    BY SMT
  <2>2. /\ sealedBy \in [Secrets -> Keys \union {NoKey}]
        /\ crossed \in [Secrets -> SUBSET {"idle", "enable", "clear"}]
    OBVIOUS
  <2>3. /\ pc \in [Tabs -> {"idle", "enable", "clear"}]
        /\ code \in [Tabs -> Secrets \union {NoSecret}]
    OBVIOUS
  <2> QED
    BY <2>1, <2>2, <2>3 DEF TypeOK
<1>2. CheckedInApp /\ CheckedOrCrossed /\ OpensWhatItChecked /\ OnlyMade /\ OnIsInApp /\ ~enabled
  BY DEF CheckedInApp, CheckedOrCrossed, OpensWhatItChecked, OnlyMade, OnIsInApp
<1> QED
  BY <1>1, <1>2 DEF SInv

\* Requests that leave the row alone.
LEMMA ReadStep ==
  ASSUME SInv, NEW t \in Tabs, NEW c \in app \union {NoSecret},
         \/ Login(t, c) \/ Expire(t) \/ CheckVerify(t, c) \/ CheckDisable(t, c) \/ Fail(t)
  PROVE  SInv'
<1> USE SignInAssumption
    DEF SInv, TypeOK, CheckedInApp, CheckedOrCrossed, OpensWhatItChecked, OnlyMade, OnIsInApp, Secrets, NoSecret, Valid
<1>1. CASE Login(t, c)
  <2>1. signedIn' \subseteq Tabs
    BY <1>1 DEF Login
  <2> QED
    BY <1>1, <2>1 DEF Login, row, request
<1>5. CASE Expire(t)
  BY <1>5 DEF Expire, row, request
<1>2. CASE CheckVerify(t, c)
  BY <1>2 DEF CheckVerify, row
<1>3. CASE CheckDisable(t, c)
  BY <1>3 DEF CheckDisable, row
<1>4. CASE Fail(t)
  BY <1>4 DEF Fail, Answered, row
<1> QED
  BY <1>1, <1>2, <1>3, <1>4, <1>5

\* An enrolment: whoever is about to write is recorded as crossed by it.
LEMMA EnrollStep ==
  ASSUME SInv, NEW t \in Tabs, Enroll(t)
  PROVE  SInv'
<1> USE SignInAssumption DEF Enroll, SetMFAPending, Secrets, NoSecret, request
<1>1. /\ secret' = made + 1 /\ ~enabled' /\ made' = made + 1 /\ made' \in Secrets
      /\ app' \subseteq app \union {made + 1} /\ app \subseteq app'
  BY DEF SInv, TypeOK
<1>2. TypeOK'
  <2>1. crossed' \in [Secrets -> SUBSET {"idle", "enable", "clear"}]
    <3>1. {pc[u] : u \in Tabs} \subseteq {"idle", "enable", "clear"}
      BY DEF SInv, TypeOK
    <3> QED
      BY <3>1 DEF SInv, TypeOK
  <2>2. sealedBy' \in [Secrets -> Keys \union {NoKey}]
    BY <1>1 DEF SInv, TypeOK
  <2>3. made' \in 0 .. MaxSecrets /\ secret' \in Secrets
    BY <1>1 DEF SInv, TypeOK
  <2>4. app' \subseteq Secrets
    BY <1>1 DEF SInv, TypeOK
  <2> QED
    BY <1>1, <2>1, <2>2, <2>3, <2>4 DEF SInv, TypeOK
<1>3. crossed'[secret'] = {pc[u] : u \in Tabs}
  BY <1>1 DEF SInv, TypeOK
<1>4. CheckedInApp' /\ CheckedOrCrossed'
  BY <1>1, <1>3 DEF SInv, CheckedInApp, CheckedOrCrossed
<1>6. OpensWhatItChecked'
  BY <1>1 DEF SInv, TypeOK, OpensWhatItChecked
<1>5. OnlyMade' /\ OnIsInApp'
  BY <1>1 DEF SInv, TypeOK, OnlyMade, OnIsInApp
<1> QED
  BY <1>1, <1>2, <1>4, <1>5, <1>6 DEF SInv

\* The two writes of the flag.
LEMMA WriteStep ==
  ASSUME SInv, NEW t \in Tabs, EnableMFA(t) \/ DisableMFA(t)
  PROVE  SInv'
<1> USE SignInAssumption
    DEF SInv, TypeOK, CheckedInApp, CheckedOrCrossed, OpensWhatItChecked, OnlyMade, OnIsInApp, Secrets, NoSecret, Answered
<1>1. CASE EnableMFA(t)
  BY <1>1 DEF EnableMFA
<1>2. CASE DisableMFA(t)
  <2>1. secret' = NoSecret /\ enabled' = FALSE /\ UNCHANGED <<app, made, crossed>>
    BY <1>2 DEF DisableMFA
  <2>2. TypeOK'
    BY <1>2, <2>1 DEF DisableMFA
  <2>3. CheckedInApp'
    BY <1>2 DEF DisableMFA
  <2>4. OpensWhatItChecked'
    BY <1>2, <2>1 DEF DisableMFA, OpensWhatItChecked
  <2> QED
    BY <2>1, <2>2, <2>3, <2>4
<1> QED
  BY <1>1, <1>2

LEMMA RestartStep ==
  ASSUME SInv, NEW k \in Keys \union {NoKey}, Restart(k)
  PROVE  SInv'
BY SignInAssumption
   DEF Restart, row, SInv, TypeOK, CheckedInApp, CheckedOrCrossed, OpensWhatItChecked, OnlyMade, OnIsInApp, Secrets, NoSecret

\* The inductive invariant of the account.
THEOREM SignInInvariant == Spec => []SInv
<1>1. SInv /\ UNCHANGED vars => SInv'
  BY DEF vars, row, request, SInv, TypeOK, CheckedInApp, CheckedOrCrossed, OpensWhatItChecked, OnlyMade, OnIsInApp
<1>2. SInv /\ [Next]_vars => SInv'
  BY <1>1, ReadStep, EnrollStep, WriteStep, RestartStep DEF Next
<1> QED
  BY <1>2, InitSInv, PTL DEF Spec

\* A factor that is on has a secret.
THEOREM EnabledHasSecretAlways == Spec => []EnabledHasSecret
<1>1. SInv => EnabledHasSecret
  BY DEF SInv, EnabledHasSecret
<1> QED
  BY <1>1, SignInInvariant, PTL

\* The analyst has the secret of a factor that is on, unless its enrolment came
\* between the check and the write of a verification.
THEOREM NotLockedOutAlways == Spec => []NotLockedOut
<1>1. SInv => NotLockedOut
  BY DEF SInv, OnIsInApp, NotLockedOut
<1> QED
  BY <1>1, SignInInvariant, PTL

\* Only a server that can open a factor clears it or turns it on.
THEOREM WritesOnlyWhatItCanOpenAlways == Spec => WritesOnlyWhatItCanOpen
<1> DEFINE Opened == /\ secret # NoSecret /\ secret' = NoSecret => sealedBy[secret] = key
                     /\ ~enabled /\ enabled' => sealedBy[secret'] = key
<1>1. ASSUME SInv, [Next]_vars
      PROVE  Opened
  <2>1. CASE UNCHANGED vars
    BY <2>1 DEF vars, row
  <2>2. CASE \E t \in Tabs : \E c \in app \union {NoSecret} :
               \/ Login(t, c) \/ CheckVerify(t, c) \/ CheckDisable(t, c) \/ Expire(t) \/ Fail(t)
    BY <2>2 DEF Login, CheckVerify, CheckDisable, Expire, Fail, row
  <2>3. CASE \E t \in Tabs : Enroll(t)
    <3>1. PICK t \in Tabs : Enroll(t)
      BY <2>3
    <3>2. secret' = made + 1 /\ ~enabled' /\ made \in Nat
      BY <1>1, <3>1 DEF Enroll, SetMFAPending, SInv, TypeOK
    <3>3. secret' # NoSecret
      BY <3>2 DEF NoSecret
    <3> QED
      BY <3>2, <3>3
  <2>4. CASE \E t \in Tabs : EnableMFA(t)
    <3>1. PICK t \in Tabs : EnableMFA(t)
      BY <2>4
    <3> QED
      BY <1>1, <3>1 DEF EnableMFA, SInv, TypeOK, OpensWhatItChecked
  <2>6. CASE \E t \in Tabs : DisableMFA(t)
    <3>1. PICK t \in Tabs : DisableMFA(t)
      BY <2>6
    <3> QED
      BY <1>1, <3>1 DEF DisableMFA, SInv, OpensWhatItChecked
  <2>5. CASE \E k \in Keys \union {NoKey} : Restart(k)
    BY <2>5 DEF Restart, row
  <2> QED
    BY <1>1, <2>1, <2>2, <2>3, <2>4, <2>5, <2>6 DEF Next
<1> QED
  BY <1>1, SignInInvariant, PTL DEF Spec, WritesOnlyWhatItCanOpen
==============================================================================
