-------------------------------- MODULE SignIn -------------------------------
(***************************************************************************)
(* One analyst's account and its second factor: the columns mfa_secret and *)
(* mfa_enabled, which several tabs of the analyst enrol, verify and        *)
(* disable at the same time, and the logins that read them.  A verify and  *)
(* a disable read the row, check a code against what they read, and write  *)
(* in a statement of their own.  Passwords are right; a code is the secret *)
(* it was computed from, or NoSecret for one that no secret has produced.  *)
(***************************************************************************)
EXTENDS Naturals, FiniteSets

CONSTANTS
  Tabs,         \* sessions of the analyst
  Keys, NoKey,  \* values of DATA_ENCRYPTION_KEY; none, or of the wrong length
  MaxSecrets,   \* bound: enrolments
  MaxRestarts   \* bound: restarts of the server

Secrets == 1 .. MaxSecrets
NoSecret == 0

ASSUME SignInAssumption == /\ IsFiniteSet(Tabs) /\ NoKey \notin Keys
                           /\ MaxSecrets \in Nat /\ MaxRestarts \in Nat

VARIABLES
  secret,    \* the TOTP secret sealed in mfa_secret, NoSecret for NULL
  enabled,   \* mfa_enabled
  sealedBy,  \* sealedBy[s]: the key that secret s was sealed with
  key,       \* the key the server runs with
  app,       \* the secrets in the analyst's authenticator app
  pc,        \* pc[t]: what the request of tab t does next
  code,      \* code[t]: the code it carries, which the check has accepted
  signedIn,  \* the tabs whose token is valid
  made,      \* enrolments so far
  restarts,  \* restarts so far
  crossed    \* crossed[s]: what other requests were about to write when s was enrolled

row == <<secret, enabled, sealedBy>>
request == <<pc, code>>
vars == <<row, key, app, request, signedIn, made, restarts, crossed>>

Init == /\ secret = NoSecret /\ enabled = FALSE
        /\ sealedBy = [s \in Secrets |-> NoKey]
        /\ key \in Keys \union {NoKey}
        /\ app = {}
        /\ pc = [t \in Tabs |-> "idle"]
        /\ code = [t \in Tabs |-> NoSecret]
        /\ signedIn = {}
        /\ made = 0 /\ restarts = 0
        /\ crossed = [s \in Secrets |-> {}]

\* OpenString and ValidateTOTP: the blob opens under the key that sealed it, and
\* the code is one of the secret in it.
Valid(s, c) == s # NoSecret /\ key # NoKey /\ sealedBy[s] = key /\ c = s

------------------------------------------------------------------------------

\* POST /auth/login, which reads the row once: no token without a valid code as
\* long as the factor is on.
Login(t, c) ==
  /\ pc[t] = "idle" /\ t \notin signedIn
  /\ IF ~enabled \/ Valid(secret, c) THEN signedIn' = signedIn \union {t} ELSE UNCHANGED signedIn
  /\ UNCHANGED <<row, key, app, request, made, restarts, crossed>>

\* The token has expired, or the tab is closed.
Expire(t) ==
  /\ pc[t] = "idle" /\ t \in signedIn
  /\ signedIn' = signedIn \ {t}
  /\ UNCHANGED <<row, key, app, request, made, restarts, crossed>>

\* Mutant: a new secret leaves the flag alone.
SetMFAPendingKeepingFlag(s) == secret' = s /\ UNCHANGED enabled

\* UPDATE users SET mfa_secret, mfa_enabled = false.
SetMFAPending(s) == secret' = s /\ enabled' = FALSE

\* POST /auth/mfa/enroll: a new secret, which the analyst's app gets to know if
\* the answer arrives.
Enroll(t) ==
  /\ pc[t] = "idle" /\ t \in signedIn
  /\ key # NoKey /\ made < MaxSecrets
  /\ made' = made + 1
  /\ SetMFAPending(made + 1)
  /\ sealedBy' = [sealedBy EXCEPT ![made + 1] = key]
  /\ \/ app' = app \union {made + 1}
     \/ UNCHANGED app
  /\ crossed' = [crossed EXCEPT ![made + 1] = {pc[u] : u \in Tabs}]
  /\ UNCHANGED <<key, request, signedIn, restarts>>

\* POST /auth/mfa/verify up to its read and the check of the code: refused, or
\* about to enable.
CheckVerify(t, c) ==
  /\ pc[t] = "idle" /\ t \in signedIn
  /\ Valid(secret, c)
  /\ pc' = [pc EXCEPT ![t] = "enable"]
  /\ code' = [code EXCEPT ![t] = c]
  /\ UNCHANGED <<row, key, app, signedIn, made, restarts, crossed>>

\* Mutant: a blob that does not open is cleared without asking.
CheckDisableUnopened(t, c) ==
  /\ pc[t] = "idle" /\ t \in signedIn
  /\ enabled /\ secret # NoSecret /\ (sealedBy[secret] = key => c = secret)
  /\ pc' = [pc EXCEPT ![t] = "clear"]
  /\ code' = [code EXCEPT ![t] = c]
  /\ UNCHANGED <<row, key, app, signedIn, made, restarts, crossed>>

\* POST /auth/mfa/disable likewise; without a factor there is nothing to do.
CheckDisable(t, c) ==
  /\ pc[t] = "idle" /\ t \in signedIn
  /\ enabled /\ Valid(secret, c)
  /\ pc' = [pc EXCEPT ![t] = "clear"]
  /\ code' = [code EXCEPT ![t] = c]
  /\ UNCHANGED <<row, key, app, signedIn, made, restarts, crossed>>

Answered(t) == /\ pc' = [pc EXCEPT ![t] = "idle"]
               /\ code' = [code EXCEPT ![t] = NoSecret]

\* Mutant: the row is enabled whatever it holds by now.
EnableMFAUnguarded(t) ==
  /\ pc[t] = "enable"
  /\ enabled' = TRUE
  /\ Answered(t)
  /\ UNCHANGED <<secret, sealedBy, key, app, signedIn, made, restarts, crossed>>

\* UPDATE users SET mfa_enabled = true WHERE mfa_secret IS NOT NULL.
EnableMFA(t) ==
  /\ pc[t] = "enable"
  /\ enabled' = (enabled \/ secret # NoSecret)
  /\ Answered(t)
  /\ UNCHANGED <<secret, sealedBy, key, app, signedIn, made, restarts, crossed>>

\* UPDATE users SET mfa_secret = NULL, mfa_enabled = false.
DisableMFA(t) ==
  /\ pc[t] = "clear"
  /\ secret' = NoSecret /\ enabled' = FALSE
  /\ Answered(t)
  /\ UNCHANGED <<sealedBy, key, app, signedIn, made, restarts, crossed>>

\* The write fails, or the request is cancelled before it.
Fail(t) == /\ pc[t] # "idle"
           /\ Answered(t)
           /\ UNCHANGED <<row, key, app, signedIn, made, restarts, crossed>>

\* The server comes back with another key, or without one; tokens stay valid.
Restart(k) ==
  /\ restarts < MaxRestarts
  /\ restarts' = restarts + 1
  /\ key' = k
  /\ pc' = [t \in Tabs |-> "idle"]
  /\ code' = [t \in Tabs |-> NoSecret]
  /\ UNCHANGED <<row, app, signedIn, made, crossed>>

Next == \/ \E t \in Tabs : \/ \E c \in app \union {NoSecret} :
                                Login(t, c) \/ CheckVerify(t, c) \/ CheckDisable(t, c)
                           \/ Expire(t) \/ Enroll(t) \/ EnableMFA(t) \/ DisableMFA(t) \/ Fail(t)
        \/ \E k \in Keys \union {NoKey} : Restart(k)

Spec == Init /\ [][Next]_vars

------------------------------------------------------------------------------
(* Properties *)

TypeOK ==
  /\ secret \in Secrets \union {NoSecret} /\ enabled \in BOOLEAN
  /\ sealedBy \in [Secrets -> Keys \union {NoKey}]
  /\ key \in Keys \union {NoKey}
  /\ app \subseteq Secrets
  /\ pc \in [Tabs -> {"idle", "enable", "clear"}]
  /\ code \in [Tabs -> Secrets \union {NoSecret}]
  /\ signedIn \subseteq Tabs
  /\ made \in 0 .. MaxSecrets /\ restarts \in 0 .. MaxRestarts
  /\ crossed \in [Secrets -> SUBSET {"idle", "enable", "clear"}]

\* A factor that is on has a secret, also when a disable comes between the check
\* and the write of a verify: otherwise no code would ever be right.
EnabledHasSecret == TypeOK /\ (enabled => secret # NoSecret)

\* The analyst is not locked out: a factor that is on, and whose secret the server
\* can open, is in the analyst's app, unless it was enrolled between the check and
\* the write of a verify, which then turned on a secret it had not checked.
NotLockedOut ==
  enabled /\ sealedBy[secret] = key /\ "enable" \notin crossed[secret] => secret \in app

\* A factor is cleared, and turned on, only while the server runs with the key that
\* sealed it, also when the server has come back with another key and the request
\* was checked before an enrolment: a wrong or missing DATA_ENCRYPTION_KEY loses
\* nobody's factor, and turns on none whose codes every login would refuse.
WritesOnlyWhatItCanOpen ==
  [][/\ secret # NoSecret /\ secret' = NoSecret => sealedBy[secret] = key
     /\ ~enabled /\ enabled' => sealedBy[secret'] = key]_vars
==============================================================================
