----------------------------- MODULE AdminAuth -----------------------------
(***************************************************************************)
(* How an owner gets into the panel: identities with their second factor,   *)
(* the challenges a login leads to, enrolment, verification, sessions, and  *)
(* the request that switches the second factor off for all owners.          *)
(*                                                                         *)
(* A login reads the identity, counts the owners, records the identity and  *)
(* then issues a challenge or a session.  Answering a challenge reads it,   *)
(* reads or writes the identity, deletes the challenge and issues the       *)
(* session.  Every one of these is a transaction of its own, and requests   *)
(* run in threads: each is a step here.                                     *)
(*                                                                         *)
(* A secret is a number, in the order in which secrets are drawn.  A code   *)
(* is the secret it was computed from; an owner can only enter codes of     *)
(* secrets that were shown to that owner, and may mistype.  A challenge     *)
(* that has expired is one that is gone: every reader treats it so.         *)
(* Moderators and viewers get a session without a challenge and may not do  *)
(* what needs one; they are left out.                                       *)
(***************************************************************************)
EXTENDS Integers, FiniteSets

CONSTANTS
  Owners,        \* subjects with the role owner
  Bypassing,     \* the local owner, if PANEL_LOCAL_BYPASS_TOTP may be set
  Requests,      \* the requests under way at once
  MaxSecrets,    \* bound: secrets drawn
  MaxChallenges, \* bound: challenges issued
  MaxResets      \* bound: times the second factor is switched off

ASSUME AuthAssumption ==
  /\ Bypassing \subseteq Owners
  /\ MaxSecrets \in Nat /\ MaxChallenges \in Nat /\ MaxResets \in Nat

VARIABLES
  identity,      \* admin_identities, by subject
  challenges,    \* admin_totp_challenges, by token; NoChallenge when gone
  sessions,      \* admin_sessions
  req,           \* each request: where it stands and what it carries
  drawn,         \* secrets drawn so far
  issued,        \* challenges issued so far
  resets,        \* times the second factor was switched off
  shown,         \* history: the secrets each owner was shown
  born,          \* history: the number of resets when a secret was drawn
  overtaken,     \* history: did a reset fall inside a confirmation?
  undercut       \* history: did a challenge go while its secret was on the
                 \*   way to the owner?

storeVars == <<identity, challenges, sessions>>
boundVars == <<drawn, issued, resets>>
historyVars == <<shown, born, overtaken, undercut>>
vars == <<storeVars, req, boundVars, historyVars>>

-----------------------------------------------------------------------------
(* Rows and requests *)

NoSecret == 0
Mistyped == -1
Secrets == 1..MaxSecrets
Tokens == 1..MaxChallenges

Identity == [known : BOOLEAN, enabled : BOOLEAN, secret : {NoSecret} \cup Secrets]
Unknown == [known |-> FALSE, enabled |-> FALSE, secret |-> NoSecret]

NoChallenge == [kind |-> "none"]
Challenge == [kind : {"setup", "verify"}, owner : Owners,
              secret : {NoSecret} \cup Secrets]

Session == [owner : Owners, verified : BOOLEAN]

Idle == [at |-> "idle"]
Logins == [at : {"summary"}, owner : Owners, enabled : BOOLEAN]
          \cup [at : {"record"}, owner : Owners,
                mode : {"verify", "setup", "disabled"}]
          \cup [at : {"challenge"}, owner : Owners, kind : {"setup", "verify"}]
          \cup [at : {"session"}, owner : Owners, verified : BOOLEAN]
Answers == [at : {"store", "reread"}, owner : Owners, token : Tokens, secret : Secrets]
           \cup [at : {"enable"}, owner : Owners, token : Tokens,
                 secret : Secrets, code : {Mistyped} \cup Secrets]
           \cup [at : {"identity"}, owner : Owners, token : Tokens,
                 code : {Mistyped} \cup Secrets]
           \cup [at : {"consume"}, owner : Owners, token : Tokens]
Resets == [at : {"owners"}, verified : BOOLEAN] \cup [at : {"disable"}]
Request == {Idle} \cup Logins \cup Answers \cup Resets

Present(t) == challenges[t] # NoChallenge
EnabledOwners == {o \in Owners : identity[o].enabled}

\* verify_totp_code: the code was computed from this secret.
Matches(secret, code) == secret # NoSecret /\ code = secret

\* Is the secret of this challenge stored and not yet returned to its owner?
OnItsWay(t) == \E r \in Requests : req[r].at = "reread" /\ req[r].token = t

Init ==
  /\ identity = [o \in Owners |-> Unknown]
  /\ challenges = [t \in Tokens |-> NoChallenge]
  /\ sessions = {}
  /\ req = [r \in Requests |-> Idle]
  /\ drawn = 0 /\ issued = 0 /\ resets = 0
  /\ shown = [o \in Owners |-> {}]
  /\ born = [s \in Secrets |-> 0]
  /\ overtaken = FALSE /\ undercut = FALSE

-----------------------------------------------------------------------------
(* Login: _resolve_success_or_totp behind both ways to log in. *)

\* The password or the Telegram signature was right; _owner_totp_policy reads
\* the identity.
Login(r, o) ==
  /\ req[r] = Idle
  /\ req' = [req EXCEPT ![r] = [at |-> "summary", owner |-> o,
                                enabled |-> identity[o].enabled]]
  /\ UNCHANGED <<storeVars, boundVars, historyVars>>

\* With the bypass, which the env file may gain or lose at any time, the session
\* counts as verified and nothing is recorded.
BypassLogin(r, o) ==
  /\ req[r] = Idle
  /\ o \in Bypassing
  /\ req' = [req EXCEPT ![r] = [at |-> "session", owner |-> o, verified |-> TRUE]]
  /\ UNCHANGED <<storeVars, boundVars, historyVars>>

Policy(enabled) ==
  IF enabled THEN "verify"
  ELSE IF \E o \in Owners : identity[o].known /\ EnabledOwners = {}
  THEN "disabled"
  ELSE "setup"

ReadSummary(r) ==
  /\ req[r].at = "summary"
  /\ req' = [req EXCEPT ![r] = [at |-> "record", owner |-> req[r].owner,
                                mode |-> Policy(req[r].enabled)]]
  /\ UNCHANGED <<storeVars, boundVars, historyVars>>

\* Mutant: a login that finds the subject overwrites its stored secret.
RecordOverwriting(r) ==
  /\ req[r].at = "record"
  /\ identity' = [identity EXCEPT ![req[r].owner].known = TRUE,
                                  ![req[r].owner].secret = NoSecret]
  /\ req' = [req EXCEPT ![r] =
       IF req[r].mode = "disabled"
       THEN [at |-> "session", owner |-> req[r].owner, verified |-> FALSE]
       ELSE [at |-> "challenge", owner |-> req[r].owner, kind |-> req[r].mode]]
  /\ UNCHANGED <<challenges, sessions, boundVars, historyVars>>

\* upsert_identity keeps the second factor of a subject it knows.
Record(r) ==
  /\ req[r].at = "record"
  /\ identity' = [identity EXCEPT ![req[r].owner].known = TRUE]
  /\ req' = [req EXCEPT ![r] =
       IF req[r].mode = "disabled"
       THEN [at |-> "session", owner |-> req[r].owner, verified |-> FALSE]
       ELSE [at |-> "challenge", owner |-> req[r].owner, kind |-> req[r].mode]]
  /\ UNCHANGED <<challenges, sessions, boundVars, historyVars>>

IssueChallenge(r) ==
  /\ req[r].at = "challenge"
  /\ issued < MaxChallenges
  /\ issued' = issued + 1
  /\ challenges' = [challenges EXCEPT ![issued + 1] =
       [kind |-> req[r].kind, owner |-> req[r].owner, secret |-> NoSecret]]
  /\ req' = [req EXCEPT ![r] = Idle]
  /\ UNCHANGED <<identity, sessions, drawn, resets, historyVars>>

IssueSession(r) ==
  /\ req[r].at = "session"
  /\ sessions' = sessions \cup {[owner |-> req[r].owner, verified |-> req[r].verified]}
  /\ req' = [req EXCEPT ![r] = Idle]
  /\ UNCHANGED <<identity, challenges, boundVars, historyVars>>

-----------------------------------------------------------------------------
(* Enrolment: totp_setup shows a secret, totp_confirm_setup stores it. *)

\* The challenge has a secret already: it is shown again.
ShowAgain(r, t) ==
  /\ req[r] = Idle
  /\ Present(t) /\ challenges[t].kind = "setup" /\ challenges[t].secret # NoSecret
  /\ shown' = [shown EXCEPT ![challenges[t].owner] = @ \cup {challenges[t].secret}]
  /\ UNCHANGED <<storeVars, req, boundVars, born, overtaken, undercut>>

DrawSecret(r, t) ==
  /\ req[r] = Idle
  /\ Present(t) /\ challenges[t].kind = "setup" /\ challenges[t].secret = NoSecret
  /\ drawn < MaxSecrets
  /\ drawn' = drawn + 1
  /\ born' = [born EXCEPT ![drawn + 1] = resets]
  /\ req' = [req EXCEPT ![r] = [at |-> "store", owner |-> challenges[t].owner,
                                token |-> t, secret |-> drawn + 1]]
  /\ UNCHANGED <<storeVars, issued, resets, shown, overtaken, undercut>>

\* The UPDATE of update_totp_challenge_secret; it may find no row.
StoreSecret(r) ==
  /\ req[r].at = "store"
  /\ challenges' = [challenges EXCEPT ![req[r].token] =
       IF Present(req[r].token) THEN [@ EXCEPT !.secret = req[r].secret] ELSE @]
  /\ req' = [req EXCEPT ![r] = [@ EXCEPT !.at = "reread"]]
  /\ UNCHANGED <<identity, sessions, boundVars, historyVars>>

\* It reads the row again and raises if there is none; the answer carries the
\* secret that was drawn, not the one that was read.
ShowSecret(r) ==
  /\ req[r].at = "reread"
  /\ shown' = IF Present(req[r].token)
              THEN [shown EXCEPT ![req[r].owner] = @ \cup {req[r].secret}]
              ELSE shown
  /\ req' = [req EXCEPT ![r] = Idle]
  /\ UNCHANGED <<storeVars, boundVars, born, overtaken, undercut>>

Codes(o) == {Mistyped} \cup shown[o]

ConfirmRead(r, t) ==
  /\ req[r] = Idle
  /\ Present(t) /\ challenges[t].kind = "setup" /\ challenges[t].secret # NoSecret
  /\ \E c \in Codes(challenges[t].owner) :
       req' = [req EXCEPT ![r] = [at |-> "enable", owner |-> challenges[t].owner,
                                  token |-> t, secret |-> challenges[t].secret,
                                  code |-> c]]
  /\ UNCHANGED <<storeVars, boundVars, historyVars>>

\* The secret is stored and the second factor enabled before the code is
\* looked at: a wrong code is refused and leaves it enabled.
Enable(r) ==
  /\ req[r].at = "enable"
  /\ identity' = [identity EXCEPT ![req[r].owner].enabled = TRUE,
                                  ![req[r].owner].secret = req[r].secret]
  /\ req' = [req EXCEPT ![r] =
       IF Matches(req[r].secret, req[r].code)
       THEN [at |-> "consume", owner |-> req[r].owner, token |-> req[r].token]
       ELSE Idle]
  /\ UNCHANGED <<challenges, sessions, boundVars, historyVars>>

-----------------------------------------------------------------------------
(* Verification, and what follows a right code of either kind. *)

VerifyRead(r, t) ==
  /\ req[r] = Idle
  /\ Present(t) /\ challenges[t].kind = "verify"
  /\ \E c \in Codes(challenges[t].owner) :
       req' = [req EXCEPT ![r] = [at |-> "identity", owner |-> challenges[t].owner,
                                  token |-> t, code |-> c]]
  /\ UNCHANGED <<storeVars, boundVars, historyVars>>

VerifyCode(r) ==
  /\ req[r].at = "identity"
  /\ req' = [req EXCEPT ![r] =
       IF /\ identity[req[r].owner].enabled
          /\ Matches(identity[req[r].owner].secret, req[r].code)
       THEN [at |-> "consume", owner |-> req[r].owner, token |-> req[r].token]
       ELSE Idle]
  /\ UNCHANGED <<storeVars, boundVars, historyVars>>

\* delete_totp_challenge deletes what may be gone already: two right answers
\* to one challenge both get a session.
Consume(r) ==
  /\ req[r].at = "consume"
  /\ challenges' = [challenges EXCEPT ![req[r].token] = NoChallenge]
  /\ req' = [req EXCEPT ![r] = [at |-> "session", owner |-> req[r].owner,
                                verified |-> TRUE]]
  /\ undercut' = (undercut \/ (Present(req[r].token) /\ OnItsWay(req[r].token)))
  /\ UNCHANGED <<identity, sessions, boundVars, shown, born, overtaken>>

\* CHALLENGE_TTL_SECONDS have passed.
Lapse(t) ==
  /\ Present(t)
  /\ challenges' = [challenges EXCEPT ![t] = NoChallenge]
  /\ undercut' = (undercut \/ OnItsWay(t))
  /\ UNCHANGED <<identity, sessions, req, boundVars, shown, born, overtaken>>

-----------------------------------------------------------------------------
(* Sessions, and the request that needs a verified one. *)

\* Logout deletes a session, and so, for every reader, does its end.
EndSession(s) ==
  /\ s \in sessions
  /\ sessions' = sessions \ {s}
  /\ UNCHANGED <<identity, challenges, req, boundVars, historyVars>>

\* get_session trusts the stored flag only while the identity is enrolled, or
\* is not there at all.
StillVerified(s) ==
  s.verified /\ (identity[s.owner].known => identity[s.owner].enabled)

\* POST /auth/totp/disable-all: the session is read ...
AskReset(r, s) ==
  /\ req[r] = Idle
  /\ s \in sessions
  /\ req' = [req EXCEPT ![r] = [at |-> "owners", verified |-> StillVerified(s)]]
  /\ UNCHANGED <<storeVars, boundVars, historyVars>>

\* ... then require_permission counts the enrolled owners ...
AllowReset(r) ==
  /\ req[r].at = "owners"
  /\ req' = [req EXCEPT ![r] =
       IF EnabledOwners # {} /\ ~req[r].verified THEN Idle ELSE [at |-> "disable"]]
  /\ UNCHANGED <<storeVars, boundVars, historyVars>>

\* Mutant: the challenges are left to expire.
DisableIdentitiesOnly(r) ==
  /\ req[r].at = "disable"
  /\ resets < MaxResets
  /\ resets' = resets + 1
  /\ identity' = [o \in Owners |-> [identity[o] EXCEPT !.enabled = FALSE,
                                                       !.secret = NoSecret]]
  /\ req' = [req EXCEPT ![r] = Idle]
  /\ overtaken' = (overtaken \/ \E q \in Requests : req[q].at = "enable")
  /\ UNCHANGED <<challenges, sessions, drawn, issued, shown, born, undercut>>

\* ... and disable_totp_for_role clears identities and challenges at once.
Disable(r) ==
  /\ req[r].at = "disable"
  /\ resets < MaxResets
  /\ resets' = resets + 1
  /\ identity' = [o \in Owners |-> [identity[o] EXCEPT !.enabled = FALSE,
                                                       !.secret = NoSecret]]
  /\ challenges' = [t \in Tokens |-> NoChallenge]
  /\ req' = [req EXCEPT ![r] = Idle]
  /\ overtaken' = (overtaken \/ \E q \in Requests : req[q].at = "enable")
  /\ undercut' = (undercut \/ \E t \in Tokens : Present(t) /\ OnItsWay(t))
  /\ UNCHANGED <<sessions, drawn, issued, shown, born>>

-----------------------------------------------------------------------------

LoginStep(r) ==
  \/ \E o \in Owners : Login(r, o) \/ BypassLogin(r, o)
  \/ ReadSummary(r)
  \/ Record(r)
  \/ IssueChallenge(r)
  \/ IssueSession(r)

AnswerStep(r) ==
  \/ \E t \in Tokens : \/ ShowAgain(r, t) \/ DrawSecret(r, t)
                       \/ ConfirmRead(r, t) \/ VerifyRead(r, t)
  \/ StoreSecret(r)
  \/ ShowSecret(r)
  \/ Enable(r)
  \/ VerifyCode(r)
  \/ Consume(r)

ResetStep(r) ==
  \/ \E s \in sessions : AskReset(r, s)
  \/ AllowReset(r)
  \/ Disable(r)

Next ==
  \/ \E r \in Requests : LoginStep(r) \/ AnswerStep(r) \/ ResetStep(r)
  \/ \E t \in Tokens : Lapse(t)
  \/ \E s \in sessions : EndSession(s)

Spec == Init /\ [][Next]_vars

-----------------------------------------------------------------------------
(* Properties *)

\* The state has the types above.
TypeOK ==
  /\ identity \in [Owners -> Identity]
  /\ challenges \in [Tokens -> {NoChallenge} \cup Challenge]
  /\ sessions \subseteq Session
  /\ req \in [Requests -> Request]
  /\ drawn \in 0..MaxSecrets /\ issued \in 0..MaxChallenges /\ resets \in 0..MaxResets
  /\ shown \in [Owners -> SUBSET Secrets]
  /\ born \in [Secrets -> 0..MaxResets]
  /\ overtaken \in BOOLEAN /\ undercut \in BOOLEAN

\* After the second factor was switched off, it is on again only with a secret
\* drawn since (disable_totp_for_role, admin_security.py:114): neither an old
\* challenge nor a setup, login or verification that was under way brings an
\* earlier enrolment back.  A confirmation that had read its challenge and not
\* yet written the identity is the one that can.
ResetHolds ==
  ~overtaken => \A o \in Owners :
    identity[o].enabled => born[identity[o].secret] = resets

\* An owner is never asked for codes of a secret that owner has not seen, even
\* though confirming stores the secret before the code is checked (auth.py:420),
\* setups of one challenge overwrite each other's secret (auth.py:360) and
\* every login rewrites the identity: it was shown or is about to be, unless
\* the challenge went in the moment between storing and showing it.
EnrolledOwnersCanAnswer ==
  ~undercut => \A o \in Owners : identity[o].enabled =>
    \/ identity[o].secret \in shown[o]
    \/ \E r \in Requests : /\ req[r].at = "reread" /\ req[r].owner = o
                           /\ req[r].secret = identity[o].secret
=============================================================================
