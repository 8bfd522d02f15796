-------------------------- MODULE AdminAuth_proofs --------------------------
(***************************************************************************)
(* Theorems about AdminAuth, for any number of owners, requests, secrets    *)
(* and challenges: switching the second factor off undoes every enrolment   *)
(* begun before, and nobody is asked for codes of a secret that was never   *)
(* shown.                                                                   *)
(*                                                                         *)
(* Both rest on where secrets are kept on their way from a draw to an       *)
(* identity: in a request that stores it, in a challenge, in a request that *)
(* confirms it.  What is said of an identity has to be said of each.        *)
(***************************************************************************)
EXTENDS AdminAuth, TLAPS

-----------------------------------------------------------------------------
(* Type correctness *)

Carrying == {"store", "reread", "enable"}
Answering == Carrying \cup {"identity", "consume"}

(* What a request carries at each point. *)
LEMMA RequestFields ==
  ASSUME NEW x \in Request
  PROVE  /\ x # Idle => x.at # "idle"
         /\ x.at \in Answering => x.owner \in Owners /\ x.token \in Tokens
         /\ x.at \in Carrying => x.secret \in Secrets
         /\ x.at \in {"enable", "identity"} => x.code \in {Mistyped} \cup Secrets
         /\ x.at \in {"summary", "record", "challenge", "session"} => x.owner \in Owners
         /\ x.at = "summary" => x.enabled \in BOOLEAN
         /\ x.at = "record" => x.mode \in {"verify", "setup", "disabled"}
         /\ x.at = "challenge" => x.kind \in {"setup", "verify"}
         /\ x.at \in {"session", "owners"} => x.verified \in BOOLEAN
  BY DEF Request, Idle, Logins, Answers, Resets, Carrying, Answering

LEMMA PresentChallenge ==
  ASSUME TypeOK, NEW t \in Tokens, Present(t)
  PROVE  /\ challenges[t] \in Challenge
         /\ challenges[t].owner \in Owners
         /\ challenges[t].secret # NoSecret => challenges[t].secret \in Secrets
  BY DEF TypeOK, Present, Challenge

(* A request moves on, the others stay where they are. *)
LEMMA Moves ==
  ASSUME TypeOK, NEW r \in Requests, NEW x \in Request, req' = [req EXCEPT ![r] = x]
  PROVE  /\ req' \in [Requests -> Request]
         /\ req'[r] = x
         /\ \A q \in Requests : q # r => req'[q] = req[q]
  BY DEF TypeOK

LEMMA TypeInit == Init => TypeOK
<1>1. Idle \in Request /\ Unknown \in Identity
  BY DEF Request, Unknown, Identity
<1>2. 0 \in 0..MaxSecrets /\ 0 \in 0..MaxChallenges /\ 0 \in 0..MaxResets
  BY AuthAssumption
<1>3. ASSUME Init
      PROVE  /\ identity \in [Owners -> Identity]
             /\ req \in [Requests -> Request]
             /\ challenges \in [Tokens -> {NoChallenge} \cup Challenge]
             /\ shown \in [Owners -> SUBSET Secrets]
             /\ born \in [Secrets -> 0..MaxResets]
  BY <1>1, <1>2, <1>3 DEF Init
<1>. QED BY <1>2, <1>3 DEF Init, TypeOK

(* The request that takes a step, and where the step leaves it. *)
LEMMA StepTypes ==
  ASSUME TypeOK, NEW r \in Requests, LoginStep(r) \/ AnswerStep(r) \/ ResetStep(r)
  PROVE  /\ req' \in [Requests -> Request]
         /\ \A q \in Requests : q # r => req'[q] = req[q]
<1>1. req[r] \in Request /\ Idle \in Request
  BY DEF TypeOK, Request
<1>2. \E x \in Request : req' = [req EXCEPT ![r] = x]
  <2>1. ASSUME NEW o \in Owners, Login(r, o) \/ BypassLogin(r, o)
        PROVE  \E x \in Request : req' = [req EXCEPT ![r] = x]
    BY <2>1 DEF TypeOK, Identity, Login, BypassLogin, Request, Logins
  <2>2. CASE ReadSummary(r)
    <3>1. Policy(req[r].enabled) \in {"verify", "setup", "disabled"}
      BY DEF Policy
    <3>. QED BY <1>1, <2>2, <3>1, RequestFields DEF ReadSummary, Request, Logins
  <2>3. CASE Record(r)
    BY <1>1, <2>3, RequestFields DEF Record, Request, Logins
  <2>4. CASE IssueChallenge(r) \/ IssueSession(r) \/ ShowSecret(r) \/ Disable(r)
    BY <1>1, <2>4 DEF IssueChallenge, IssueSession, ShowSecret, Disable
  <2>5. ASSUME NEW t \in Tokens, ShowAgain(r, t)
        PROVE  \E x \in Request : req' = [req EXCEPT ![r] = x]
    <3>1. req' = [req EXCEPT ![r] = req[r]]
      BY <2>5 DEF ShowAgain, TypeOK
    <3>. QED BY <1>1, <3>1
  <2>6. ASSUME NEW t \in Tokens, DrawSecret(r, t)
        PROVE  \E x \in Request : req' = [req EXCEPT ![r] = x]
    <3>1. drawn + 1 \in Secrets
      BY <2>6, AuthAssumption DEF DrawSecret, TypeOK, Secrets
    <3>. QED BY <2>6, <3>1, PresentChallenge DEF DrawSecret, Request, Answers
  <2>7. ASSUME NEW t \in Tokens, ConfirmRead(r, t) \/ VerifyRead(r, t)
        PROVE  \E x \in Request : req' = [req EXCEPT ![r] = x]
    <3>1. Codes(challenges[t].owner) \subseteq {Mistyped} \cup Secrets
      BY <2>7, PresentChallenge DEF ConfirmRead, VerifyRead, Codes, TypeOK
    <3>. QED BY <2>7, <3>1, PresentChallenge DEF ConfirmRead, VerifyRead, Request, Answers
  <2>8. CASE StoreSecret(r)
    <3>1. [req[r] EXCEPT !.at = "reread"] \in Request
      BY <1>1, <2>8 DEF StoreSecret, Request, Idle, Logins, Answers, Resets
    <3>. QED BY <2>8, <3>1 DEF StoreSecret, TypeOK
  <2>9. CASE Enable(r) \/ VerifyCode(r) \/ Consume(r)
    BY <1>1, <2>9, RequestFields
       DEF Enable, VerifyCode, Consume, Request, Answers, Logins, Carrying, Answering
  <2>10. ASSUME NEW s \in sessions, AskReset(r, s)
         PROVE  \E x \in Request : req' = [req EXCEPT ![r] = x]
    <3>1. s \in Session
      BY DEF TypeOK
    <3>2. StillVerified(s) \in BOOLEAN
      BY <3>1 DEF StillVerified, Session, TypeOK, Identity
    <3>. QED BY <2>10, <3>2 DEF AskReset, Request, Resets
  <2>11. CASE AllowReset(r)
    BY <1>1, <2>11 DEF AllowReset, Request, Resets
  <2>. QED BY <2>1, <2>2, <2>3, <2>4, <2>5, <2>6, <2>7, <2>8, <2>9, <2>10, <2>11
           DEF LoginStep, AnswerStep, ResetStep
<1>. QED BY <1>2, Moves

LEMMA TypeStep ==
  ASSUME TypeOK, [Next]_vars
  PROVE  TypeOK'
<1>1. CASE UNCHANGED vars
  BY <1>1 DEF TypeOK, vars, storeVars, boundVars, historyVars
<1>2. ASSUME NEW r \in Requests, LoginStep(r) \/ AnswerStep(r) \/ ResetStep(r)
      PROVE  TypeOK'
  <2>1. req' \in [Requests -> Request]
    BY <1>2, StepTypes
  <2>2. req[r] \in Request
    BY DEF TypeOK
  <2>3. ASSUME NEW o \in Owners, Login(r, o) \/ BypassLogin(r, o)
        PROVE  TypeOK'
    BY <2>1, <2>3 DEF TypeOK, Login, BypassLogin, storeVars, boundVars, historyVars
  <2>4. CASE ReadSummary(r) \/ VerifyCode(r) \/ AllowReset(r)
    BY <2>1, <2>4 DEF TypeOK, ReadSummary, VerifyCode, AllowReset, storeVars, boundVars, historyVars
  <2>5. CASE Record(r)
    <3>1. identity' \in [Owners -> Identity]
      BY <2>5 DEF TypeOK, Record, Identity
    <3>. QED BY <2>1, <2>5, <3>1 DEF TypeOK, Record, boundVars, historyVars
  <2>6. CASE IssueChallenge(r)
    <3>1. [kind |-> req[r].kind, owner |-> req[r].owner, secret |-> NoSecret] \in Challenge
      BY <2>2, <2>6, RequestFields DEF IssueChallenge, Challenge
    <3>2. issued + 1 \in Tokens /\ issued' \in 0..MaxChallenges
      BY <2>6, AuthAssumption DEF IssueChallenge, TypeOK, Tokens
    <3>3. challenges' \in [Tokens -> {NoChallenge} \cup Challenge]
      BY <2>6, <3>1, <3>2 DEF IssueChallenge, TypeOK
    <3>. QED BY <2>1, <2>6, <3>2, <3>3 DEF TypeOK, IssueChallenge, historyVars
  <2>7. CASE IssueSession(r)
    <3>1. [owner |-> req[r].owner, verified |-> req[r].verified] \in Session
      BY <2>2, <2>7, RequestFields DEF IssueSession, Session
    <3>. QED BY <2>1, <2>7, <3>1 DEF TypeOK, IssueSession, boundVars, historyVars
  <2>8. ASSUME NEW t \in Tokens, ShowAgain(r, t)
        PROVE  TypeOK'
    <3>1. shown' \in [Owners -> SUBSET Secrets]
      BY <2>8, PresentChallenge DEF ShowAgain, TypeOK
    <3>. QED BY <2>1, <2>8, <3>1 DEF TypeOK, ShowAgain, storeVars, boundVars
  <2>9. ASSUME NEW t \in Tokens, DrawSecret(r, t)
        PROVE  TypeOK'
    <3>1. drawn + 1 \in Secrets /\ drawn' \in 0..MaxSecrets
      BY <2>9, AuthAssumption DEF DrawSecret, TypeOK, Secrets
    <3>2. born' \in [Secrets -> 0..MaxResets]
      BY <2>9, <3>1 DEF DrawSecret, TypeOK
    <3>. QED BY <2>1, <2>9, <3>1, <3>2 DEF TypeOK, DrawSecret, storeVars
  <2>10. ASSUME NEW t \in Tokens, ConfirmRead(r, t) \/ VerifyRead(r, t)
         PROVE  TypeOK'
    BY <2>1, <2>10 DEF TypeOK, ConfirmRead, VerifyRead, storeVars, boundVars, historyVars
  <2>11. CASE StoreSecret(r)
    <3>1. req[r].token \in Tokens /\ req[r].secret \in Secrets
      BY <2>2, <2>11, RequestFields DEF StoreSecret, Carrying, Answering
    <3>2. Present(req[r].token) =>
            [challenges[req[r].token] EXCEPT !.secret = req[r].secret] \in Challenge
      BY <3>1, PresentChallenge DEF Challenge
    <3>3. challenges' \in [Tokens -> {NoChallenge} \cup Challenge]
      BY <2>11, <3>1, <3>2 DEF StoreSecret, TypeOK
    <3>. QED BY <2>1, <2>11, <3>3 DEF TypeOK, StoreSecret, boundVars, historyVars
  <2>12. CASE ShowSecret(r)
    <3>1. shown' \in [Owners -> SUBSET Secrets]
      BY <2>2, <2>12, RequestFields DEF ShowSecret, TypeOK, Carrying, Answering
    <3>. QED BY <2>1, <2>12, <3>1 DEF TypeOK, ShowSecret, storeVars, boundVars
  <2>13. CASE Enable(r)
    <3>1. req[r].secret \in Secrets
      BY <2>2, <2>13, RequestFields DEF Enable, Carrying
    <3>2. identity' \in [Owners -> Identity]
      BY ZenonT(60), <2>13, <3>1 DEF Enable, TypeOK, Identity
    <3>. QED BY <2>1, <2>13, <3>2 DEF TypeOK, Enable, boundVars, historyVars
  <2>14. CASE Consume(r)
    <3>1. challenges' \in [Tokens -> {NoChallenge} \cup Challenge]
      BY <2>14 DEF Consume, TypeOK
    <3>2. undercut' \in BOOLEAN
      BY <2>14 DEF Consume, TypeOK
    <3>. QED BY <2>1, <2>14, <3>1, <3>2 DEF TypeOK, Consume, boundVars
  <2>15. ASSUME NEW s \in sessions, AskReset(r, s)
         PROVE  TypeOK'
    BY <2>1, <2>15 DEF TypeOK, AskReset, storeVars, boundVars, historyVars
  <2>16. CASE Disable(r)
    <3>1. identity' \in [Owners -> Identity]
      BY <2>16 DEF Disable, TypeOK, Identity
    <3>2. challenges' \in [Tokens -> {NoChallenge} \cup Challenge]
      BY <2>16 DEF Disable
    <3>3. resets' \in 0..MaxResets
      <4>1. resets \in 0..MaxResets /\ resets < MaxResets /\ resets' = resets + 1
        BY <2>16 DEF Disable, TypeOK
      <4>. QED BY <4>1, AuthAssumption
    <3>4. overtaken' \in BOOLEAN /\ undercut' \in BOOLEAN
      BY <2>16 DEF Disable, TypeOK
    <3>. QED BY <2>1, <2>16, <3>1, <3>2, <3>3, <3>4 DEF TypeOK, Disable
  <2>. QED BY <1>2, <2>3, <2>4, <2>5, <2>6, <2>7, <2>8, <2>9, <2>10, <2>11, <2>12, <2>13, <2>14,
              <2>15, <2>16 DEF LoginStep, AnswerStep, ResetStep
<1>3. ASSUME NEW t \in Tokens, Lapse(t)
      PROVE  TypeOK'
  <2>1. challenges' \in [Tokens -> {NoChallenge} \cup Challenge]
    BY <1>3 DEF Lapse, TypeOK
  <2>2. undercut' \in BOOLEAN
    BY <1>3 DEF Lapse, TypeOK
  <2>. QED BY <1>3, <2>1, <2>2 DEF TypeOK, Lapse, boundVars
<1>4. ASSUME NEW s \in sessions, EndSession(s)
      PROVE  TypeOK'
  BY <1>4 DEF TypeOK, EndSession, boundVars, historyVars
<1>. QED BY <1>1, <1>2, <1>3, <1>4 DEF Next

\* Identities, challenges, sessions and requests under way have the types the
\* schema and the handlers of auth.py give them.
THEOREM TypeCorrect == Spec => []TypeOK
<1>. QED BY TypeInit, TypeStep, PTL DEF Spec
-----------------------------------------------------------------------------
(* Where secrets are. *)

(* Secrets and challenges in use have been drawn and issued.  A challenge    *)
(* that was issued after a request began is not the one it names.           *)
InUse ==
  /\ \A o \in Owners : identity[o].secret <= drawn
  /\ \A t \in Tokens : Present(t) => challenges[t].secret <= drawn /\ t <= issued
  /\ \A r \in Requests :
       /\ req[r].at \in Carrying => req[r].secret <= drawn
       /\ req[r].at \in Answering => req[r].token <= issued

(* What each kind of step does to the request that takes it. *)
LEMMA StepMoves ==
  ASSUME TypeOK, NEW r \in Requests
  PROVE  /\ \A o \in Owners : Login(r, o) => req'[r].at = "summary"
         /\ \A o \in Owners : BypassLogin(r, o) => req'[r].at = "session"
         /\ ReadSummary(r) => req'[r].at = "record"
         /\ Record(r) => req'[r].at \in {"session", "challenge"}
         /\ IssueChallenge(r) \/ IssueSession(r) \/ ShowSecret(r) \/ Disable(r) => req'[r].at = "idle"
         /\ \A t \in Tokens : ShowAgain(r, t) => req' = req
         /\ \A t \in Tokens : DrawSecret(r, t) =>
              req'[r] = [at |-> "store", owner |-> challenges[t].owner, token |-> t, secret |-> drawn + 1]
         /\ \A t \in Tokens : ConfirmRead(r, t) =>
              /\ req'[r].at = "enable" /\ req'[r].owner = challenges[t].owner
              /\ req'[r].token = t /\ req'[r].secret = challenges[t].secret
         /\ \A t \in Tokens : VerifyRead(r, t) => req'[r].at = "identity" /\ req'[r].token = t
         /\ StoreSecret(r) =>
              /\ req'[r].at = "reread" /\ req'[r].owner = req[r].owner
              /\ req'[r].token = req[r].token /\ req'[r].secret = req[r].secret
         /\ Enable(r) \/ VerifyCode(r) =>
              \/ req'[r].at = "idle"
              \/ req'[r].at = "consume" /\ req'[r].token = req[r].token
         /\ Consume(r) => req'[r].at = "session"
         /\ \A s \in sessions : AskReset(r, s) => req'[r].at = "owners"
         /\ AllowReset(r) => req'[r].at \in {"idle", "disable"}
<1>1. req \in [Requests -> Request]
  BY DEF TypeOK
<1>2. /\ \A o \in Owners : Login(r, o) => req'[r].at = "summary"
      /\ \A o \in Owners : BypassLogin(r, o) => req'[r].at = "session"
      /\ ReadSummary(r) => req'[r].at = "record"
      /\ Record(r) => req'[r].at \in {"session", "challenge"}
  BY <1>1 DEF Login, BypassLogin, ReadSummary, Record
<1>3. /\ IssueChallenge(r) \/ IssueSession(r) \/ ShowSecret(r) \/ Disable(r) => req'[r].at = "idle"
      /\ Consume(r) => req'[r].at = "session"
  <2>1. IssueChallenge(r) \/ IssueSession(r) \/ ShowSecret(r) \/ Disable(r) => req'[r] = Idle
    BY <1>1 DEF IssueChallenge, IssueSession, ShowSecret, Disable
  <2>2. Consume(r) => req'[r] = [at |-> "session", owner |-> req[r].owner, verified |-> TRUE]
    BY <1>1 DEF Consume
  <2>. QED BY <2>1, <2>2 DEF Idle
<1>4. /\ \A t \in Tokens : ShowAgain(r, t) => req' = req
      /\ \A t \in Tokens : DrawSecret(r, t) =>
           req'[r] = [at |-> "store", owner |-> challenges[t].owner, token |-> t, secret |-> drawn + 1]
  BY <1>1 DEF ShowAgain, DrawSecret
<1>5. ASSUME NEW t \in Tokens, ConfirmRead(r, t)
      PROVE  /\ req'[r].at = "enable" /\ req'[r].owner = challenges[t].owner
             /\ req'[r].token = t /\ req'[r].secret = challenges[t].secret
  BY <1>1, <1>5 DEF ConfirmRead
<1>6. ASSUME NEW t \in Tokens, VerifyRead(r, t)
      PROVE  req'[r].at = "identity" /\ req'[r].token = t
  BY <1>1, <1>6 DEF VerifyRead
<1>7. ASSUME StoreSecret(r)
      PROVE  /\ req'[r].at = "reread" /\ req'[r].owner = req[r].owner
             /\ req'[r].token = req[r].token /\ req'[r].secret = req[r].secret
  <2>1. req[r] \in Request /\ req[r].at = "store" /\ req'[r] = [req[r] EXCEPT !.at = "reread"]
    BY <1>1, <1>7 DEF StoreSecret
  <2>. QED BY <2>1 DEF Request, Idle, Logins, Answers, Resets
<1>8. Enable(r) \/ VerifyCode(r) =>
        \/ req'[r].at = "idle"
        \/ req'[r].at = "consume" /\ req'[r].token = req[r].token
  BY <1>1 DEF Enable, VerifyCode, Idle
<1>9. /\ \A s \in sessions : AskReset(r, s) => req'[r].at = "owners"
      /\ AllowReset(r) => req'[r].at \in {"idle", "disable"}
  BY <1>1 DEF AskReset, AllowReset, Idle
<1>. QED BY <1>2, <1>3, <1>4, <1>5, <1>6, <1>7, <1>8, <1>9

(* A challenge that is there after a step was there before with the same     *)
(* owner, or the step issued it; and it has the secret it had, or the one a   *)
(* request stored.                                                          *)
LEMMA ChallengeHistory ==
  ASSUME TypeOK, NEW r \in Requests, LoginStep(r) \/ AnswerStep(r) \/ ResetStep(r),
         NEW t \in Tokens, Present(t)'
  PROVE  \/ Present(t) /\ challenges'[t] = challenges[t]
         \/ /\ StoreSecret(r) /\ Present(t) /\ t = req[r].token
            /\ challenges'[t].owner = challenges[t].owner
            /\ challenges'[t].secret = req[r].secret
         \/ /\ IssueChallenge(r) /\ t = issued + 1
            /\ challenges'[t].secret = NoSecret
<1>1. CASE IssueChallenge(r)
  BY <1>1 DEF IssueChallenge, TypeOK, Present
<1>2. CASE StoreSecret(r)
  <2>1. CASE t = req[r].token /\ Present(t)
    <3>1. challenges[t] \in Challenge /\ challenges'[t] = [challenges[t] EXCEPT !.secret = req[r].secret]
      BY <1>2, <2>1, PresentChallenge DEF StoreSecret, TypeOK
    <3>. QED BY <1>2, <2>1, <3>1 DEF Challenge
  <2>2. CASE ~(t = req[r].token /\ Present(t))
    <3>1. challenges'[t] = challenges[t]
      BY <1>2, <2>2 DEF StoreSecret, TypeOK
    <3>. QED BY <3>1 DEF Present
  <2>. QED BY <2>1, <2>2
<1>3. CASE Consume(r)
  BY <1>3 DEF Consume, TypeOK, Present
<1>4. CASE Disable(r)
  BY <1>4 DEF Disable, Present
<1>5. CASE ~(IssueChallenge(r) \/ StoreSecret(r) \/ Consume(r) \/ Disable(r))
  <2>1. challenges' = challenges
    BY <1>5 DEF LoginStep, AnswerStep, ResetStep, Login, BypassLogin, ReadSummary, Record, IssueSession,
                ShowAgain, DrawSecret, ConfirmRead, VerifyRead, ShowSecret, Enable, VerifyCode, AskReset,
                AllowReset, storeVars
  <2>. QED BY <2>1 DEF Present
<1>. QED BY <1>1, <1>2, <1>3, <1>4, <1>5

(* An identity's secret is the one it had, none, or one being confirmed.     *)
LEMMA IdentityHistory ==
  ASSUME TypeOK, NEW r \in Requests, LoginStep(r) \/ AnswerStep(r) \/ ResetStep(r), NEW o \in Owners
  PROVE  \/ identity'[o].enabled = identity[o].enabled /\ identity'[o].secret = identity[o].secret
         \/ ~identity'[o].enabled /\ identity'[o].secret = NoSecret
         \/ Enable(r) /\ o = req[r].owner /\ identity'[o].secret = req[r].secret
<1>1. identity[o] \in Identity
  BY DEF TypeOK
<1>2. CASE Record(r)
  BY <1>1, <1>2 DEF Record, TypeOK, Identity
<1>3. CASE Enable(r)
  BY <1>1, <1>3 DEF Enable, TypeOK, Identity
<1>4. CASE Disable(r)
  BY <1>1, <1>4 DEF Disable, TypeOK, Identity
<1>5. CASE ~(Record(r) \/ Enable(r) \/ Disable(r))
  BY <1>5 DEF LoginStep, AnswerStep, ResetStep, Login, BypassLogin, ReadSummary, IssueChallenge,
              IssueSession, ShowAgain, DrawSecret, StoreSecret, ConfirmRead, VerifyRead, ShowSecret,
              VerifyCode, Consume, AskReset, AllowReset, storeVars
<1>. QED BY <1>2, <1>3, <1>4, <1>5

LEMMA InUseStep ==
  ASSUME TypeOK, InUse, NEW r \in Requests, LoginStep(r) \/ AnswerStep(r) \/ ResetStep(r)
  PROVE  InUse'
<1>1. drawn \in Nat /\ issued \in Nat /\ req[r] \in Request
  BY AuthAssumption DEF TypeOK
<1>2. /\ drawn' = drawn \/ drawn' = drawn + 1
      /\ issued' = issued \/ issued' = issued + 1
      /\ IssueChallenge(r) => issued' = issued + 1
  BY DEF LoginStep, AnswerStep, ResetStep, Login, BypassLogin, ReadSummary, Record, IssueSession,
         ShowAgain, DrawSecret, ConfirmRead, VerifyRead, ShowSecret, Enable, VerifyCode, AskReset,
         AllowReset, IssueChallenge, StoreSecret, Consume, Disable, boundVars
<1>3. ASSUME NEW o \in Owners PROVE identity'[o].secret <= drawn'
  <2>1. identity[o].secret \in Nat /\ identity[o].secret <= drawn
    BY DEF TypeOK, Identity, InUse, NoSecret, Secrets
  <2>2. Enable(r) => req[r].secret \in Nat /\ req[r].secret <= drawn
    BY <1>1, RequestFields DEF InUse, Enable, Carrying, Secrets
  <2>. QED BY <1>1, <1>2, <2>1, <2>2, IdentityHistory DEF NoSecret
<1>4. ASSUME NEW t \in Tokens, Present(t)'
      PROVE  challenges'[t].secret <= drawn' /\ t <= issued'
  <2>1. Present(t) => challenges[t].secret \in Nat /\ challenges[t].secret <= drawn /\ t <= issued
    BY PresentChallenge DEF InUse, Challenge, NoSecret, Secrets
  <2>2. StoreSecret(r) => req[r].secret \in Nat /\ req[r].secret <= drawn
    BY <1>1, RequestFields DEF InUse, StoreSecret, Carrying, Secrets
  <2>3. t \in Nat
    BY DEF Tokens
  <2>. QED BY <1>1, <1>2, <1>4, <2>1, <2>2, <2>3, ChallengeHistory DEF NoSecret
<1>5. ASSUME NEW q \in Requests
      PROVE  /\ req'[q].at \in Carrying => req'[q].secret <= drawn'
             /\ req'[q].at \in Answering => req'[q].token <= issued'
  <2>1. /\ req[q].at \in Carrying => req[q].secret \in Nat /\ req[q].secret <= drawn
        /\ req[q].at \in Answering => req[q].token \in Nat /\ req[q].token <= issued
    BY RequestFields DEF TypeOK, InUse, Secrets, Tokens
  <2>2. CASE req'[q] = req[q]
    BY <1>1, <1>2, <2>1, <2>2
  <2>3. CASE q = r /\ ~(\E t \in Tokens : DrawSecret(r, t) \/ ConfirmRead(r, t) \/ VerifyRead(r, t))
    <3>1. \/ req'[r].at \notin Answering
          \/ req'[r] = req[r]
          \/ req'[r].at = "consume" /\ req'[r].token = req[r].token /\ req[r].at \in Answering
          \/ /\ req'[r].at = "reread" /\ req'[r].token = req[r].token
             /\ req'[r].secret = req[r].secret /\ req[r].at \in Carrying
      BY <2>3, StepMoves
         DEF Answering, Carrying, LoginStep, AnswerStep, ResetStep, Enable, VerifyCode, StoreSecret
    <3>. QED BY <1>1, <1>2, <2>1, <2>3, <3>1 DEF Answering, Carrying
  <2>4. ASSUME NEW t \in Tokens, DrawSecret(r, t), q = r
        PROVE  req'[q].secret <= drawn' /\ req'[q].token <= issued'
    <3>1. Present(t) /\ drawn' = drawn + 1 /\ t \in Nat
      BY <2>4 DEF DrawSecret, Tokens
    <3>2. req'[r] = [at |-> "store", owner |-> challenges[t].owner, token |-> t, secret |-> drawn + 1]
      BY <2>4, StepMoves
    <3>3. req'[r].secret = drawn + 1 /\ req'[r].token = t
      BY <3>2
    <3>4. t <= issued
      BY <3>1 DEF InUse
    <3>. QED BY <1>1, <1>2, <2>4, <3>1, <3>3, <3>4
  <2>5. ASSUME NEW t \in Tokens, ConfirmRead(r, t) \/ VerifyRead(r, t), q = r
        PROVE  /\ req'[q].at \in Carrying => req'[q].secret <= drawn'
               /\ req'[q].token <= issued'
    <3>1. Present(t) /\ t \in Nat
      BY <2>5 DEF ConfirmRead, VerifyRead, Tokens
    <3>2. challenges[t].secret \in Nat
      BY <3>1, PresentChallenge DEF Challenge, NoSecret, Secrets
    <3>3. challenges[t].secret <= drawn /\ t <= issued
      BY <3>1 DEF InUse
    <3>. QED BY <1>1, <1>2, <2>5, <3>1, <3>2, <3>3, StepMoves DEF Carrying
  <2>. QED BY <2>2, <2>3, <2>4, <2>5, StepTypes
<1>. QED BY <1>3, <1>4, <1>5 DEF InUse

(* What is said of a secret is said wherever it may come from or go to.      *)
Fresh(s) == born[s] = resets

FreshInChallenges ==
  \A t \in Tokens : Present(t) /\ challenges[t].secret # NoSecret => Fresh(challenges[t].secret)

FreshInRequests ==
  \A r \in Requests :
    /\ req[r].at = "store" /\ Present(req[r].token) => Fresh(req[r].secret)
    /\ req[r].at = "enable" /\ ~overtaken => Fresh(req[r].secret)

EnabledHaveSecrets ==
  \A o \in Owners : identity[o].enabled => identity[o].secret \in Secrets

ResetInv ==
  TypeOK /\ InUse /\ FreshInChallenges /\ FreshInRequests /\ EnabledHaveSecrets /\ ResetHolds

(* Who knows a secret: an owner it was shown to, or will be.                 *)
Known(o, s) ==
  \/ s \in shown[o]
  \/ \E r \in Requests : /\ req[r].at = "reread" /\ Present(req[r].token)
                         /\ req[r].owner = o /\ req[r].secret = s

OwnersAgree ==
  \A r \in Requests :
    req[r].at \in {"store", "reread"} /\ Present(req[r].token)
      => challenges[req[r].token].owner = req[r].owner

KnownEverywhere ==
  /\ \A t \in Tokens : Present(t) /\ challenges[t].secret # NoSecret
                         => Known(challenges[t].owner, challenges[t].secret)
  /\ \A r \in Requests : req[r].at = "enable" => Known(req[r].owner, req[r].secret)
  /\ \A o \in Owners : identity[o].enabled => Known(o, identity[o].secret)

ShownInv == TypeOK /\ InUse /\ OwnersAgree /\ (~undercut => KnownEverywhere)

(* Time takes challenges away and users end sessions. *)
LEMMA LapseStep ==
  ASSUME TypeOK, NEW u \in Tokens, Lapse(u)
  PROVE  \A t \in Tokens : Present(t)' => Present(t) /\ challenges'[t] = challenges[t]
  BY DEF Lapse, TypeOK, Present

-----------------------------------------------------------------------------
(* Resets *)

LEMMA FreshStep ==
  ASSUME ResetInv, NEW r \in Requests, LoginStep(r) \/ AnswerStep(r) \/ ResetStep(r)
  PROVE  FreshInChallenges' /\ FreshInRequests' /\ EnabledHaveSecrets' /\ ResetHolds'
<1>. USE DEF ResetInv
<1>1. CASE Disable(r)
  <2>1. \A t \in Tokens : ~Present(t)'
    BY <1>1 DEF Disable, Present
  <2>2. \A o \in Owners : ~identity'[o].enabled
    BY <1>1 DEF Disable, TypeOK, Identity
  <2>3. \A q \in Requests : req'[q].at \in Answering => req'[q] = req[q] /\ req[q].token \in Tokens
    BY <1>1, StepMoves, StepTypes, RequestFields DEF Answering, Carrying, TypeOK
  <2>4. ~overtaken' => \A q \in Requests : req'[q].at # "enable"
    BY <1>1, <2>3 DEF Disable, Answering, Carrying
  <2>. QED BY <2>1, <2>2, <2>3, <2>4
           DEF FreshInChallenges, FreshInRequests, EnabledHaveSecrets, ResetHolds, Answering, Carrying
<1>2. CASE ~Disable(r)
  <2>1. req[r] \in Request /\ drawn \in Nat
    BY AuthAssumption DEF TypeOK
  \* A secret in use stays fresh.
  <2>2. resets' = resets /\ overtaken' = overtaken
    BY <1>2 DEF LoginStep, AnswerStep, ResetStep, Login, BypassLogin, ReadSummary, Record, IssueSession,
           ShowAgain, DrawSecret, ConfirmRead, VerifyRead, ShowSecret, Enable, VerifyCode, AskReset,
           AllowReset, IssueChallenge, StoreSecret, Consume, boundVars, historyVars
  <2>3. ASSUME NEW s \in Secrets, s <= drawn PROVE born'[s] = born[s]
    <3>1. CASE \E t \in Tokens : DrawSecret(r, t)
      BY <2>1, <2>3, <3>1 DEF DrawSecret, TypeOK, Secrets
    <3>2. CASE ~(\E t \in Tokens : DrawSecret(r, t))
      BY <1>2, <3>2 DEF LoginStep, AnswerStep, ResetStep, Login, BypassLogin, ReadSummary, Record,
           IssueSession, ShowAgain, ConfirmRead, VerifyRead, ShowSecret, Enable, VerifyCode, AskReset,
           AllowReset, IssueChallenge, StoreSecret, Consume, historyVars
    <3>. QED BY <3>1, <3>2
  <2>4. ASSUME NEW s \in Secrets, s <= drawn, Fresh(s) PROVE born'[s] = resets'
    BY <2>2, <2>3, <2>4 DEF Fresh
  <2>5. \A t \in Tokens : Present(t)' /\ ~(IssueChallenge(r) /\ t = issued + 1) => Present(t)
    BY ChallengeHistory
  <2>6. FreshInChallenges'
    <3>. SUFFICES ASSUME NEW t \in Tokens, Present(t)', challenges'[t].secret # NoSecret
                  PROVE  born'[challenges'[t].secret] = resets'
      BY DEF FreshInChallenges, Fresh
    <3>1. CASE Present(t) /\ challenges'[t] = challenges[t]
      <4>1. challenges[t].secret \in Secrets /\ challenges[t].secret <= drawn
        BY <3>1, PresentChallenge DEF InUse
      <4>2. Fresh(challenges[t].secret)
        BY <3>1 DEF FreshInChallenges
      <4>. QED BY <2>4, <3>1, <4>1, <4>2
    <3>2. CASE StoreSecret(r) /\ Present(t) /\ t = req[r].token /\ challenges'[t].secret = req[r].secret
      <4>1. req[r].at = "store" /\ req[r].secret \in Secrets /\ req[r].secret <= drawn
        BY <2>1, <3>2, RequestFields DEF StoreSecret, InUse, Carrying
      <4>2. Fresh(req[r].secret)
        BY <3>2, <4>1 DEF FreshInRequests
      <4>. QED BY <2>4, <3>2, <4>1, <4>2
    <3>. QED BY <3>1, <3>2, ChallengeHistory
  <2>7. FreshInRequests'
    <3>. SUFFICES ASSUME NEW q \in Requests
                  PROVE  /\ req'[q].at = "store" /\ challenges'[req'[q].token] # NoChallenge
                              => born'[req'[q].secret] = resets'
                         /\ req'[q].at = "enable" /\ ~overtaken' => born'[req'[q].secret] = resets'
      BY DEF FreshInRequests, Fresh, Present
    <3>1. CASE req'[q] = req[q]
      <4>1. req[q] \in Request
        BY DEF TypeOK
      <4>2. req[q].at \in {"store", "enable"} =>
              /\ req[q].secret \in Secrets /\ req[q].secret <= drawn
              /\ req[q].token \in Tokens /\ req[q].token <= issued
        BY <4>1, RequestFields DEF Carrying, Answering, InUse
      <4>3. req[q].at = "store" /\ challenges'[req[q].token] # NoChallenge => Present(req[q].token)
        <5>1. req[q].at = "store" => req[q].token # issued + 1
          BY <4>2, AuthAssumption DEF TypeOK, Tokens
        <5>. QED BY <2>5, <4>2, <5>1 DEF Present
      <4>. QED BY <2>2, <2>4, <3>1, <4>2, <4>3 DEF FreshInRequests
    <3>2. ASSUME q = r, NEW t \in Tokens, DrawSecret(r, t)
          PROVE  req'[q].at = "store" /\ born'[req'[q].secret] = resets'
      <4>1. req'[r] = [at |-> "store", owner |-> challenges[t].owner, token |-> t, secret |-> drawn + 1]
        BY <3>2, StepMoves
      <4>2. drawn + 1 \in Secrets
        BY <3>2, AuthAssumption DEF DrawSecret, TypeOK, Secrets
      <4>3. born'[drawn + 1] = resets /\ resets' = resets
        BY <2>2, <3>2, <4>2 DEF DrawSecret, TypeOK
      <4>. QED BY <3>2, <4>1, <4>3 DEF Fresh
    <3>3. ASSUME q = r, NEW t \in Tokens, ConfirmRead(r, t)
          PROVE  req'[q].at = "enable" /\ born'[req'[q].secret] = resets'
      <4>1. Present(t) /\ challenges[t].secret # NoSecret
        BY <3>3 DEF ConfirmRead
      <4>2. challenges[t].secret \in Secrets /\ challenges[t].secret <= drawn /\ Fresh(challenges[t].secret)
        BY <4>1, PresentChallenge DEF InUse, FreshInChallenges
      <4>. QED BY <2>4, <3>3, <4>2, StepMoves
    <3>4. CASE q = r /\ ~(\E t \in Tokens : ShowAgain(r, t) \/ DrawSecret(r, t) \/ ConfirmRead(r, t))
      <4>1. req'[r].at \notin {"store", "enable"}
        BY <3>4, StepMoves DEF LoginStep, AnswerStep, ResetStep
      <4>. QED BY <3>4, <4>1
    <3>5. (\E t \in Tokens : ShowAgain(r, t)) => req' = req
      BY StepMoves
    <3>. QED BY <3>1, <3>2, <3>3, <3>4, <3>5, StepTypes
  <2>8. EnabledHaveSecrets' /\ ResetHolds'
    <3>. SUFFICES ASSUME NEW o \in Owners, identity'[o].enabled
                  PROVE  /\ identity'[o].secret \in Secrets
                         /\ ~overtaken' => born'[identity'[o].secret] = resets'
      BY DEF EnabledHaveSecrets, ResetHolds, Fresh
    <3>1. CASE identity'[o].enabled = identity[o].enabled /\ identity'[o].secret = identity[o].secret
      <4>1. identity[o].secret \in Secrets /\ identity[o].secret <= drawn
        BY <3>1 DEF EnabledHaveSecrets, InUse
      <4>2. ~overtaken => Fresh(identity[o].secret)
        BY <3>1 DEF ResetHolds, Fresh
      <4>. QED BY <2>2, <2>4, <3>1, <4>1, <4>2
    <3>2. CASE Enable(r) /\ o = req[r].owner /\ identity'[o].secret = req[r].secret
      <4>1. req[r].at = "enable" /\ req[r].secret \in Secrets /\ req[r].secret <= drawn
        BY <2>1, <3>2, RequestFields DEF Enable, InUse, Carrying
      <4>2. ~overtaken => Fresh(req[r].secret)
        BY <4>1 DEF FreshInRequests
      <4>. QED BY <2>2, <2>4, <3>2, <4>1, <4>2
    <3>. QED BY <3>1, <3>2, IdentityHistory
  <2>. QED BY <2>6, <2>7, <2>8
<1>. QED BY <1>1, <1>2

LEMMA ResetStays ==
  ASSUME ResetInv, [Next]_vars
  PROVE  ResetInv'
<1>. USE DEF ResetInv
<1>1. TypeOK'
  BY TypeStep
<1>2. CASE UNCHANGED vars
  BY <1>1, <1>2 DEF vars, storeVars, boundVars, historyVars, InUse, FreshInChallenges, FreshInRequests,
                    EnabledHaveSecrets, ResetHolds, Present, Fresh
<1>3. ASSUME NEW r \in Requests, LoginStep(r) \/ AnswerStep(r) \/ ResetStep(r)
      PROVE  ResetInv'
  BY <1>1, <1>3, InUseStep, FreshStep
<1>4. ASSUME NEW u \in Tokens, Lapse(u)
      PROVE  ResetInv'
  <2>1. \A t \in Tokens : Present(t)' => Present(t) /\ challenges'[t] = challenges[t]
    BY <1>4, LapseStep
  <2>2. \A q \in Requests : req[q].at = "store" => req[q].token \in Tokens
    BY RequestFields DEF TypeOK, Answering, Carrying
  <2>3. UNCHANGED <<identity, req, drawn, issued, resets, born, overtaken>>
    BY <1>4 DEF Lapse, boundVars
  <2>. QED BY <1>1, <2>1, <2>2, <2>3
           DEF InUse, FreshInChallenges, FreshInRequests, EnabledHaveSecrets, ResetHolds, Fresh
<1>5. ASSUME NEW s \in sessions, EndSession(s)
      PROVE  ResetInv'
  BY <1>1, <1>5 DEF EndSession, boundVars, historyVars, InUse, FreshInChallenges, FreshInRequests,
                    EnabledHaveSecrets, ResetHolds, Present, Fresh
<1>. QED BY <1>2, <1>3, <1>4, <1>5 DEF Next

LEMMA ResetInit == Init => ResetInv
  BY TypeInit, AuthAssumption
     DEF Init, ResetInv, InUse, FreshInChallenges, FreshInRequests, EnabledHaveSecrets, ResetHolds,
         Present, Unknown, NoSecret, Idle, Carrying, Answering

\* Once the second factor was switched off, it is on only with a secret drawn
\* since, for any number of owners, requests and resets, unless a confirmation
\* was under way (disable_totp_for_role, admin_security.py:114).
THEOREM ResetsHold == Spec => []ResetHolds
<1>1. ResetInv => ResetHolds
  BY DEF ResetInv
<1>. QED BY ResetInit, ResetStays, <1>1, PTL DEF Spec

-----------------------------------------------------------------------------
(* Secrets that are known *)

(* Known, said of the next state.                                            *)
KnownNext(o, s) ==
  \/ s \in shown'[o]
  \/ \E q \in Requests : /\ req'[q].at = "reread" /\ challenges'[req'[q].token] # NoChallenge
                         /\ req'[q].owner = o /\ req'[q].secret = s

(* A challenge whose secret is on its way goes only if that is recorded.     *)
LEMMA ChallengeStays ==
  ASSUME TypeOK, NEW r \in Requests, LoginStep(r) \/ AnswerStep(r) \/ ResetStep(r),
         NEW t \in Tokens, Present(t), OnItsWay(t), ~undercut'
  PROVE  Present(t)'
<1>1. challenges[t].kind # "none"
  BY PresentChallenge DEF Challenge
<1>2. CASE IssueChallenge(r)
  <2>1. req[r] \in Request /\ req[r].kind # "none"
    BY <1>2, RequestFields DEF IssueChallenge, TypeOK
  <2>2. \/ challenges'[t] = challenges[t]
        \/ challenges'[t] = [kind |-> req[r].kind, owner |-> req[r].owner, secret |-> NoSecret]
    BY <1>2 DEF IssueChallenge, TypeOK
  <2>3. challenges'[t].kind # "none"
    BY <1>1, <2>1, <2>2
  <2>. QED BY <2>3 DEF Present, NoChallenge
<1>3. CASE StoreSecret(r)
  <2>1. challenges[t] \in Challenge
    BY PresentChallenge
  <2>2. challenges'[t] = challenges[t] \/ challenges'[t] = [challenges[t] EXCEPT !.secret = req[r].secret]
    BY <1>3 DEF StoreSecret, TypeOK
  <2>3. challenges'[t].kind # "none"
    BY <1>1, <2>1, <2>2 DEF Challenge
  <2>. QED BY <2>3 DEF Present, NoChallenge
<1>4. CASE Consume(r)
  <2>1. t # req[r].token
    BY <1>4 DEF Consume
  <2>2. challenges'[t] = challenges[t]
    BY <1>4, <2>1 DEF Consume, TypeOK
  <2>. QED BY <2>2 DEF Present
<1>5. CASE Disable(r)
  BY <1>5 DEF Disable
<1>6. CASE ~(IssueChallenge(r) \/ StoreSecret(r) \/ Consume(r) \/ Disable(r))
  <2>1. challenges' = challenges
    BY <1>6 DEF LoginStep, AnswerStep, ResetStep, Login, BypassLogin, ReadSummary, Record, IssueSession,
                ShowAgain, DrawSecret, ConfirmRead, VerifyRead, ShowSecret, Enable, VerifyCode, AskReset,
                AllowReset, storeVars
  <2>. QED BY <2>1 DEF Present
<1>. QED BY <1>2, <1>3, <1>4, <1>5, <1>6

LEMMA ShownGrows ==
  ASSUME TypeOK, NEW r \in Requests, LoginStep(r) \/ AnswerStep(r) \/ ResetStep(r)
  PROVE  /\ \A o \in Owners : shown[o] \subseteq shown'[o]
         /\ undercut => undercut'
<1>1. CASE \E t \in Tokens : ShowAgain(r, t)
  BY <1>1 DEF ShowAgain, TypeOK
<1>2. CASE ShowSecret(r)
  BY <1>2 DEF ShowSecret, TypeOK
<1>3. CASE Consume(r) \/ Disable(r)
  BY <1>3 DEF Consume, Disable, TypeOK
<1>4. CASE ~(ShowSecret(r) \/ Consume(r) \/ Disable(r) \/ \E t \in Tokens : ShowAgain(r, t))
  BY SMTT(30), <1>4 DEF LoginStep, AnswerStep, ResetStep, Login, BypassLogin, ReadSummary, Record, IssueSession,
              DrawSecret, ConfirmRead, VerifyRead, Enable, VerifyCode, AskReset, AllowReset,
              IssueChallenge, StoreSecret, historyVars
<1>. QED BY <1>1, <1>2, <1>3, <1>4

(* A secret that is known stays known.                                       *)
LEMMA KnownStays ==
  ASSUME TypeOK, NEW r \in Requests, LoginStep(r) \/ AnswerStep(r) \/ ResetStep(r),
         ~undercut', NEW o \in Owners, NEW s \in Secrets, Known(o, s)
  PROVE  KnownNext(o, s)
<1>1. CASE s \in shown[o]
  BY <1>1, ShownGrows DEF KnownNext
<1>2. ASSUME NEW q \in Requests, req[q].at = "reread", Present(req[q].token),
             req[q].owner = o, req[q].secret = s
      PROVE  KnownNext(o, s)
  <2>1. req[q].token \in Tokens
    BY <1>2, RequestFields DEF TypeOK, Answering, Carrying
  <2>2. CASE q = r
    <3>1. ShowSecret(r)
      <4>1. req[r].at = "reread" /\ req[r] # Idle
        BY <1>2, <2>2 DEF Idle
      <4>2. ~LoginStep(r)
        BY <4>1 DEF LoginStep, Login, BypassLogin, ReadSummary, Record, IssueChallenge, IssueSession
      <4>3. ~ResetStep(r)
        BY <4>1 DEF ResetStep, AskReset, AllowReset, Disable
      <4>. QED BY <4>1, <4>2, <4>3 DEF AnswerStep, ShowAgain, DrawSecret, ConfirmRead, VerifyRead,
                                       StoreSecret, Enable, VerifyCode, Consume
    <3>2. s \in shown'[o]
      BY <1>2, <2>2, <3>1 DEF ShowSecret, TypeOK
    <3>. QED BY <3>2 DEF KnownNext
  <2>3. CASE q # r
    <3>1. req'[q] = req[q]
      BY <2>3, StepTypes
    <3>2. Present(req[q].token)'
      <4>1. OnItsWay(req[q].token)
        BY <1>2 DEF OnItsWay
      <4>2. \A t \in Tokens : Present(t) /\ OnItsWay(t) => challenges'[t] # NoChallenge
        BY ChallengeStays DEF Present
      <4>3. challenges'[req[q].token] # NoChallenge
        BY <1>2, <2>1, <4>1, <4>2
      <4>. QED BY <3>1, <4>3 DEF Present
    <3>. QED BY <1>2, <3>1, <3>2 DEF KnownNext, Present
  <2>. QED BY <2>2, <2>3
<1>. QED BY <1>1, <1>2 DEF Known

LEMMA OwnersAgreeStep ==
  ASSUME TypeOK, InUse, OwnersAgree, NEW r \in Requests, LoginStep(r) \/ AnswerStep(r) \/ ResetStep(r)
  PROVE  OwnersAgree'
<1>. SUFFICES ASSUME NEW q \in Requests, req'[q].at \in {"store", "reread"},
                     challenges'[req'[q].token] # NoChallenge
              PROVE  challenges'[req'[q].token].owner = req'[q].owner
  BY DEF OwnersAgree, Present
<1>1. ASSUME NEW t \in Tokens, t <= issued, Present(t)'
      PROVE  Present(t) /\ challenges'[t].owner = challenges[t].owner
  <2>1. t # issued + 1
    BY <1>1, AuthAssumption DEF TypeOK, Tokens
  <2>. QED BY <1>1, <2>1, ChallengeHistory
\* A request that was storing or about to show, with the same challenge now.
<1>2. CASE /\ req[q].at \in {"store", "reread"}
           /\ req'[q].token = req[q].token /\ req'[q].owner = req[q].owner
  <2>1. req[q] \in Request
    BY DEF TypeOK
  <2>2. req[q].token \in Tokens /\ req[q].token <= issued
    BY <1>2, <2>1, RequestFields DEF InUse, Answering, Carrying
  <2>3. \A t \in Tokens : t <= issued /\ challenges'[t] # NoChallenge =>
          Present(t) /\ challenges'[t].owner = challenges[t].owner
    BY <1>1 DEF Present
  <2>4. Present(req[q].token) /\ challenges'[req[q].token].owner = challenges[req[q].token].owner
    BY <1>2, <2>2, <2>3
  <2>. QED BY <1>2, <2>4 DEF OwnersAgree
<1>3. ASSUME q = r, NEW t \in Tokens, DrawSecret(r, t)
      PROVE  challenges'[req'[q].token].owner = req'[q].owner
  <2>1. req'[q] = [at |-> "store", owner |-> challenges[t].owner, token |-> t, secret |-> drawn + 1]
    BY <1>3, StepMoves
  <2>2. challenges' = challenges
    BY <1>3 DEF DrawSecret, storeVars
  <2>. QED BY <2>1, <2>2
<1>4. CASE req'[q] = req[q]
  BY <1>2, <1>4
<1>5. CASE q = r /\ StoreSecret(r)
  BY <1>2, <1>5, StepMoves DEF StoreSecret
<1>6. CASE q = r /\ ~StoreSecret(r) /\ ~(\E t \in Tokens : DrawSecret(r, t))
  <2>1. req' = req \/ req'[r].at \notin {"store", "reread"}
    BY <1>6, StepMoves DEF LoginStep, AnswerStep, ResetStep
  <2>. QED BY <1>4, <1>6, <2>1
<1>. QED BY <1>3, <1>4, <1>5, <1>6, StepTypes

LEMMA KnownStep ==
  ASSUME TypeOK, InUse, OwnersAgree, KnownEverywhere, EnabledHaveSecrets, ~undercut',
         NEW r \in Requests, LoginStep(r) \/ AnswerStep(r) \/ ResetStep(r)
  PROVE  KnownEverywhere'
<1>1. req[r] \in Request
  BY DEF TypeOK
<1>2. ASSUME NEW t \in Tokens, Present(t)', challenges'[t].secret # NoSecret
      PROVE  KnownNext(challenges'[t].owner, challenges'[t].secret)
  <2>1. CASE Present(t) /\ challenges'[t] = challenges[t]
    BY <1>2, <2>1, PresentChallenge, KnownStays DEF KnownEverywhere
  <2>2. CASE /\ StoreSecret(r) /\ Present(t) /\ t = req[r].token
             /\ challenges'[t].owner = challenges[t].owner /\ challenges'[t].secret = req[r].secret
    <3>1. challenges[t].owner = req[r].owner
      BY <2>2 DEF OwnersAgree, StoreSecret
    <3>2. /\ req'[r].at = "reread" /\ req'[r].owner = req[r].owner
          /\ req'[r].token = t /\ req'[r].secret = req[r].secret
      BY <2>2, StepMoves
    <3>3. challenges'[req'[r].token] # NoChallenge
      BY <1>2, <3>2 DEF Present
    <3>. QED BY <2>2, <3>1, <3>2, <3>3 DEF KnownNext
  <2>. QED BY <1>2, <2>1, <2>2, ChallengeHistory
<1>3. ASSUME NEW q \in Requests, req'[q].at = "enable"
      PROVE  KnownNext(req'[q].owner, req'[q].secret)
  <2>1. CASE req'[q] = req[q]
    <3>1. req[q].owner \in Owners /\ req[q].secret \in Secrets
      BY <1>3, <2>1, RequestFields DEF TypeOK, Carrying, Answering
    <3>. QED BY <1>3, <2>1, <3>1, KnownStays DEF KnownEverywhere
  <2>2. ASSUME q = r, NEW t \in Tokens, ConfirmRead(r, t)
        PROVE  KnownNext(req'[q].owner, req'[q].secret)
    <3>1. Present(t) /\ challenges[t].secret # NoSecret
      BY <2>2 DEF ConfirmRead
    <3>2. KnownNext(challenges[t].owner, challenges[t].secret)
      BY <3>1, PresentChallenge, KnownStays DEF KnownEverywhere
    <3>. QED BY <2>2, <3>2, StepMoves
  <2>3. CASE q = r /\ ~(\E t \in Tokens : ConfirmRead(r, t))
    <3>1. CASE LoginStep(r) \/ ResetStep(r)
      BY <1>3, <2>3, <3>1, StepMoves DEF LoginStep, ResetStep
    <3>2. CASE AnswerStep(r)
      <4>1. ASSUME NEW t \in Tokens, ShowAgain(r, t) \/ DrawSecret(r, t) \/ VerifyRead(r, t)
            PROVE  KnownNext(req'[q].owner, req'[q].secret)
        <5>1. CASE ShowAgain(r, t)
          BY <2>1, <5>1, StepMoves
        <5>2. CASE DrawSecret(r, t)
          <6>1. req'[r] = [at |-> "store", owner |-> challenges[t].owner, token |-> t,
                           secret |-> drawn + 1]
            BY <5>2, StepMoves
          <6>. QED BY <1>3, <2>3, <6>1
        <5>3. CASE VerifyRead(r, t)
          BY <1>3, <2>3, <5>3, StepMoves
        <5>. QED BY <4>1, <5>1, <5>2, <5>3
      <4>2. CASE StoreSecret(r) \/ ShowSecret(r) \/ Enable(r) \/ VerifyCode(r) \/ Consume(r)
        BY <1>3, <2>3, <4>2, StepMoves
      <4>. QED BY <2>3, <3>2, <4>1, <4>2 DEF AnswerStep
    <3>. QED BY <3>1, <3>2
  <2>. QED BY <2>1, <2>2, <2>3, StepTypes
<1>4. ASSUME NEW o \in Owners, identity'[o].enabled
      PROVE  KnownNext(o, identity'[o].secret)
  <2>1. CASE identity'[o].enabled = identity[o].enabled /\ identity'[o].secret = identity[o].secret
    BY <1>4, <2>1, KnownStays DEF KnownEverywhere, EnabledHaveSecrets
  <2>2. CASE Enable(r) /\ o = req[r].owner /\ identity'[o].secret = req[r].secret
    <3>1. req[r].at = "enable" /\ req[r].secret \in Secrets
      BY <1>1, <2>2, RequestFields DEF Enable, Carrying
    <3>. QED BY <2>2, <3>1, KnownStays DEF KnownEverywhere
  <2>. QED BY <1>4, <2>1, <2>2, IdentityHistory
<1>. QED BY <1>2, <1>3, <1>4 DEF KnownEverywhere, Known, KnownNext, Present

LEMMA ShownStays ==
  ASSUME ResetInv, ShownInv, [Next]_vars
  PROVE  ShownInv'
<1>. USE DEF ShownInv, ResetInv
<1>1. TypeOK' /\ InUse'
  BY TypeStep, ResetStays
<1>2. ASSUME NEW r \in Requests, LoginStep(r) \/ AnswerStep(r) \/ ResetStep(r)
      PROVE  ShownInv'
  BY <1>1, <1>2, OwnersAgreeStep, KnownStep, ShownGrows
<1>3. ASSUME NEW u \in Tokens, Lapse(u)
      PROVE  ShownInv'
  <2>1. \A t \in Tokens : Present(t)' => Present(t) /\ challenges'[t] = challenges[t]
    BY <1>3, LapseStep
  <2>2. UNCHANGED <<identity, req, shown>> /\ (undercut' = (undercut \/ OnItsWay(u)))
    BY <1>3 DEF Lapse
  <2>3. \A q \in Requests : req[q].at \in {"store", "reread"} => req[q].token \in Tokens
    BY RequestFields DEF TypeOK, Answering, Carrying
  <2>4. OwnersAgree'
    BY <2>1, <2>2, <2>3 DEF OwnersAgree
  <2>5. ASSUME NEW o, NEW s, ~undercut', Known(o, s) PROVE Known(o, s)'
    <3>1. \A q \in Requests : req[q].at = "reread" => req[q].token # u
      BY <2>2, <2>5 DEF OnItsWay
    <3>2. \A t \in Tokens : t # u => challenges'[t] = challenges[t]
      BY <1>3 DEF Lapse, TypeOK
    <3>. QED BY <2>2, <2>3, <2>5, <3>1, <3>2 DEF Known, Present
  <2>6. ~undercut' => KnownEverywhere'
    BY <2>1, <2>2, <2>5 DEF KnownEverywhere
  <2>. QED BY <1>1, <2>4, <2>6
<1>4. CASE UNCHANGED vars \/ \E s \in sessions : EndSession(s)
  <2>1. UNCHANGED <<identity, challenges, req, shown, undercut>>
    BY <1>4 DEF vars, storeVars, historyVars, EndSession
  <2>. QED BY <1>1, <2>1 DEF OwnersAgree, KnownEverywhere, Known, Present
<1>. QED BY <1>2, <1>3, <1>4 DEF Next

LEMMA ShownInit == Init => ShownInv
<1>1. Init => TypeOK /\ InUse
  BY ResetInit DEF ResetInv
<1>. QED BY <1>1 DEF Init, ShownInv, OwnersAgree, KnownEverywhere, Present, Unknown, Idle

\* An owner whose second factor is on was shown the secret it asks for, or is
\* about to be, however many setups, confirmations and resets ran at once
\* (totp_setup, auth.py:360, and totp_confirm_setup, auth.py:420).
THEOREM EnrolledCanAnswer == Spec => []EnrolledOwnersCanAnswer
<1>1. ShownInv => EnrolledOwnersCanAnswer
  BY DEF ShownInv, KnownEverywhere, Known, EnrolledOwnersCanAnswer
<1>. QED BY ResetInit, ResetStays, ShownInit, ShownStays, <1>1, PTL DEF Spec
=============================================================================
