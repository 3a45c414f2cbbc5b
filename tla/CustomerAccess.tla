---------------------------- MODULE CustomerAccess ----------------------------
(***************************************************************************)
(* A customer's access to an operator's app (customerauth/                 *)
(* authentication.go, sessions.go, password.go): login with a mailed code, *)
(* sessions with rotating refresh tokens, reset and change of the password.*)
(* Unlike an operator's, a customer's password change also ends the codes  *)
(* that are open, and revoking all sessions goes from the tokens to the    *)
(* sessions, revoking one from the session to its tokens.                  *)
(*                                                                         *)
(* One customer.  Requests are transactions at READ COMMITTED: they wait   *)
(* for the row locks they need, and what they write is seen at the commit. *)
(***************************************************************************)
EXTENDS Integers, Sequences, FiniteSets

CONSTANTS
  CustomerRequests,  \* requests handled at the same time
  MaxWrong,          \* wrong codes per challenge (5 in the code)
  MaxFailed,         \* failed logins that lock the customer out
  MaxCodes, MaxOpened, MaxIssued, MaxChanged  \* bounds

VARIABLES
  customer,  \* password (its version), failures, lockedOut; active: its operator
  codes,     \* customer_auth_challenges; "won", "guesses" and "password" are histories
  opened,    \* customer_auth_sessions; "password" is a history
  issued,    \* customer_auth_refresh_tokens; "rotations" is a history
  serving    \* serving[h]: what a request does, how far it is, what it read

accessVars == <<customer, codes, opened, issued, serving>>

Unused == [op |-> "none", step |-> "idle", arg |-> 0, read |-> <<>>,
           sessions |-> {}, tokens |-> {}]

AccessInit ==
  /\ customer = [password |-> 1, failures |-> 0, lockedOut |-> FALSE, active |-> TRUE]
  /\ codes = <<>>
  /\ opened = <<>>
  /\ issued = <<>>
  /\ serving = [h \in CustomerRequests |-> Unused]

Purposes == {"LOGIN", "RESET"}
ChallengeOps == {"VERIFY", "RESEND", "RESET"}
LockingOps == {"LOGIN", "FORGOT", "CHANGE", "PROFILE"} \cup ChallengeOps
RevokesAll == {"LOGOUT_ALL", "SUSPEND", "RESET", "CHANGE"}

LiveSessions == {s \in DOMAIN opened : ~opened[s].revoked}
LiveTokensOf(S) ==
  {t \in DOMAIN issued : issued[t].session \in S /\ ~issued[t].used /\ ~issued[t].revoked}

\* loadCustomerContext; a password reset also serves a customer who is locked out.
ContextLoads(allowLocked) == customer.active /\ (allowLocked \/ ~customer.lockedOut)

\* ValidateAccess.
Admitted(s) == s \in LiveSessions /\ ContextLoads(FALSE)

-----------------------------------------------------------------------------
(* Locks: what a request holds, and what its next statement waits for. *)

HoldsCustomer(h) == serving[h].op \in LockingOps /\ serving[h].step \in {"locked", "revoking"}
LockedSessions(h) ==
  IF serving[h].op = "REFRESH" /\ serving[h].step = "locked"
  THEN {issued[serving[h].arg].session} ELSE serving[h].sessions
LockedTokens(h) ==
  IF serving[h].op = "REFRESH" /\ serving[h].step \in {"token", "locked"}
  THEN {serving[h].arg} ELSE serving[h].tokens

Reused(h) == serving[h].read.token.used
TokenOver(h) == serving[h].read.token.revoked \/ serving[h].read.session.revoked
RefreshRevokes(h) == Reused(h) \/ (~TokenOver(h) /\ ~ContextLoads(FALSE))

WaitsForCustomer(h) == serving[h].op \in LockingOps /\ serving[h].step = "begun"
WaitsForSessions(h) ==
  LET r == serving[h] IN
  CASE r.op = "REFRESH" /\ r.step = "token" -> {issued[r.arg].session}
    [] r.op = "LOGOUT" /\ r.step = "begun" -> {r.arg} \cap LiveSessions
    [] r.op \in RevokesAll /\ r.step = "revoking" -> LiveSessions
    [] OTHER -> {}
WaitsForTokens(h) ==
  LET r == serving[h] IN
  CASE r.op = "REFRESH" /\ r.step = "begun" -> {r.arg}
    [] r.op = "REFRESH" /\ r.step = "locked" /\ RefreshRevokes(h) ->
         LiveTokensOf({issued[r.arg].session})
    [] r.op = "LOGOUT" /\ r.step = "revoking" -> LiveTokensOf({r.arg})
    [] \/ r.op \in {"LOGOUT_ALL", "SUSPEND"} /\ r.step = "begun"
       \/ r.op \in {"RESET", "CHANGE"} /\ r.step = "locked" -> LiveTokensOf(DOMAIN opened)
    [] OTHER -> {}

WaitsFor(h, g) ==
  /\ g # h
  /\ \/ WaitsForCustomer(h) /\ HoldsCustomer(g)
     \/ WaitsForSessions(h) \cap LockedSessions(g) # {}
     \/ WaitsForTokens(h) \cap LockedTokens(g) # {}

Proceeds(h) == \A g \in CustomerRequests : ~WaitsFor(h, g)

\* A check refuses, the client goes away, or PostgreSQL ends a deadlock.
GivesUp(h) ==
  /\ serving[h] # Unused
  /\ serving' = [serving EXCEPT ![h] = Unused]
  /\ UNCHANGED <<customer, codes, opened, issued>>

-----------------------------------------------------------------------------
(* Requests. *)

\* What a request may be about; a login has found its password right.
Subjects(op) ==
  CASE op = "LOGIN" -> IF ContextLoads(FALSE) THEN {customer.password} ELSE {}
    [] op \in {"FORGOT", "PROFILE"} -> {0}
    [] op = "SUSPEND" -> IF customer.active THEN {0} ELSE {}
    [] op = "VERIFY" -> {c \in DOMAIN codes : codes[c].purpose = "LOGIN"}
    [] op = "RESET" -> {c \in DOMAIN codes : codes[c].purpose = "RESET"}
    [] op = "RESEND" -> DOMAIN codes
    [] op \in {"CHANGE", "LOGOUT", "LOGOUT_ALL"} -> {s \in DOMAIN opened : Admitted(s)}
    [] op = "REFRESH" -> DOMAIN issued

BeginAccess(h, op, arg) ==
  /\ serving[h] = Unused
  /\ op = "SUSPEND" => \A g \in CustomerRequests : serving[g].op # "SUSPEND"
  /\ serving' = [serving EXCEPT ![h] =
       [Unused EXCEPT !.op = op, !.step = "begun", !.arg = arg]]
  /\ UNCHANGED <<customer, codes, opened, issued>>

RowsRead(h) ==
  [customer |-> customer,
   code |-> IF serving[h].op \in ChallengeOps THEN codes[serving[h].arg] ELSE <<>>]

\* lockCustomer, and lockAuthChallenge behind it.
LockCustomer(h) ==
  /\ serving[h].op \in LockingOps /\ serving[h].step = "begun"
  /\ Proceeds(h)
  /\ serving' = [serving EXCEPT ![h].step = "locked", ![h].read = RowsRead(h)]
  /\ UNCHANGED <<customer, codes, opened, issued>>

\* recordFailedLogin: one statement, no lock taken before it.
LoginRefused ==
  LET n == customer.failures + 1 IN
  /\ ~customer.lockedOut
  /\ \A g \in CustomerRequests : ~HoldsCustomer(g)
  /\ customer' = [customer EXCEPT !.failures = IF n < MaxFailed THEN n ELSE MaxFailed,
                                  !.lockedOut = n >= MaxFailed]
  /\ UNCHANGED <<codes, opened, issued, serving>>

LockoutElapses ==
  /\ customer.lockedOut
  /\ \A g \in CustomerRequests : ~HoldsCustomer(g)
  /\ customer' = [customer EXCEPT !.lockedOut = FALSE]
  /\ UNCHANGED <<codes, opened, issued, serving>>

OperatorActivated ==
  /\ ~customer.active
  /\ customer' = [customer EXCEPT !.active = TRUE]
  /\ UNCHANGED <<codes, opened, issued, serving>>

-----------------------------------------------------------------------------
(* Codes. *)

Invalidated(list, purposes) ==
  [c \in DOMAIN list |-> IF list[c].state = "open" /\ list[c].purpose \in purposes
                         THEN [list[c] EXCEPT !.state = "invalidated"] ELSE list[c]]

\* createAuthChallengeTx: the one before it of the purpose is invalidated.
WithCode(list, purpose) ==
  Append(Invalidated(list, {purpose}),
         [purpose |-> purpose, state |-> "open", attempts |-> 0, won |-> 0, guesses |-> 0,
          password |-> customer.password])

LoginAccepted(h) ==
  LET r == serving[h] IN
  /\ r.op = "LOGIN" /\ r.step = "locked"
  /\ r.read.customer.password = r.arg /\ ~r.read.customer.lockedOut
  /\ Len(codes) < MaxCodes
  /\ customer' = [customer EXCEPT !.failures = 0, !.lockedOut = FALSE]
  /\ codes' = WithCode(codes, "LOGIN")
  /\ serving' = [serving EXCEPT ![h] = Unused]
  /\ UNCHANGED <<opened, issued>>

ForgotPassword(h) ==
  /\ serving[h].op = "FORGOT" /\ serving[h].step = "locked"
  /\ Len(codes) < MaxCodes
  /\ codes' = WithCode(codes, "RESET")
  /\ serving' = [serving EXCEPT ![h] = Unused]
  /\ UNCHANGED <<customer, opened, issued>>

ResendCode(h) ==
  LET r == serving[h]
      purpose == r.read.code.purpose IN
  /\ r.op = "RESEND" /\ r.step = "locked"
  /\ r.read.code.state = "open" /\ ContextLoads(purpose = "RESET")
  /\ Len(codes) < MaxCodes
  /\ codes' = WithCode([codes EXCEPT ![r.arg].state = "invalidated"], purpose)
  /\ serving' = [serving EXCEPT ![h] = Unused]
  /\ UNCHANGED <<customer, opened, issued>>

CodeUsable(code) == code.state = "open" /\ code.attempts < MaxWrong

\* recordAuthChallengeFailure counts from the attempts that were read.
WrongAnswer(h) ==
  LET c == serving[h].arg
      n == serving[h].read.code.attempts + 1 IN
  /\ serving[h].op \in {"VERIFY", "RESET"} /\ serving[h].step = "locked"
  /\ CodeUsable(serving[h].read.code) /\ ContextLoads(serving[h].op = "RESET")
  /\ codes' = [codes EXCEPT ![c].attempts = n, ![c].guesses = @ + 1,
                            ![c].state = IF n >= MaxWrong THEN "invalidated" ELSE @]
  /\ serving' = [serving EXCEPT ![h] = Unused]
  /\ UNCHANGED <<customer, opened, issued>>

Answered(c) ==
  [codes EXCEPT ![c].state = IF @ = "open" THEN "consumed" ELSE @, ![c].won = @ + 1]

NewToken(s) == [session |-> s, used |-> FALSE, revoked |-> FALSE, rotations |-> 0]

\* VerifyLogin, createCustomerSession.
VerifyLogin(h) ==
  LET r == serving[h] IN
  /\ r.op = "VERIFY" /\ r.step = "locked"
  /\ CodeUsable(r.read.code) /\ ContextLoads(FALSE)
  /\ Len(opened) < MaxOpened /\ Len(issued) < MaxIssued
  /\ codes' = Answered(r.arg)
  /\ opened' = Append(opened, [revoked |-> FALSE, password |-> customer.password])
  /\ issued' = Append(issued, NewToken(Len(opened) + 1))
  /\ serving' = [serving EXCEPT ![h] = Unused]
  /\ UNCHANGED customer

\* UpdateProfile: a name or a phone number, nothing the access depends on.
UpdateProfile(h) ==
  /\ serving[h].op = "PROFILE" /\ serving[h].step = "locked"
  /\ serving' = [serving EXCEPT ![h] = Unused]
  /\ UNCHANGED <<customer, codes, opened, issued>>

-----------------------------------------------------------------------------
(* Refresh: the token first, then its session. *)

LockRefreshToken(h) ==
  LET r == serving[h] IN
  /\ r.op = "REFRESH" /\ r.step = "begun"
  /\ Proceeds(h)
  /\ serving' = [serving EXCEPT ![h].step = "token", ![h].read = [token |-> issued[r.arg]]]
  /\ UNCHANGED <<customer, codes, opened, issued>>

LockRefreshSession(h) ==
  LET r == serving[h] IN
  /\ r.op = "REFRESH" /\ r.step = "token"
  /\ Proceeds(h)
  /\ serving' = [serving EXCEPT ![h].step = "locked",
       ![h].read = [token |-> r.read.token, session |-> opened[issued[r.arg].session]]]
  /\ UNCHANGED <<customer, codes, opened, issued>>

SessionsRevoked(S) ==
  [s \in DOMAIN opened |-> IF s \in S THEN [opened[s] EXCEPT !.revoked = TRUE] ELSE opened[s]]
RevokedTokens(T) ==
  [t \in DOMAIN issued |-> IF t \in T THEN [issued[t] EXCEPT !.revoked = TRUE] ELSE issued[t]]

RotateToken(h) ==
  LET t == serving[h].arg IN
  /\ serving[h].op = "REFRESH" /\ serving[h].step = "locked"
  /\ ~Reused(h) /\ ~TokenOver(h) /\ ContextLoads(FALSE)
  /\ Len(issued) < MaxIssued
  /\ issued' = Append([issued EXCEPT ![t].used = TRUE, ![t].rotations = @ + 1],
                      NewToken(issued[t].session))
  /\ serving' = [serving EXCEPT ![h] = Unused]
  /\ UNCHANGED <<customer, codes, opened>>

\* REFRESH_TOKEN_REUSE and CUSTOMER_AUTHORITY_CHANGED.
RefreshRevoked(h) ==
  LET s == issued[serving[h].arg].session IN
  /\ serving[h].op = "REFRESH" /\ serving[h].step = "locked"
  /\ RefreshRevokes(h)
  /\ Proceeds(h)
  /\ opened' = SessionsRevoked({s})
  /\ issued' = RevokedTokens(LiveTokensOf({s}))
  /\ serving' = [serving EXCEPT ![h] = Unused]
  /\ UNCHANGED <<customer, codes>>

-----------------------------------------------------------------------------
(* Revocation. *)

\* revokeSessionTx: the session, then its tokens at the commit.
RevokeSession(h) ==
  LET r == serving[h] IN
  /\ r.op = "LOGOUT" /\ r.step = "begun"
  /\ Proceeds(h)
  /\ serving' = [serving EXCEPT ![h].step = "revoking",
                                ![h].sessions = {r.arg} \cap LiveSessions]
  /\ UNCHANGED <<customer, codes, opened, issued>>

Logout(h) ==
  LET r == serving[h] IN
  /\ r.op = "LOGOUT" /\ r.step = "revoking"
  /\ Proceeds(h)
  /\ opened' = SessionsRevoked(r.sessions)
  /\ issued' = RevokedTokens(LiveTokensOf({r.arg}))
  /\ serving' = [serving EXCEPT ![h] = Unused]
  /\ UNCHANGED <<customer, codes>>

\* revokeCustomerSessionsTx, revokeCPOSessions: the tokens, then the sessions at the commit.
RevokeTokens(h) ==
  LET r == serving[h] IN
  /\ \/ r.op \in {"LOGOUT_ALL", "SUSPEND"} /\ r.step = "begun"
     \/ r.op = "RESET" /\ r.step = "locked" /\ CodeUsable(r.read.code) /\ ContextLoads(TRUE)
     \/ r.op = "CHANGE" /\ r.step = "locked"
  /\ Proceeds(h)
  /\ serving' = [serving EXCEPT ![h].step = "revoking",
                                ![h].tokens = LiveTokensOf(DOMAIN opened)]
  /\ UNCHANGED <<customer, codes, opened, issued>>

AllRevoked(h) ==
  /\ serving[h].step = "revoking"
  /\ Proceeds(h)
  /\ opened' = SessionsRevoked(LiveSessions)
  /\ issued' = RevokedTokens(serving[h].tokens)
  /\ serving' = [serving EXCEPT ![h] = Unused]

LogoutAll(h) ==
  /\ serving[h].op = "LOGOUT_ALL"
  /\ AllRevoked(h)
  /\ UNCHANGED <<customer, codes>>

\* transitionStatus of the operator: its row, then every session of its customers.
OperatorSuspended(h) ==
  /\ serving[h].op = "SUSPEND"
  /\ AllRevoked(h)
  /\ customer' = [customer EXCEPT !.active = FALSE]
  /\ UNCHANGED codes

ResetPassword(h) ==
  /\ serving[h].op = "RESET"
  /\ AllRevoked(h)
  /\ customer.password < MaxChanged
  /\ customer' = [customer EXCEPT !.password = @ + 1, !.failures = 0, !.lockedOut = FALSE]
  /\ codes' = Invalidated(Answered(serving[h].arg), Purposes)

\* Mutant: the codes that are open stay open.
ChangeKeepsCodes(h) ==
  /\ serving[h].op = "CHANGE"
  /\ AllRevoked(h)
  /\ customer.password < MaxChanged
  /\ customer' = [customer EXCEPT !.password = @ + 1]
  /\ UNCHANGED codes

ChangePassword(h) ==
  /\ serving[h].op = "CHANGE"
  /\ AllRevoked(h)
  /\ customer.password < MaxChanged
  /\ customer' = [customer EXCEPT !.password = @ + 1]
  /\ codes' = Invalidated(codes, Purposes)

-----------------------------------------------------------------------------
AccessOperations == LockingOps \cup {"REFRESH", "LOGOUT", "LOGOUT_ALL", "SUSPEND"}

AccessNext ==
  \/ \E h \in CustomerRequests :
       \/ \E op \in AccessOperations : \E arg \in Subjects(op) : BeginAccess(h, op, arg)
       \/ LockCustomer(h) \/ LoginAccepted(h) \/ ForgotPassword(h) \/ ResendCode(h)
       \/ WrongAnswer(h) \/ VerifyLogin(h) \/ UpdateProfile(h)
       \/ LockRefreshToken(h) \/ LockRefreshSession(h) \/ RotateToken(h) \/ RefreshRevoked(h)
       \/ RevokeSession(h) \/ Logout(h) \/ RevokeTokens(h) \/ LogoutAll(h)
       \/ ResetPassword(h) \/ ChangePassword(h) \/ OperatorSuspended(h)
       \/ GivesUp(h)
  \/ LoginRefused \/ LockoutElapses \/ OperatorActivated

AccessSpec == AccessInit /\ [][AccessNext]_accessVars

-----------------------------------------------------------------------------
TypeOK ==
  /\ customer \in [password : 1 .. MaxChanged, failures : 0 .. MaxFailed,
                   lockedOut : BOOLEAN, active : BOOLEAN]
  /\ \A c \in DOMAIN codes :
        /\ codes[c].purpose \in Purposes
        /\ codes[c].state \in {"open", "consumed", "invalidated"}
        /\ codes[c].attempts \in 0 .. MaxWrong
  /\ \A t \in DOMAIN issued : issued[t].session \in DOMAIN opened
  /\ \A h \in CustomerRequests : serving[h].op \in AccessOperations \cup {"none"}

\* Codes and tokens work once, however requests overlap: one open code per
\* purpose, which lets through one request and takes MaxWrong wrong answers; a
\* refresh token is rotated once, and a session that is not revoked has at
\* most one token that is.
CustomerCodesWorkOnce ==
  /\ TypeOK
  /\ \A c, d \in DOMAIN codes :
        (codes[c].state = "open" /\ codes[d].state = "open"
           /\ codes[c].purpose = codes[d].purpose) => c = d
  /\ \A c \in DOMAIN codes : codes[c].won <= 1 /\ codes[c].guesses <= MaxWrong
  /\ \A t \in DOMAIN issued : issued[t].rotations <= 1
  /\ \A s \in DOMAIN opened : Cardinality(LiveTokensOf({s})) <= 1

\* After a change of the password no session and no open code is left from
\* before it.
AccessFollowsPassword ==
  /\ \A s \in LiveSessions : opened[s].password = customer.password
  /\ \A c \in DOMAIN codes :
        codes[c].state = "open" => codes[c].password = customer.password
=============================================================================
