----------------------------- MODULE AdminAccess -----------------------------
(***************************************************************************)
(* Access of an operator's staff: login with a mailed code, sessions with  *)
(* rotating refresh tokens, password reset and change (auth/service.go,    *)
(* auth/sessions.go, auth/password.go), suspension (cpo/service.go), and   *)
(* the authority of the platform's administrators (superadmin/service.go). *)
(*                                                                         *)
(* One identity with one membership.  A request is a transaction at READ   *)
(* COMMITTED: it waits for the row locks it needs, keeps them, and what it *)
(* writes is seen when it commits.  A request that is refused, or whose    *)
(* client goes away, leaves nothing behind.                                *)
(***************************************************************************)
EXTENDS Integers, Sequences, FiniteSets

CONSTANTS
  Requests,        \* requests handled at the same time
  Admins,          \* platform administrators
  MaxAttempts,     \* guesses per challenge (5 in the code)
  LoginMaxAttempts,\* failed logins that lock the identity
  MaxChallenges, MaxSessions, MaxTokens, MaxPassword  \* bounds

ASSUME LimitsAssumption ==
  /\ {MaxAttempts, LoginMaxAttempts, MaxPassword} \subseteq Nat \ {0}
  /\ IsFiniteSet(Admins) /\ Admins # {}

VARIABLES
  user,       \* password (its version), failed logins, locked out, membership
  challenges, \* auth_challenges: purpose, state, attempts; "won" and "guesses"
              \* are histories of what was let through and what was refused
  sessions,   \* auth_sessions: revoked; "password" is a history
  tokens,     \* auth_refresh_tokens; "rotations" is a history
  admins,     \* active platform administrators
  request     \* request[h]: what it does, how far it is, and what it read

vars == <<user, challenges, sessions, tokens, admins, request>>

Idle == [op |-> "none", step |-> "idle", arg |-> 0, read |-> <<>>,
         sessions |-> {}, tokens |-> {}]

Init ==
  /\ user = [password |-> 1, failures |-> 0, lockedOut |-> FALSE, member |-> TRUE]
  /\ challenges = <<>>
  /\ sessions = <<>>
  /\ tokens = <<>>
  /\ admins = Admins
  /\ request = [h \in Requests |-> Idle]

UserOps == {"LOGIN", "VERIFY", "RESEND", "FORGOT", "RESET", "CHANGE"}
RevokingOps == {"RESET", "CHANGE", "LOGOUT", "LOGOUT_ALL"}
AuthorityOps == {"DEACTIVATE", "GRANT"}

Live == {s \in DOMAIN sessions : ~sessions[s].revoked}
LiveTokens(S) ==
  {t \in DOMAIN tokens : tokens[t].session \in S /\ ~tokens[t].used /\ ~tokens[t].revoked}

\* validateSessionContextTx: identity, lockout and membership, read unlocked.
ContextValid == user.member /\ ~user.lockedOut

\* ValidateAccess.
Authenticated(s) == s \in Live /\ ContextValid

-----------------------------------------------------------------------------
(* Locks: what a request holds, and what its next step waits for. *)

HoldsUser(h) == request[h].op \in UserOps /\ request[h].step \in {"locked", "revoking"}
HoldsAuthority(h) == request[h].op \in AuthorityOps /\ request[h].step = "locked"
SessionLocks(h) ==
  IF request[h].op = "REFRESH" /\ request[h].step = "locked"
  THEN {tokens[request[h].arg].session} ELSE request[h].sessions
TokenLocks(h) ==
  IF request[h].op = "REFRESH" /\ request[h].step \in {"token", "locked"}
  THEN {request[h].arg} ELSE request[h].tokens

\* The sessions a request revokes: one, or all that are live.
Targets(h) == IF request[h].op = "LOGOUT" THEN {request[h].arg} ELSE DOMAIN sessions

\* A refresh that found its token used, or its authority gone, revokes.
RefreshRevokes(h) ==
  LET r == request[h].read IN
  r.token.used \/ (~r.token.revoked /\ ~r.session.revoked /\ ~ContextValid)

NeedsUser(h) == request[h].op \in UserOps /\ request[h].step = "begun"
NeedsAuthority(h) == request[h].op \in AuthorityOps /\ request[h].step = "begun"
NeedsSessions(h) ==
  LET r == request[h] IN
  CASE r.op = "REFRESH" /\ r.step = "token" -> {tokens[r.arg].session}
    [] r.op \in {"RESET", "CHANGE"} /\ r.step = "locked" -> Live
    [] r.op \in {"LOGOUT", "LOGOUT_ALL"} /\ r.step = "begun" -> Targets(h) \cap Live
    [] r.op = "SUSPEND" /\ r.step = "revoking" -> Live
    [] OTHER -> {}
NeedsTokens(h) ==
  LET r == request[h] IN
  CASE r.op = "REFRESH" /\ r.step = "begun" -> {r.arg}
    [] r.op = "REFRESH" /\ r.step = "locked" /\ RefreshRevokes(h) ->
         LiveTokens({tokens[r.arg].session})
    [] r.op \in RevokingOps /\ r.step = "revoking" -> LiveTokens(Targets(h))
    [] r.op = "SUSPEND" /\ r.step = "begun" -> LiveTokens(Live)
    [] OTHER -> {}

Blocks(g, h) ==
  /\ g # h
  /\ \/ NeedsUser(h) /\ HoldsUser(g)
     \/ NeedsAuthority(h) /\ HoldsAuthority(g)
     \/ NeedsSessions(h) \cap SessionLocks(g) # {}
     \/ NeedsTokens(h) \cap TokenLocks(g) # {}

Free(h) == \A g \in Requests : ~Blocks(g, h)

\* PostgreSQL ends a deadlock by aborting one of its transactions: a refresh
\* locks token then session, a revocation session then tokens.
DeadlockVictim(h) ==
  /\ \E g \in Requests : Blocks(g, h) /\ Blocks(h, g)
  /\ request' = [request EXCEPT ![h] = Idle]
  /\ UNCHANGED <<user, challenges, sessions, tokens, admins>>

\* A request is refused, its client goes away, or its process dies.
Abort(h) ==
  /\ request[h] # Idle
  /\ request' = [request EXCEPT ![h] = Idle]
  /\ UNCHANGED <<user, challenges, sessions, tokens, admins>>

-----------------------------------------------------------------------------
(* Requests arrive. *)

\* What a request may be about; a login has found its password right.
Arguments(op) ==
  CASE op = "LOGIN" -> IF user.lockedOut THEN {} ELSE {user.password}
    [] op \in {"VERIFY", "RESEND"} ->
         {c \in DOMAIN challenges : challenges[c].purpose = "LOGIN"}
    [] op = "RESET" -> {c \in DOMAIN challenges : challenges[c].purpose = "RESET"}
    [] op = "FORGOT" -> {0}
    [] op \in {"CHANGE", "LOGOUT", "LOGOUT_ALL"} ->
         {s \in DOMAIN sessions : Authenticated(s)}
    [] op = "REFRESH" -> DOMAIN tokens
    [] op = "SUSPEND" -> IF user.member THEN {0} ELSE {}
    [] op \in AuthorityOps -> Admins

Begin(h, op, arg) ==
  /\ request[h] = Idle
  /\ arg \in Arguments(op)
  /\ op = "SUSPEND" => \A g \in Requests : request[g].op # "SUSPEND"
  /\ request' = [request EXCEPT ![h] = [Idle EXCEPT !.op = op, !.step = "begun", !.arg = arg]]
  /\ UNCHANGED <<user, challenges, sessions, tokens, admins>>

\* lockUser, lockChallenge: the identity first, then the challenge.
LockUser(h) ==
  LET r == request[h] IN
  /\ r.op \in UserOps /\ r.step = "begun"
  /\ Free(h)
  /\ request' = [request EXCEPT ![h].step = "locked", ![h].read =
       [user |-> user,
        challenge |-> IF r.op \in {"VERIFY", "RESEND", "RESET"} THEN challenges[r.arg] ELSE <<>>]]
  /\ UNCHANGED <<user, challenges, sessions, tokens, admins>>

-----------------------------------------------------------------------------
(* Login and its challenge. *)

\* createChallengeTx: the ones before it are invalidated.
WithChallenge(list, purpose) ==
  Append([c \in DOMAIN list |->
            IF list[c].purpose = purpose /\ list[c].state = "open"
            THEN [list[c] EXCEPT !.state = "invalidated"] ELSE list[c]],
         [purpose |-> purpose, state |-> "open", attempts |-> 0, won |-> 0, guesses |-> 0])

\* recordFailedLogin, one statement.  (The count is capped where it locks out.)
LoginFails ==
  /\ ~user.lockedOut
  /\ \A g \in Requests : ~HoldsUser(g)
  /\ LET failures == user.failures + 1 IN
     user' = [user EXCEPT !.failures = IF failures < LoginMaxAttempts THEN failures
                                       ELSE LoginMaxAttempts,
                          !.lockedOut = failures >= LoginMaxAttempts]
  /\ UNCHANGED <<challenges, sessions, tokens, admins, request>>

LockoutEnds ==
  /\ user.lockedOut
  /\ \A g \in Requests : ~HoldsUser(g)
  /\ user' = [user EXCEPT !.lockedOut = FALSE]
  /\ UNCHANGED <<challenges, sessions, tokens, admins, request>>

Login(h) ==
  LET r == request[h] IN
  /\ r.op = "LOGIN" /\ r.step = "locked"
  /\ r.read.user.password = r.arg /\ ~r.read.user.lockedOut /\ user.member
  /\ Len(challenges) < MaxChallenges
  /\ user' = [user EXCEPT !.failures = 0, !.lockedOut = FALSE]
  /\ challenges' = WithChallenge(challenges, "LOGIN")
  /\ request' = [request EXCEPT ![h] = Idle]
  /\ UNCHANGED <<sessions, tokens, admins>>

Forgot(h) ==
  /\ request[h].op = "FORGOT" /\ request[h].step = "locked"
  /\ Len(challenges) < MaxChallenges
  /\ challenges' = WithChallenge(challenges, "RESET")
  /\ request' = [request EXCEPT ![h] = Idle]
  /\ UNCHANGED <<user, sessions, tokens, admins>>

Resend(h) ==
  LET r == request[h] IN
  /\ r.op = "RESEND" /\ r.step = "locked"
  /\ r.read.challenge.state = "open" /\ user.member
  /\ Len(challenges) < MaxChallenges
  /\ challenges' = WithChallenge([challenges EXCEPT ![r.arg].state = "invalidated"], "LOGIN")
  /\ request' = [request EXCEPT ![h] = Idle]
  /\ UNCHANGED <<user, sessions, tokens, admins>>

Usable(challenge) == challenge.state = "open" /\ challenge.attempts < MaxAttempts

\* recordChallengeFailure counts from the attempts that were read.
WrongCode(h) ==
  LET r == request[h] IN
  /\ r.op \in {"VERIFY", "RESET"} /\ r.step = "locked"
  /\ Usable(r.read.challenge)
  /\ challenges' = [challenges EXCEPT
       ![r.arg].attempts = r.read.challenge.attempts + 1,
       ![r.arg].state = IF r.read.challenge.attempts + 1 >= MaxAttempts
                          THEN "invalidated" ELSE @,
       ![r.arg].guesses = @ + 1]
  /\ request' = [request EXCEPT ![h] = Idle]
  /\ UNCHANGED <<user, sessions, tokens, admins>>

Token(s) == [session |-> s, used |-> FALSE, revoked |-> FALSE, rotations |-> 0]
Consumed(c) ==
  [challenges EXCEPT ![c].state = IF @ = "open" THEN "consumed" ELSE @, ![c].won = @ + 1]

\* The right code: the challenge is consumed and a session opened.
Verify(h) ==
  LET r == request[h] IN
  /\ r.op = "VERIFY" /\ r.step = "locked"
  /\ Usable(r.read.challenge) /\ user.member
  /\ Len(sessions) < MaxSessions /\ Len(tokens) < MaxTokens
  /\ challenges' = Consumed(r.arg)
  /\ sessions' = Append(sessions, [revoked |-> FALSE, password |-> user.password])
  /\ tokens' = Append(tokens, Token(Len(sessions) + 1))
  /\ request' = [request EXCEPT ![h] = Idle]
  /\ UNCHANGED <<user, admins>>

-----------------------------------------------------------------------------
(* Refresh. *)

LockToken(h) ==
  LET r == request[h] IN
  /\ r.op = "REFRESH" /\ r.step = "begun"
  /\ Free(h)
  /\ request' = [request EXCEPT ![h].step = "token", ![h].read = [token |-> tokens[r.arg]]]
  /\ UNCHANGED <<user, challenges, sessions, tokens, admins>>

LockSession(h) ==
  LET r == request[h] IN
  /\ r.op = "REFRESH" /\ r.step = "token"
  /\ Free(h)
  /\ request' = [request EXCEPT ![h].step = "locked",
       ![h].read = [token |-> r.read.token, session |-> sessions[tokens[r.arg].session]]]
  /\ UNCHANGED <<user, challenges, sessions, tokens, admins>>

Revoked(S) ==
  [s \in DOMAIN sessions |-> IF s \in S THEN [sessions[s] EXCEPT !.revoked = TRUE]
                                        ELSE sessions[s]]
TokensRevoked(T) ==
  [t \in DOMAIN tokens |-> IF t \in T THEN [tokens[t] EXCEPT !.revoked = TRUE] ELSE tokens[t]]

\* The token is replaced.
Rotate(h) ==
  LET t == request[h].arg
      r == request[h].read IN
  /\ request[h].op = "REFRESH" /\ request[h].step = "locked"
  /\ ~r.token.used /\ ~r.token.revoked /\ ~r.session.revoked /\ ContextValid
  /\ Len(tokens) < MaxTokens
  /\ tokens' = Append([tokens EXCEPT ![t].used = TRUE, ![t].rotations = @ + 1],
                      Token(tokens[t].session))
  /\ request' = [request EXCEPT ![h] = Idle]
  /\ UNCHANGED <<user, challenges, sessions, admins>>

\* A token is presented again (REFRESH_TOKEN_REUSE), or the authority is gone
\* (AUTHORITY_CHANGED): the session and its tokens are revoked.
RefreshEndsSession(h) ==
  LET s == tokens[request[h].arg].session IN
  /\ request[h].op = "REFRESH" /\ request[h].step = "locked"
  /\ RefreshRevokes(h)
  /\ Free(h)
  /\ sessions' = Revoked({s})
  /\ tokens' = TokensRevoked(LiveTokens({s}))
  /\ request' = [request EXCEPT ![h] = Idle]
  /\ UNCHANGED <<user, challenges, admins>>

-----------------------------------------------------------------------------
(* Logout, logout of all, password reset and change. *)

\* revokeSessionTx, revokeUserSessionsTx: the sessions first.
RevokeSessions(h) ==
  LET r == request[h] IN
  /\ \/ r.op \in {"LOGOUT", "LOGOUT_ALL"} /\ r.step = "begun"
     \/ r.op = "RESET" /\ r.step = "locked" /\ Usable(r.read.challenge)
     \/ r.op = "CHANGE" /\ r.step = "locked"
  /\ Free(h)
  /\ request' = [request EXCEPT ![h].step = "revoking",
                                ![h].sessions = Targets(h) \cap Live]
  /\ UNCHANGED <<user, challenges, sessions, tokens, admins>>

\* Then their tokens, and the commit.
Logout(h) ==
  LET r == request[h] IN
  /\ r.op \in {"LOGOUT", "LOGOUT_ALL"} /\ r.step = "revoking"
  /\ Free(h)
  /\ sessions' = Revoked(r.sessions)
  /\ tokens' = TokensRevoked(LiveTokens(Targets(h)))
  /\ request' = [request EXCEPT ![h] = Idle]
  /\ UNCHANGED <<user, challenges, admins>>

ResetPassword(h) ==
  LET r == request[h] IN
  /\ r.op = "RESET" /\ r.step = "revoking"
  /\ Free(h)
  /\ user.password < MaxPassword
  /\ user' = [user EXCEPT !.password = @ + 1, !.failures = 0, !.lockedOut = FALSE]
  /\ challenges' = Consumed(r.arg)
  /\ sessions' = Revoked(r.sessions)
  /\ tokens' = TokensRevoked(LiveTokens(DOMAIN sessions))
  /\ request' = [request EXCEPT ![h] = Idle]
  /\ UNCHANGED admins

ChangePassword(h) ==
  LET r == request[h] IN
  /\ r.op = "CHANGE" /\ r.step = "revoking"
  /\ Free(h)
  /\ user.password < MaxPassword
  /\ user' = [user EXCEPT !.password = @ + 1]
  /\ sessions' = Revoked(r.sessions)
  /\ tokens' = TokensRevoked(LiveTokens(DOMAIN sessions))
  /\ request' = [request EXCEPT ![h] = Idle]
  /\ UNCHANGED <<challenges, admins>>

-----------------------------------------------------------------------------
(* Suspension of the membership or of the operator: revokeCPOSessions goes *)
(* from the tokens to the sessions.                                        *)

SuspendTokens(h) ==
  /\ request[h].op = "SUSPEND" /\ request[h].step = "begun"
  /\ Free(h)
  /\ request' = [request EXCEPT ![h].step = "revoking", ![h].tokens = LiveTokens(Live)]
  /\ UNCHANGED <<user, challenges, sessions, tokens, admins>>

Suspend(h) ==
  /\ request[h].op = "SUSPEND" /\ request[h].step = "revoking"
  /\ Free(h)
  /\ user' = [user EXCEPT !.member = FALSE]
  /\ sessions' = Revoked(Live)
  /\ tokens' = TokensRevoked(request[h].tokens)
  /\ request' = [request EXCEPT ![h] = Idle]
  /\ UNCHANGED <<challenges, admins>>

Reactivate ==
  /\ ~user.member
  /\ user' = [user EXCEPT !.member = TRUE]
  /\ UNCHANGED <<challenges, sessions, tokens, admins, request>>

-----------------------------------------------------------------------------
(* The platform's administrators, under an advisory lock. *)

\* Mutant: the advisory lock is not taken.
ReadAuthority(h) ==
  /\ request[h].op \in AuthorityOps /\ request[h].step = "begun"
  /\ request' = [request EXCEPT ![h].step = "locked", ![h].read = admins]
  /\ UNCHANGED <<user, challenges, sessions, tokens, admins>>

LockAuthority(h) ==
  /\ request[h].op \in AuthorityOps /\ request[h].step = "begun"
  /\ Free(h)
  /\ request' = [request EXCEPT ![h].step = "locked", ![h].read = admins]
  /\ UNCHANGED <<user, challenges, sessions, tokens, admins>>

\* SetAdministratorStatus, InviteOrGrant.
SetAdministrator(h) ==
  LET r == request[h] IN
  /\ r.op \in AuthorityOps /\ r.step = "locked"
  /\ \/ r.op = "GRANT" /\ admins' = admins \cup {r.arg}
     \/ r.op = "DEACTIVATE" /\ r.arg \in r.read /\ Cardinality(r.read) > 1
          /\ admins' = admins \ {r.arg}
  /\ request' = [request EXCEPT ![h] = Idle]
  /\ UNCHANGED <<user, challenges, sessions, tokens>>

-----------------------------------------------------------------------------
Operations == UserOps \cup AuthorityOps
                \cup {"REFRESH", "LOGOUT", "LOGOUT_ALL", "SUSPEND"}

Handle(h) ==
  \/ LockUser(h) \/ Login(h) \/ Forgot(h) \/ Resend(h) \/ WrongCode(h) \/ Verify(h)
  \/ LockToken(h) \/ LockSession(h) \/ Rotate(h) \/ RefreshEndsSession(h)
  \/ RevokeSessions(h) \/ Logout(h) \/ ResetPassword(h) \/ ChangePassword(h)
  \/ SuspendTokens(h) \/ Suspend(h)
  \/ LockAuthority(h) \/ SetAdministrator(h)

Next ==
  \/ \E h \in Requests :
       \/ \E op \in Operations : \E arg \in Arguments(op) : Begin(h, op, arg)
       \/ Handle(h)
       \/ DeadlockVictim(h)
       \/ Abort(h)
  \/ LoginFails \/ LockoutEnds \/ Reactivate

Spec == Init /\ [][Next]_vars

-----------------------------------------------------------------------------
\* Types.
TypeOK ==
  /\ user \in [password : 1 .. MaxPassword, failures : 0 .. LoginMaxAttempts,
               lockedOut : BOOLEAN, member : BOOLEAN]
  /\ \A c \in DOMAIN challenges :
        /\ challenges[c].state \in {"open", "consumed", "invalidated"}
        /\ challenges[c].attempts \in 0 .. MaxAttempts
  /\ \A t \in DOMAIN tokens : tokens[t].session \in DOMAIN sessions
  /\ admins \subseteq Admins

\* Codes and tokens work once, however requests overlap: an identity has one
\* open challenge per purpose, a challenge lets through one request and takes
\* MaxAttempts wrong codes, a refresh token is rotated once, and a session has
\* one live token.
WorksOnce ==
  /\ TypeOK
  /\ \A c, d \in DOMAIN challenges :
        (challenges[c].state = "open" /\ challenges[d].state = "open"
           /\ challenges[c].purpose = challenges[d].purpose) => c = d
  /\ \A c \in DOMAIN challenges :
        challenges[c].won <= 1 /\ challenges[c].guesses <= MaxAttempts
  /\ \A t \in DOMAIN tokens : tokens[t].rotations <= 1
  /\ \A s \in DOMAIN sessions : Cardinality(LiveTokens({s})) <= 1

\* A session that is not revoked was opened after the last change of the
\* password: no login that was on its way when the password changed, and no
\* refresh, leaves one behind (lockUser in every flow that opens or revokes).
SessionsFollowPassword ==
  \A s \in Live : sessions[s].password = user.password

\* An active platform administrator remains, also when two deactivate each
\* other at the same time.
AdministratorRemains == admins # {}
=============================================================================
