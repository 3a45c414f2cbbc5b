---------------------------- MODULE Access_proofs ----------------------------
(***************************************************************************)
(* Theorems about the access of staff, administrators and customers        *)
(* (AdminAccess, CustomerAccess, CustomerSignup, RateLimit), for any       *)
(* number of requests, challenges, sessions and tokens.                    *)
(*                                                                         *)
(* What the parts promise is not inductive: a request acts on what it read *)
(* before.  Each invariant says that what was read under a lock is still   *)
(* what the row says, and that nobody else holds the lock.                 *)
(***************************************************************************)
EXTENDS MCAccess, FiniteSetTheorems, SequenceTheorems, TLAPS

allVars == <<vars, signupVars, customerVars, rateVars, part>>

\* A step of the composition is a step of one part, and none of the others.
LEMMA PartSteps ==
  ASSUME [AccessNext]_allVars
  PROVE  /\ [Next]_vars /\ [Signup!SignupNext]_signupVars
         /\ [Customer!AccessNext]_customerVars /\ [Rate!RateNext]_rateVars
  BY DEF AccessNext, allVars

-----------------------------------------------------------------------------
(* The requests of an operator's staff. *)

StepNames == {"idle", "begun", "locked", "token", "revoking"}

IsRequest(r) ==
  r \in [op : Operations \cup {"none"}, step : StepNames, arg : {r.arg},
         read : {r.read}, sessions : {r.sessions}, tokens : {r.tokens}]

Requested ==
  /\ DOMAIN request = Requests
  /\ \A h \in Requests : IsRequest(request[h])

\* One request moves on.
Turns(h, q) == request' = [request EXCEPT ![h] = q]

LEMMA Turned ==
  ASSUME Requested, NEW h \in Requests, NEW q, IsRequest(q), Turns(h, q)
  PROVE  /\ Requested' /\ request'[h] = q
         /\ \A g \in Requests \ {h} : request'[g] = request[g]
  BY DEF Requested, Turns

LEMMA IdleRequest ==
  /\ IsRequest(Idle) /\ Idle.op = "none" /\ Idle.step = "idle"
  /\ Idle.sessions = {} /\ Idle.tokens = {}
  BY DEF Idle, IsRequest, StepNames

Data == <<user, challenges, sessions, tokens, admins>>

\* What the steps that only move a request make of it
Keeps(r, q) == q.op = r.op /\ q.arg = r.arg
Moves(h, st) ==
  /\ Requested' /\ \A g \in Requests \ {h} : request'[g] = request[g]
  /\ request'[h].step = st

LEMMA BeginMoves ==
  ASSUME Requested, NEW h \in Requests, NEW op \in Operations, NEW arg, Begin(h, op, arg)
  PROVE  /\ Moves(h, "begun") /\ UNCHANGED Data
         /\ request'[h].op = op /\ request'[h].arg = arg
         /\ request'[h].sessions = {} /\ request'[h].tokens = {}
  <1> DEFINE q == [Idle EXCEPT !.op = op, !.step = "begun", !.arg = arg]
  <1>1. /\ q.op = op /\ q.step = "begun" /\ q.arg = arg /\ q.sessions = {} /\ q.tokens = {}
        /\ q.read = Idle.read
    BY DEF Idle
  <1>2. IsRequest(q)
    BY <1>1 DEF Idle, IsRequest, StepNames
  <1>3. Turns(h, q) /\ UNCHANGED Data
    BY DEF Begin, Turns, Data
  <1> HIDE DEF q
  <1> QED
    BY <1>1, <1>2, <1>3, Turned DEF Moves

LEMMA ReadMoves ==
  ASSUME Requested, NEW h \in Requests, NEW st \in StepNames, NEW rd,
         request' = [request EXCEPT ![h].step = st, ![h].read = rd]
  PROVE  /\ Moves(h, st) /\ Keeps(request[h], request'[h]) /\ request'[h].read = rd
         /\ request'[h].sessions = request[h].sessions
         /\ request'[h].tokens = request[h].tokens
  <1> DEFINE q == [request[h] EXCEPT !.step = st, !.read = rd]
  <1>1. IsRequest(request[h])
    BY DEF Requested
  <1>2. /\ q.step = st /\ q.read = rd /\ q.op = request[h].op /\ q.arg = request[h].arg
        /\ q.sessions = request[h].sessions /\ q.tokens = request[h].tokens
    BY <1>1 DEF IsRequest
  <1>3. IsRequest(q)
    BY <1>1, <1>2 DEF IsRequest
  <1>4. Turns(h, q)
    BY DEF Turns, Requested
  <1> HIDE DEF q
  <1> QED
    BY <1>2, <1>3, <1>4, Turned DEF Moves, Keeps

LEMMA LockUserMoves ==
  ASSUME Requested, NEW h \in Requests, LockUser(h)
  PROVE  /\ Moves(h, "locked") /\ Keeps(request[h], request'[h])
         /\ request'[h].read = [user |-> user,
              challenge |-> IF request[h].op \in {"VERIFY", "RESEND", "RESET"}
                            THEN challenges[request[h].arg] ELSE <<>>]
         /\ request'[h].sessions = request[h].sessions
         /\ request'[h].tokens = request[h].tokens
  <1> DEFINE rd == [user |-> user,
              challenge |-> IF request[h].op \in {"VERIFY", "RESEND", "RESET"}
                            THEN challenges[request[h].arg] ELSE <<>>]
  <1>1. request' = [request EXCEPT ![h].step = "locked", ![h].read = rd]
    BY Zenon DEF LockUser
  <1>2. "locked" \in StepNames
    BY DEF StepNames
  <1> HIDE DEF rd
  <1>3. /\ Moves(h, "locked") /\ Keeps(request[h], request'[h]) /\ request'[h].read = rd
        /\ request'[h].sessions = request[h].sessions
        /\ request'[h].tokens = request[h].tokens
    BY <1>1, <1>2, ReadMoves
  <1> QED
    BY <1>3 DEF rd

LEMMA SessionsMove ==
  ASSUME Requested, NEW h \in Requests, NEW S,
         request' = [request EXCEPT ![h].step = "revoking", ![h].sessions = S]
  PROVE  /\ Moves(h, "revoking") /\ Keeps(request[h], request'[h])
         /\ request'[h].read = request[h].read /\ request'[h].sessions = S
         /\ request'[h].tokens = request[h].tokens
  <1> DEFINE q == [request[h] EXCEPT !.step = "revoking", !.sessions = S]
  <1>1. IsRequest(request[h])
    BY DEF Requested
  <1>2. /\ q.step = "revoking" /\ q.sessions = S /\ q.op = request[h].op
        /\ q.arg = request[h].arg /\ q.read = request[h].read
        /\ q.tokens = request[h].tokens
    BY <1>1 DEF IsRequest
  <1>3. IsRequest(q)
    BY <1>1, <1>2 DEF IsRequest, StepNames
  <1>4. Turns(h, q)
    BY DEF Turns, Requested
  <1> HIDE DEF q
  <1> QED
    BY <1>2, <1>3, <1>4, Turned DEF Moves, Keeps

LEMMA TokensMove ==
  ASSUME Requested, NEW h \in Requests, NEW T,
         request' = [request EXCEPT ![h].step = "revoking", ![h].tokens = T]
  PROVE  /\ Moves(h, "revoking") /\ Keeps(request[h], request'[h])
         /\ request'[h].read = request[h].read /\ request'[h].tokens = T
         /\ request'[h].sessions = request[h].sessions
  <1> DEFINE q == [request[h] EXCEPT !.step = "revoking", !.tokens = T]
  <1>1. IsRequest(request[h])
    BY DEF Requested
  <1>2. /\ q.step = "revoking" /\ q.tokens = T /\ q.op = request[h].op
        /\ q.arg = request[h].arg /\ q.read = request[h].read
        /\ q.sessions = request[h].sessions
    BY <1>1 DEF IsRequest
  <1>3. IsRequest(q)
    BY <1>1, <1>2 DEF IsRequest, StepNames
  <1>4. Turns(h, q)
    BY DEF Turns, Requested
  <1> HIDE DEF q
  <1> QED
    BY <1>2, <1>3, <1>4, Turned DEF Moves, Keeps

LEMMA LockTokenMoves ==
  ASSUME Requested, NEW h \in Requests, LockToken(h)
  PROVE  /\ Moves(h, "token") /\ Keeps(request[h], request'[h])
         /\ request'[h].read.token = tokens[request[h].arg]
         /\ request'[h].sessions = request[h].sessions
         /\ request'[h].tokens = request[h].tokens
  <1> DEFINE rd == [token |-> tokens[request[h].arg]]
  <1>1. request' = [request EXCEPT ![h].step = "token", ![h].read = rd]
    BY Zenon DEF LockToken
  <1>2. "token" \in StepNames /\ rd.token = tokens[request[h].arg]
    BY DEF StepNames
  <1> HIDE DEF rd
  <1>3. /\ Moves(h, "token") /\ Keeps(request[h], request'[h]) /\ request'[h].read = rd
        /\ request'[h].sessions = request[h].sessions
        /\ request'[h].tokens = request[h].tokens
    BY <1>1, <1>2, ReadMoves
  <1> QED
    BY <1>2, <1>3

LEMMA LockSessionMoves ==
  ASSUME Requested, NEW h \in Requests, LockSession(h)
  PROVE  /\ Moves(h, "locked") /\ Keeps(request[h], request'[h])
         /\ request'[h].read.token = request[h].read.token
         /\ request'[h].sessions = request[h].sessions
         /\ request'[h].tokens = request[h].tokens
  <1> DEFINE rd == [token |-> request[h].read.token,
                    session |-> sessions[tokens[request[h].arg].session]]
  <1>1. request' = [request EXCEPT ![h].step = "locked", ![h].read = rd]
    BY Zenon DEF LockSession
  <1>2. "locked" \in StepNames /\ rd.token = request[h].read.token
    BY DEF StepNames
  <1> HIDE DEF rd
  <1>3. /\ Moves(h, "locked") /\ Keeps(request[h], request'[h]) /\ request'[h].read = rd
        /\ request'[h].sessions = request[h].sessions
        /\ request'[h].tokens = request[h].tokens
    BY <1>1, <1>2, ReadMoves
  <1> QED
    BY <1>2, <1>3

LEMMA LockAuthorityMoves ==
  ASSUME Requested, NEW h \in Requests, LockAuthority(h)
  PROVE  /\ Moves(h, "locked") /\ Keeps(request[h], request'[h])
         /\ request'[h].read = admins
         /\ request'[h].sessions = request[h].sessions
         /\ request'[h].tokens = request[h].tokens
  <1>1. request' = [request EXCEPT ![h].step = "locked", ![h].read = admins]
    BY Zenon DEF LockAuthority
  <1>2. "locked" \in StepNames
    BY DEF StepNames
  <1> QED
    BY <1>1, <1>2, ReadMoves

LEMMA RevokeSessionsMoves ==
  ASSUME Requested, NEW h \in Requests, RevokeSessions(h)
  PROVE  /\ Moves(h, "revoking") /\ Keeps(request[h], request'[h])
         /\ request'[h].read = request[h].read
         /\ request'[h].sessions = Targets(h) \cap Live
         /\ request'[h].tokens = request[h].tokens
  <1> DEFINE S == Targets(h) \cap Live
  <1>1. request' = [request EXCEPT ![h].step = "revoking", ![h].sessions = S]
    BY Zenon DEF RevokeSessions
  <1> HIDE DEF S
  <1>2. /\ Moves(h, "revoking") /\ Keeps(request[h], request'[h])
        /\ request'[h].read = request[h].read
        /\ request'[h].sessions = S
        /\ request'[h].tokens = request[h].tokens
    BY <1>1, SessionsMove
  <1> QED
    BY <1>2 DEF S

LEMMA SuspendTokensMoves ==
  ASSUME Requested, NEW h \in Requests, SuspendTokens(h)
  PROVE  /\ Moves(h, "revoking") /\ Keeps(request[h], request'[h])
         /\ request'[h].read = request[h].read
         /\ request'[h].sessions = request[h].sessions
         /\ request'[h].tokens = LiveTokens(Live)
  <1> DEFINE T == LiveTokens(Live)
  <1>1. request' = [request EXCEPT ![h].step = "revoking", ![h].tokens = T]
    BY Zenon DEF SuspendTokens
  <1> HIDE DEF T
  <1>2. /\ Moves(h, "revoking") /\ Keeps(request[h], request'[h])
        /\ request'[h].read = request[h].read
        /\ request'[h].sessions = request[h].sessions
        /\ request'[h].tokens = T
    BY <1>1, TokensMove
  <1> QED
    BY <1>2 DEF T

-----------------------------------------------------------------------------
(* Steps: a request arrives, waits for locks, or ends with what it does.   *)

Begins(h) == \E op \in Operations : \E arg \in Arguments(op) : Begin(h, op, arg)
Locks(h) ==
  LockUser(h) \/ LockToken(h) \/ LockSession(h) \/ LockAuthority(h)
    \/ RevokeSessions(h) \/ SuspendTokens(h)
Acts(h) ==
  Login(h) \/ Forgot(h) \/ Resend(h) \/ WrongCode(h) \/ Verify(h) \/ Rotate(h)
    \/ RefreshEndsSession(h) \/ Logout(h) \/ ResetPassword(h) \/ ChangePassword(h)
    \/ Suspend(h) \/ SetAdministrator(h)
GivesUp(h) == request' = [request EXCEPT ![h] = Idle] /\ UNCHANGED Data
UserSteps == LoginFails \/ LockoutEnds \/ Reactivate

LEMMA StaffSteps ==
  ASSUME [Next]_vars
  PROVE  \/ UNCHANGED <<Data, request>> \/ UserSteps
         \/ \E h \in Requests : Begins(h) \/ Locks(h) \/ Acts(h) \/ GivesUp(h)
  BY DEF Next, Handle, Begins, Locks, Acts, GivesUp, UserSteps, DeadlockVictim, Abort,
         Data, vars

LEMMA LocksMove ==
  ASSUME Requested, NEW h \in Requests, Locks(h)
  PROVE  /\ Moves(h, request'[h].step) /\ Keeps(request[h], request'[h])
         /\ UNCHANGED Data
  <1>1. UNCHANGED Data
    BY DEF Locks, LockUser, LockToken, LockSession, LockAuthority, RevokeSessions,
           SuspendTokens, Data
  <1> QED
    BY <1>1, LockUserMoves, LockTokenMoves, LockSessionMoves, LockAuthorityMoves,
       RevokeSessionsMoves, SuspendTokensMoves DEF Locks, Moves

LEMMA ActsMove ==
  ASSUME Requested, NEW h \in Requests, Acts(h) \/ GivesUp(h)
  PROVE  /\ Requested' /\ request'[h] = Idle
         /\ \A g \in Requests \ {h} : request'[g] = request[g]
  <1>1. Turns(h, Idle)
    BY DEF Acts, GivesUp, Turns, Login, Forgot, Resend, WrongCode, Verify, Rotate,
           RefreshEndsSession, Logout, ResetPassword, ChangePassword, Suspend,
           SetAdministrator
  <1> QED
    BY <1>1, IdleRequest, Turned

LEMMA BeginsMove ==
  ASSUME Requested, NEW h \in Requests, Begins(h)
  PROVE  /\ Moves(h, "begun") /\ UNCHANGED Data
         /\ request'[h].arg \in Arguments(request'[h].op)
         /\ request'[h].sessions = {} /\ request'[h].tokens = {}
  BY BeginMoves DEF Begins

LEMMA RequestedStays ==
  ASSUME Requested, [Next]_vars
  PROVE  Requested'
  <1>1. CASE UNCHANGED request
    BY <1>1 DEF Requested
  <1>2. UserSteps => UNCHANGED request
    BY DEF UserSteps, LoginFails, LockoutEnds, Reactivate
  <1> QED
    BY <1>1, <1>2, StaffSteps, BeginsMove, LocksMove, ActsMove DEF Moves

-----------------------------------------------------------------------------
(* The lock on the identity. *)

UserAlone == \A g, h \in Requests : HoldsUser(g) /\ HoldsUser(h) => g = h

\* Nobody else holds the identity of a request that comes to hold it.
LEMMA UserLockTaken ==
  ASSUME Requested, NEW h \in Requests, Begins(h) \/ Locks(h) \/ Acts(h) \/ GivesUp(h),
         HoldsUser(h)'
  PROVE  /\ Locks(h)
         /\ \/ HoldsUser(h) \/ \A g \in Requests \ {h} : ~HoldsUser(g)
  <1>1. ~Begins(h) /\ ~Acts(h) /\ ~GivesUp(h)
    BY BeginsMove, ActsMove, IdleRequest DEF HoldsUser, Moves
  <1>2. Locks(h) /\ request[h].op \in UserOps
    BY <1>1, LocksMove DEF Keeps, HoldsUser
  <1>3. CASE LockUser(h)
    BY <1>2, <1>3 DEF LockUser, Free, Blocks, NeedsUser
  <1>4. CASE RevokeSessions(h)
    BY <1>2, <1>4 DEF RevokeSessions, HoldsUser, UserOps
  <1>5. ~LockToken(h) /\ ~LockSession(h) /\ ~LockAuthority(h) /\ ~SuspendTokens(h)
    BY <1>2 DEF LockToken, LockSession, LockAuthority, SuspendTokens, UserOps, AuthorityOps
  <1> QED
    BY <1>2, <1>3, <1>4, <1>5 DEF Locks

LEMMA OthersHold ==
  ASSUME Requested, NEW h \in Requests, Begins(h) \/ Locks(h) \/ Acts(h) \/ GivesUp(h)
  PROVE  \A g \in Requests \ {h} : request'[g] = request[g] /\ (HoldsUser(g)' <=> HoldsUser(g))
  <1>1. \A g \in Requests \ {h} : request'[g] = request[g]
    BY BeginsMove, LocksMove, ActsMove DEF Moves
  <1> QED
    BY <1>1 DEF HoldsUser

LEMMA UserAloneStays ==
  ASSUME Requested, UserAlone, [Next]_vars
  PROVE  UserAlone'
  <1>1. CASE UNCHANGED request
    BY <1>1 DEF UserAlone, HoldsUser
  <1>2. UserSteps => UNCHANGED request
    BY DEF UserSteps, LoginFails, LockoutEnds, Reactivate
  <1>3. ASSUME NEW h \in Requests, Begins(h) \/ Locks(h) \/ Acts(h) \/ GivesUp(h)
        PROVE  UserAlone'
    BY <1>3, OthersHold, UserLockTaken DEF UserAlone
  <1> QED
    BY <1>1, <1>2, <1>3, StaffSteps

-----------------------------------------------------------------------------
(* The platform's administrators. *)

AuthorityInv ==
  /\ admins # {} /\ admins \subseteq Admins
  /\ \A g, h \in Requests : HoldsAuthority(g) /\ HoldsAuthority(h) => g = h
  /\ \A h \in Requests : HoldsAuthority(h) => request[h].read = admins
  /\ \A h \in Requests : request[h].op \in AuthorityOps => request[h].arg \in Admins

LEMMA AuthorityStays ==
  ASSUME Requested, AuthorityInv, [Next]_vars
  PROVE  AuthorityInv'
  <1>1. CASE UNCHANGED <<request, admins>>
    BY <1>1 DEF AuthorityInv, HoldsAuthority
  <1>2. UserSteps => UNCHANGED <<request, admins>>
    BY DEF UserSteps, LoginFails, LockoutEnds, Reactivate
  <1>3. ASSUME NEW h \in Requests, Begins(h)
        PROVE  AuthorityInv'
    <2>1. /\ request'[h].step = "begun" /\ request'[h].arg \in Arguments(request'[h].op)
          /\ \A g \in Requests \ {h} : request'[g] = request[g]
          /\ admins' = admins
      BY <1>3, BeginsMove DEF Moves, Data
    <2>2. request'[h].op \in AuthorityOps => request'[h].arg \in Admins
      BY <2>1 DEF Arguments, AuthorityOps
    <2> QED
      BY <2>1, <2>2 DEF AuthorityInv, HoldsAuthority
  <1>4. ASSUME NEW h \in Requests, Locks(h)
        PROVE  AuthorityInv'
    <2>1. /\ request'[h].op = request[h].op /\ request'[h].arg = request[h].arg
          /\ \A g \in Requests \ {h} : request'[g] = request[g]
          /\ admins' = admins
      BY <1>4, LocksMove DEF Moves, Keeps, Data
    <2>2. HoldsAuthority(h)' => LockAuthority(h)
      BY <1>4, <2>1 DEF HoldsAuthority, Locks, LockUser, LockToken, LockSession,
         RevokeSessions, SuspendTokens, UserOps, AuthorityOps
    <2>3. HoldsAuthority(h)' => request'[h].read = admins /\
            \A g \in Requests \ {h} : ~HoldsAuthority(g)
      <3> SUFFICES ASSUME LockAuthority(h)
                   PROVE  request'[h].read = admins /\
                            \A g \in Requests \ {h} : ~HoldsAuthority(g)
        BY <2>2
      <3>1. request'[h].read = admins
        BY LockAuthorityMoves
      <3> QED
        BY <3>1 DEF LockAuthority, Free, Blocks, NeedsAuthority
    <2>4. \A g \in Requests \ {h} : HoldsAuthority(g)' <=> HoldsAuthority(g)
      BY <2>1 DEF HoldsAuthority
    <2> QED
      BY <2>1, <2>3, <2>4 DEF AuthorityInv
  <1>5. ASSUME NEW h \in Requests, Acts(h) \/ GivesUp(h)
        PROVE  AuthorityInv'
    <2>1. /\ request'[h] = Idle
          /\ \A g \in Requests \ {h} : request'[g] = request[g]
      BY <1>5, ActsMove
    <2>2. \A g \in Requests : HoldsAuthority(g)' => g # h /\ HoldsAuthority(g)
      BY <2>1, IdleRequest DEF HoldsAuthority
    <2>3. \A g \in Requests : request'[g].op \in AuthorityOps => request'[g].arg \in Admins
      BY <2>1, IdleRequest DEF AuthorityInv, AuthorityOps
    <2>4. CASE SetAdministrator(h)
      <3>1. HoldsAuthority(h)
        BY <2>4 DEF SetAdministrator, HoldsAuthority
      <3>2. \A g \in Requests : ~HoldsAuthority(g)'
        BY <2>2, <3>1 DEF AuthorityInv
      <3>3. admins' # {} /\ admins' \subseteq Admins
        <4>1. CASE request[h].op = "GRANT"
          BY <2>4, <4>1 DEF SetAdministrator, AuthorityInv
        <4>2. CASE request[h].op = "DEACTIVATE"
          <5> DEFINE a == request[h].arg
          <5>1. Cardinality(admins) > 1 /\ admins' = admins \ {a}
            BY <2>4, <3>1, <4>2 DEF SetAdministrator, AuthorityInv
          <5>2. admins # {a}
            <6>1. Cardinality({a}) = 1
              BY FS_Singleton
            <6> HIDE DEF a
            <6> QED
              BY <5>1, <6>1
          <5> QED
            BY <5>1, <5>2 DEF AuthorityInv
        <4> QED
          BY <2>4, <4>1, <4>2 DEF SetAdministrator
      <3> QED
        BY <2>3, <3>2, <3>3 DEF AuthorityInv
    <2>5. CASE ~SetAdministrator(h)
      <3>1. admins' = admins
        BY <1>5, <2>5 DEF Acts, GivesUp, Data, Login, Forgot, Resend, WrongCode, Verify,
           Rotate, RefreshEndsSession, Logout, ResetPassword, ChangePassword, Suspend
      <3> QED
        BY <2>1, <2>2, <2>3, <3>1 DEF AuthorityInv
    <2> QED
      BY <2>4, <2>5
  <1> QED
    BY <1>1, <1>2, <1>3, <1>4, <1>5, StaffSteps DEF Data

-----------------------------------------------------------------------------
(* The challenges of staff. *)

CodeOps == {"VERIFY", "RESEND", "RESET"}

ChallengeRows == [purpose : {"LOGIN", "RESET"}, state : {"open", "consumed", "invalidated"},
                  attempts : Nat, won : Nat, guesses : Nat]

\* A challenge that is open has been neither won nor guessed to its limit.
GoodChallenge(c) ==
  /\ c \in ChallengeRows
  /\ c.attempts <= MaxAttempts /\ c.guesses = c.attempts /\ c.won <= 1
  /\ c.state = "open" => c.attempts < MaxAttempts /\ c.won = 0

OneOpen(list) ==
  \A c, d \in 1 .. Len(list) :
    list[c].state = "open" /\ list[d].state = "open" /\ list[c].purpose = list[d].purpose
      => c = d

GoodList(list) ==
  /\ list \in Seq(ChallengeRows) /\ OneOpen(list)
  /\ \A c \in 1 .. Len(list) : GoodChallenge(list[c])

\* What a request read of its challenge is what the row still says.
KnowsChallenge(h) ==
  /\ request[h].op \in CodeOps => request[h].arg \in 1 .. Len(challenges)
  /\ HoldsUser(h) /\ request[h].op \in CodeOps
       => request[h].read.challenge = challenges[request[h].arg]
  /\ request[h].op = "RESET" /\ request[h].step = "revoking"
       => Usable(request[h].read.challenge)

ChallengeInv == GoodList(challenges) /\ \A h \in Requests : KnowsChallenge(h)

LEMMA ListLen ==
  ASSUME NEW list, GoodList(list)
  PROVE  Len(list) \in Nat /\ DOMAIN list = 1 .. Len(list)
  BY LenProperties DEF GoodList

\* A challenge changes, and is not opened again.
LEMMA Changed ==
  ASSUME NEW list, GoodList(list), NEW c \in 1 .. Len(list), NEW q, GoodChallenge(q),
         q.purpose = list[c].purpose, q.state = "open" => list[c].state = "open"
  PROVE  GoodList([list EXCEPT ![c] = q]) /\ Len([list EXCEPT ![c] = q]) = Len(list)
  <1> DEFINE new == [list EXCEPT ![c] = q]
  <1>1. /\ new \in Seq(ChallengeRows) /\ Len(new) = Len(list)
        /\ \A d \in 1 .. Len(list) : new[d] = IF d = c THEN q ELSE list[d]
    BY ExceptSeq DEF GoodList, GoodChallenge
  <1> HIDE DEF new
  <1> QED
    BY <1>1 DEF GoodList, OneOpen

\* A new challenge invalidates the open one of its purpose.
LEMMA WithChallengeGood ==
  ASSUME NEW list, GoodList(list), NEW purpose \in {"LOGIN", "RESET"}
  PROVE  /\ GoodList(WithChallenge(list, purpose))
         /\ Len(WithChallenge(list, purpose)) = Len(list) + 1
  <1> DEFINE N == Len(list)
             old == [c \in DOMAIN list |->
                       IF list[c].purpose = purpose /\ list[c].state = "open"
                       THEN [list[c] EXCEPT !.state = "invalidated"] ELSE list[c]]
             e == [purpose |-> purpose, state |-> "open", attempts |-> 0, won |-> 0,
                   guesses |-> 0]
             new == WithChallenge(list, purpose)
  <1>1. N \in Nat /\ DOMAIN list = 1 .. N /\ \A c \in 1 .. N : GoodChallenge(list[c])
    BY ListLen DEF GoodList
  <1>2. ASSUME NEW c \in 1 .. N
        PROVE  /\ GoodChallenge(old[c]) /\ old[c].purpose = list[c].purpose
               /\ old[c].state = "open" => list[c].state = "open" /\ list[c].purpose # purpose
    <2>1. GoodChallenge(list[c])
      BY <1>1
    <2>2. CASE list[c].purpose = purpose /\ list[c].state = "open"
      <3>1. old[c] = [list[c] EXCEPT !.state = "invalidated"]
        BY <1>1, <2>2
      <3> QED
        BY <2>1, <3>1 DEF GoodChallenge, ChallengeRows
    <2>3. CASE ~(list[c].purpose = purpose /\ list[c].state = "open")
      <3>1. old[c] = list[c]
        BY <1>1, <2>3
      <3> QED
        BY <2>1, <2>3, <3>1
    <2> QED
      BY <2>2, <2>3
  <1>3. old \in Seq(ChallengeRows) /\ Len(old) = N
    <2>1. DOMAIN old = 1 .. N /\ \A c \in 1 .. N : old[c] \in ChallengeRows
      BY <1>1, <1>2 DEF GoodChallenge
    <2>2. old \in [1 .. N -> ChallengeRows]
      BY <2>1
    <2> HIDE DEF old
    <2>3. old \in Seq(ChallengeRows)
      BY <1>1, <2>2, SeqDef
    <2> QED
      BY <1>1, <2>1, <2>3, LenProperties
  <1>4. e \in ChallengeRows /\ GoodChallenge(e) /\ e.purpose = purpose
    BY LimitsAssumption DEF ChallengeRows, GoodChallenge
  <1>5. new = Append(old, e)
    BY DEF WithChallenge
  <1> HIDE DEF old, e, new
  <1>6. /\ new \in Seq(ChallengeRows) /\ Len(new) = N + 1 /\ new[N + 1] = e
        /\ \A c \in 1 .. N : new[c] = old[c]
    BY <1>3, <1>4, <1>5, AppendProperties
  <1> HIDE DEF N
  <1>7. \A c \in 1 .. N + 1 : c = N + 1 \/ c \in 1 .. N
    BY <1>1
  <1>8. OneOpen(new)
    <2>1. \A c, d \in 1 .. N : list[c].state = "open" /\ list[d].state = "open"
            /\ list[c].purpose = list[d].purpose => c = d
      BY DEF GoodList, OneOpen, N
    <2> QED
      BY <1>2, <1>4, <1>6, <1>7, <2>1 DEF OneOpen
  <1>9. \A c \in 1 .. N + 1 : GoodChallenge(new[c])
    BY <1>2, <1>4, <1>6, <1>7
  <1> QED
    BY <1>6, <1>8, <1>9 DEF GoodList, N, new

\* A wrong code counts; the last one allowed invalidates the challenge.
CountedCode(c) ==
  [c EXCEPT !.attempts = c.attempts + 1, !.guesses = c.guesses + 1,
            !.state = IF c.attempts + 1 >= MaxAttempts THEN "invalidated" ELSE c.state]
WonCode(c) == [c EXCEPT !.state = "consumed", !.won = c.won + 1]

LEMMA CountedGood ==
  ASSUME NEW c, GoodChallenge(c), c.state = "open"
  PROVE  GoodChallenge(CountedCode(c)) /\ CountedCode(c).purpose = c.purpose
  <1> DEFINE q == CountedCode(c)
             n == c.attempts + 1
             m == c.guesses + 1
             st == IF n >= MaxAttempts THEN "invalidated" ELSE c.state
  <1>1. /\ c \in ChallengeRows /\ c.attempts < MaxAttempts /\ c.guesses = c.attempts
        /\ c.won = 0 /\ n \in Nat /\ n <= MaxAttempts /\ m = n
        /\ st \in {"open", "invalidated"} /\ (st = "open" => n < MaxAttempts)
    BY LimitsAssumption DEF GoodChallenge, ChallengeRows
  <1>2. q = [c EXCEPT !.attempts = n, !.guesses = m, !.state = st]
    BY DEF CountedCode
  <1> HIDE DEF q, n, m, st
  <1>3. /\ q.attempts = n /\ q.state = st /\ q.guesses = m
        /\ q.won = c.won /\ q.purpose = c.purpose
    BY <1>1, <1>2 DEF ChallengeRows
  <1>4. q \in ChallengeRows
    BY <1>1, <1>2, <1>3 DEF ChallengeRows
  <1>5. GoodChallenge(q)
    BY <1>1, <1>3, <1>4 DEF GoodChallenge
  <1> QED
    BY <1>3, <1>5 DEF q

LEMMA WonGood ==
  ASSUME NEW c, GoodChallenge(c), c.state = "open"
  PROVE  /\ GoodChallenge(WonCode(c)) /\ WonCode(c).purpose = c.purpose
         /\ WonCode(c).state # "open"
  <1> DEFINE q == WonCode(c)
             n == c.won + 1
  <1>1. /\ c \in ChallengeRows /\ c.guesses = c.attempts /\ n = 1
        /\ c.attempts <= MaxAttempts
    BY DEF GoodChallenge, ChallengeRows
  <1>2. q = [c EXCEPT !.state = "consumed", !.won = n]
    BY DEF WonCode
  <1> HIDE DEF q, n
  <1>3. /\ q.attempts = c.attempts /\ q.state = "consumed" /\ q.guesses = c.guesses
        /\ q.won = 1 /\ q.purpose = c.purpose
    BY <1>1, <1>2 DEF ChallengeRows
  <1>4. q \in ChallengeRows
    BY <1>1, <1>2, <1>3 DEF ChallengeRows
  <1>5. GoodChallenge(q)
    BY <1>1, <1>3, <1>4 DEF GoodChallenge
  <1> QED
    BY <1>3, <1>5 DEF q

LEMMA InvalidGood ==
  ASSUME NEW c, GoodChallenge(c)
  PROVE  LET q == [c EXCEPT !.state = "invalidated"]
         IN  GoodChallenge(q) /\ q.purpose = c.purpose /\ q.state # "open"
  BY DEF GoodChallenge, ChallengeRows

\* What a request does to the challenges, it does with the identity locked and
\* knowing its challenge.
LEMMA ChallengesAct ==
  ASSUME Requested, ChallengeInv, NEW h \in Requests, Acts(h) \/ GivesUp(h)
  PROVE  /\ GoodList(challenges') /\ Len(challenges') >= Len(challenges)
         /\ HoldsUser(h) \/ challenges' = challenges
  <1> DEFINE c == request[h].arg
             ch == challenges[c]
  <1>0. GoodList(challenges) /\ Len(challenges) \in Nat
    BY ListLen DEF ChallengeInv
  <1>1. CASE challenges' = challenges
    BY <1>0, <1>1
  <1>2. ASSUME request[h].op \in CodeOps, HoldsUser(h)
        PROVE  /\ c \in 1 .. Len(challenges) /\ request[h].read.challenge = ch
               /\ GoodChallenge(ch)
    BY <1>0, <1>2 DEF ChallengeInv, KnowsChallenge, GoodList
  <1>3. CASE Login(h) \/ Forgot(h)
    <2>1. PICK p \in {"LOGIN", "RESET"} : challenges' = WithChallenge(challenges, p)
      BY <1>3 DEF Login, Forgot
    <2>2. HoldsUser(h)
      BY <1>3 DEF Login, Forgot, HoldsUser, UserOps
    <2> QED
      BY <1>0, <2>1, <2>2, WithChallengeGood
  <1>4. CASE Resend(h)
    <2>1. request[h].op \in CodeOps /\ HoldsUser(h)
      BY <1>4 DEF Resend, HoldsUser, UserOps, CodeOps
    <2> DEFINE q == [ch EXCEPT !.state = "invalidated"]
               list == [challenges EXCEPT ![c] = q]
    <2>2. ch.state = "open" /\ challenges' = WithChallenge(list, "LOGIN")
      BY <1>2, <1>4, <2>1 DEF Resend
    <2>3. GoodChallenge(q) /\ q.purpose = ch.purpose /\ q.state # "open"
      BY <1>2, <2>1, InvalidGood
    <2>4. GoodList(list) /\ Len(list) = Len(challenges)
      <3> HIDE DEF q
      <3> QED
        BY <1>0, <1>2, <2>1, <2>3, Changed
    <2> HIDE DEF list
    <2>5. GoodList(challenges') /\ Len(challenges') = Len(challenges) + 1
      BY <2>2, <2>4, WithChallengeGood
    <2> QED
      BY <1>0, <2>1, <2>5
  <1>5. CASE WrongCode(h)
    <2>1. request[h].op \in CodeOps /\ HoldsUser(h)
      BY <1>5 DEF WrongCode, HoldsUser, UserOps, CodeOps
    <2> DEFINE q == CountedCode(ch)
    <2>2. ch.state = "open" /\ challenges' = [challenges EXCEPT ![c] = q]
      BY <1>2, <1>5, <2>1 DEF WrongCode, Usable, CountedCode
    <2>3. GoodChallenge(q) /\ q.purpose = ch.purpose
      BY <1>2, <2>1, <2>2, CountedGood
    <2>4. GoodList(challenges') /\ Len(challenges') = Len(challenges)
      <3> HIDE DEF q
      <3> QED
        BY <1>0, <1>2, <2>1, <2>2, <2>3, Changed
    <2> QED
      BY <1>0, <2>1, <2>4
  <1>6. CASE Verify(h) \/ ResetPassword(h)
    <2>1. request[h].op \in CodeOps /\ HoldsUser(h)
      BY <1>6 DEF Verify, ResetPassword, HoldsUser, UserOps, CodeOps
    <2>2. ch.state = "open"
      BY <1>2, <1>6, <2>1 DEF Verify, ResetPassword, Usable, ChallengeInv, KnowsChallenge
    <2> DEFINE q == WonCode(ch)
    <2>3. challenges' = [challenges EXCEPT ![c] = q]
      BY <1>2, <1>6, <2>1, <2>2 DEF Verify, ResetPassword, Consumed, WonCode
    <2>4. GoodChallenge(q) /\ q.purpose = ch.purpose /\ q.state # "open"
      BY <1>2, <2>1, <2>2, WonGood
    <2>5. GoodList(challenges') /\ Len(challenges') = Len(challenges)
      <3> HIDE DEF q
      <3> QED
        BY <1>0, <1>2, <2>1, <2>3, <2>4, Changed
    <2> QED
      BY <1>0, <2>1, <2>5
  <1>7. \/ challenges' = challenges \/ Login(h) \/ Forgot(h) \/ Resend(h)
        \/ WrongCode(h) \/ Verify(h) \/ ResetPassword(h)
    BY DEF Acts, GivesUp, Data, Rotate, RefreshEndsSession, Logout, ChangePassword,
           Suspend, SetAdministrator
  <1> QED
    BY <1>1, <1>3, <1>4, <1>5, <1>6, <1>7

LEMMA ChallengesStay ==
  ASSUME Requested, UserAlone, ChallengeInv, [Next]_vars
  PROVE  ChallengeInv'
  <1>1. CASE UNCHANGED <<request, challenges>>
    BY <1>1 DEF ChallengeInv, KnowsChallenge, HoldsUser
  <1>2. UserSteps => UNCHANGED <<request, challenges>>
    BY DEF UserSteps, LoginFails, LockoutEnds, Reactivate
  <1>3. Len(challenges) \in Nat /\ DOMAIN challenges = 1 .. Len(challenges)
    BY ListLen DEF ChallengeInv
  <1>4. ASSUME NEW h \in Requests, Begins(h) \/ Locks(h)
        PROVE  ChallengeInv'
    <2>1. /\ challenges' = challenges
          /\ \A g \in Requests \ {h} : request'[g] = request[g]
      BY <1>4, BeginsMove, LocksMove DEF Moves, Data
    <2>2. \A g \in Requests \ {h} : KnowsChallenge(g)'
      BY <2>1 DEF ChallengeInv, KnowsChallenge, HoldsUser
    <2>3. CASE Begins(h)
      <3>1. /\ request'[h].step = "begun"
            /\ request'[h].arg \in Arguments(request'[h].op)
        BY <2>3, BeginsMove DEF Moves
      <3>2. request'[h].op \in CodeOps => request'[h].arg \in 1 .. Len(challenges)
        BY <1>3, <3>1 DEF Arguments, CodeOps, AuthorityOps
      <3>3. KnowsChallenge(h)'
        BY <2>1, <3>1, <3>2 DEF KnowsChallenge, HoldsUser
      <3> QED
        BY <2>1, <2>2, <3>3 DEF ChallengeInv
    <2>4. CASE Locks(h)
      <3>1. request'[h].op = request[h].op /\ request'[h].arg = request[h].arg
        BY <2>4, LocksMove DEF Keeps
      <3>2. KnowsChallenge(h)'
        <4>1. CASE request[h].op \notin CodeOps
          BY <3>1, <4>1 DEF KnowsChallenge, CodeOps
        <4>2. CASE request[h].op \in CodeOps /\ LockUser(h)
          <5>1. request'[h].step = "locked"
            BY <4>2, LockUserMoves DEF Moves
          <5>2. request'[h].read.challenge = challenges[request[h].arg]
            <6> DEFINE rd == [user |-> user, challenge |-> challenges[request[h].arg]]
            <6>1. request'[h].read = rd
              BY <4>2, LockUserMoves DEF CodeOps
            <6> QED
              BY <6>1
          <5> QED
            BY <2>1, <3>1, <5>1, <5>2 DEF ChallengeInv, KnowsChallenge
        <4>3. CASE request[h].op \in CodeOps /\ RevokeSessions(h)
          <5>1. /\ request[h].op = "RESET" /\ HoldsUser(h)
                /\ Usable(request[h].read.challenge)
            BY <4>3 DEF RevokeSessions, CodeOps, HoldsUser, UserOps
          <5>2. request'[h].read = request[h].read
            BY <4>3, RevokeSessionsMoves
          <5> QED
            BY <2>1, <3>1, <4>3, <5>1, <5>2 DEF ChallengeInv, KnowsChallenge, Usable
        <4>4. request[h].op \in CodeOps => LockUser(h) \/ RevokeSessions(h)
          BY <2>4 DEF Locks, LockToken, LockSession, LockAuthority, SuspendTokens, CodeOps,
                      AuthorityOps
        <4> QED
          BY <4>1, <4>2, <4>3, <4>4
      <3> QED
        BY <2>1, <2>2, <3>2 DEF ChallengeInv
    <2> QED
      BY <1>4, <2>3, <2>4
  <1>5. ASSUME NEW h \in Requests, Acts(h) \/ GivesUp(h)
        PROVE  ChallengeInv'
    <2>1. /\ GoodList(challenges') /\ Len(challenges') >= Len(challenges)
          /\ HoldsUser(h) \/ challenges' = challenges
      BY <1>5, ChallengesAct
    <2>2. Len(challenges') \in Nat
      BY <2>1, ListLen
    <2>3. /\ request'[h] = Idle /\ \A g \in Requests \ {h} : request'[g] = request[g]
      BY <1>5, ActsMove
    <2>4. KnowsChallenge(h)'
      BY <2>3, IdleRequest DEF KnowsChallenge, CodeOps
    <2>5. ASSUME NEW g \in Requests \ {h}
          PROVE  KnowsChallenge(g)'
      <3>1. HoldsUser(g)' => HoldsUser(g) /\ challenges' = challenges
        BY <2>1, <2>3 DEF UserAlone, HoldsUser
      <3> QED
        BY <1>3, <2>1, <2>2, <2>3, <3>1 DEF ChallengeInv, KnowsChallenge
    <2> QED
      BY <2>1, <2>4, <2>5 DEF ChallengeInv
  <1> QED
    BY <1>1, <1>2, <1>4, <1>5, StaffSteps DEF Data

-----------------------------------------------------------------------------
(* The sessions and tokens of staff. *)

TokenRows == [session : Nat, used : BOOLEAN, revoked : BOOLEAN, rotations : Nat]
SessionRows == [revoked : BOOLEAN, password : Nat]

IsLive(k) == ~k.used /\ ~k.revoked
OneLive(list) ==
  \A t, u \in 1 .. Len(list) :
    IsLive(list[t]) /\ IsLive(list[u]) /\ list[t].session = list[u].session => t = u

\* A token that was rotated is used.
GoodToken(k, n) ==
  /\ k \in TokenRows /\ k.session \in 1 .. n
  /\ k.rotations <= 1 /\ (k.rotations # 0 => k.used)

GoodTokens(list, n) ==
  /\ list \in Seq(TokenRows) /\ OneLive(list)
  /\ \A t \in 1 .. Len(list) : GoodToken(list[t], n)

LEMMA TokenLen ==
  ASSUME NEW list, NEW n, GoodTokens(list, n)
  PROVE  Len(list) \in Nat /\ DOMAIN list = 1 .. Len(list)
  BY LenProperties DEF GoodTokens

RevokedToken(k) == [k EXCEPT !.revoked = TRUE]

LEMMA RevokedTokenGood ==
  ASSUME NEW n, NEW k, GoodToken(k, n)
  PROVE  /\ GoodToken(RevokedToken(k), n) /\ ~IsLive(RevokedToken(k))
         /\ RevokedToken(k).session = k.session
  <1> DEFINE q == RevokedToken(k)
  <1>1. k \in TokenRows
    BY DEF GoodToken
  <1>2. q.session = k.session /\ q.rotations = k.rotations
    BY <1>1 DEF RevokedToken, TokenRows
  <1>3. q.used = k.used /\ q.revoked
    BY <1>1, Zenon DEF RevokedToken, TokenRows
  <1>4. q \in TokenRows
    BY <1>1 DEF RevokedToken, TokenRows
  <1> HIDE DEF q
  <1>5. GoodToken(q, n) /\ ~IsLive(q)
    BY <1>1, <1>2, <1>3, <1>4 DEF GoodToken, IsLive
  <1> QED
    BY <1>2, <1>5 DEF q

ListRevoked(list, T) ==
  [t \in DOMAIN list |-> IF t \in T THEN [list[t] EXCEPT !.revoked = TRUE] ELSE list[t]]

\* Tokens are revoked.
LEMMA TokensRevokedGood ==
  ASSUME NEW n, NEW list, GoodTokens(list, n), NEW T
  PROVE  /\ GoodTokens(ListRevoked(list, T), n)
         /\ Len(ListRevoked(list, T)) = Len(list)
         /\ \A t \in 1 .. Len(list) : t \notin T => ListRevoked(list, T)[t] = list[t]
  <1> DEFINE N == Len(list)
             new == ListRevoked(list, T)
  <1>1. N \in Nat /\ DOMAIN list = 1 .. N
    BY TokenLen
  <1>2. /\ DOMAIN new = 1 .. N
        /\ \A t \in 1 .. N : new[t] = IF t \in T THEN RevokedToken(list[t]) ELSE list[t]
    BY <1>1 DEF ListRevoked, RevokedToken
  <1>3. \A t \in 1 .. N : /\ GoodToken(new[t], n) /\ new[t].session = list[t].session
                          /\ IsLive(new[t]) => IsLive(list[t])
                          /\ t \notin T => new[t] = list[t]
    BY <1>2, RevokedTokenGood DEF GoodTokens
  <1>4. new \in [1 .. N -> TokenRows]
    BY <1>1, <1>2, <1>3 DEF GoodToken, ListRevoked
  <1> HIDE DEF new
  <1>5. new \in Seq(TokenRows)
    BY <1>1, <1>4, SeqDef
  <1>6. Len(new) = N
    BY <1>1, <1>2, <1>5, LenProperties
  <1>7. OneLive(new)
    BY <1>3, <1>6 DEF GoodTokens, OneLive
  <1> QED
    BY <1>3, <1>5, <1>6, <1>7 DEF GoodTokens, new

AddedToken(list, s) == Append(list, Token(s))
Kept(list, new) == \A t \in 1 .. Len(list) : new[t] = list[t]
NoneLive(list, s) == \A t \in 1 .. Len(list) : list[t].session = s => ~IsLive(list[t])

\* A new token of a session that has no live one
LEMMA TokenAdded ==
  ASSUME NEW n, NEW m \in Nat, n \in Nat, n <= m, NEW list, GoodTokens(list, n),
         NEW s \in 1 .. m,
         NoneLive(list, s)
  PROVE  /\ GoodTokens(AddedToken(list, s), m)
         /\ Len(AddedToken(list, s)) = Len(list) + 1
         /\ Kept(list, AddedToken(list, s))
  <1> DEFINE N == Len(list)
             e == Token(s)
             new == AddedToken(list, s)
  <1>1. N \in Nat /\ list \in Seq(TokenRows)
    BY TokenLen DEF GoodTokens
  <1>2. e \in TokenRows /\ e.session = s /\ GoodToken(e, m)
    BY DEF Token, TokenRows, GoodToken
  <1>3. /\ new \in Seq(TokenRows) /\ Len(new) = N + 1 /\ new[N + 1] = e
        /\ \A t \in 1 .. N : new[t] = list[t]
    BY <1>1, <1>2, AppendProperties DEF AddedToken, e
  <1> HIDE DEF new, N, e
  <1>4. \A t \in 1 .. N + 1 : t = N + 1 \/ t \in 1 .. N
    BY <1>1
  <1>5. \A t \in 1 .. N : GoodToken(list[t], m)
    BY DEF GoodTokens, GoodToken, N
  <1>6. \A t \in 1 .. N + 1 : GoodToken(new[t], m)
    BY <1>2, <1>3, <1>4, <1>5
  <1>7. OneLive(new)
    <2>1. \A t, u \in 1 .. N : IsLive(list[t]) /\ IsLive(list[u])
            /\ list[t].session = list[u].session => t = u
      BY DEF GoodTokens, OneLive, N
    <2>2. \A t \in 1 .. N : list[t].session = s => ~IsLive(list[t])
      BY DEF N, NoneLive
    <2> QED
      BY <1>2, <1>3, <1>4, <2>1, <2>2 DEF OneLive
  <1>8. GoodTokens(new, m)
    BY <1>3, <1>6, <1>7 DEF GoodTokens
  <1> QED
    BY <1>3, <1>8 DEF new, N, e, Kept

UsedToken(k) == [k EXCEPT !.used = TRUE, !.rotations = k.rotations + 1]

\* The token that is rotated was not used.
LEMMA UsedTokenGood ==
  ASSUME NEW n, NEW k, GoodToken(k, n), ~k.used
  PROVE  /\ GoodToken(UsedToken(k), n) /\ ~IsLive(UsedToken(k))
         /\ UsedToken(k).session = k.session
  <1> DEFINE q == UsedToken(k)
             i == k.rotations + 1
  <1>1. k \in TokenRows /\ i = 1
    BY DEF GoodToken, TokenRows
  <1>2. q = [k EXCEPT !.used = TRUE, !.rotations = i]
    BY DEF UsedToken
  <1> HIDE DEF q, i
  <1>3. q.session = k.session /\ q.rotations = 1
    BY <1>1, <1>2 DEF TokenRows
  <1>4. q.used
    BY <1>1, <1>2, Zenon DEF TokenRows
  <1>5. q \in TokenRows
    BY <1>1, <1>2 DEF TokenRows
  <1>6. GoodToken(q, n) /\ ~IsLive(q)
    BY <1>3, <1>4, <1>5 DEF GoodToken, IsLive
  <1> QED
    BY <1>3, <1>6 DEF q

\* The token that is rotated was the live one of its session.
LEMMA LiveTokenUsed ==
  ASSUME NEW n, NEW list, GoodTokens(list, n), NEW t \in 1 .. Len(list), IsLive(list[t])
  PROVE  LET new == [list EXCEPT ![t] = UsedToken(list[t])]
         IN  /\ GoodTokens(new, n) /\ Len(new) = Len(list)
             /\ \A u \in 1 .. Len(list) : u # t => new[u] = list[u]
             /\ \A u \in 1 .. Len(list) : new[u].session = list[t].session => ~IsLive(new[u])
  <1> DEFINE q == UsedToken(list[t])
             new == [list EXCEPT ![t] = q]
  <1>1. /\ GoodToken(q, n) /\ ~IsLive(q) /\ q.session = list[t].session
    BY UsedTokenGood DEF GoodTokens, IsLive
  <1> HIDE DEF q
  <1>2. /\ new \in Seq(TokenRows) /\ Len(new) = Len(list)
        /\ \A u \in 1 .. Len(list) : new[u] = IF u = t THEN q ELSE list[u]
    BY <1>1, ExceptSeq DEF GoodTokens, GoodToken
  <1> HIDE DEF new
  <1>3. GoodTokens(new, n)
    BY <1>1, <1>2 DEF GoodTokens, OneLive
  <1>4. \A u \in 1 .. Len(list) : new[u].session = list[t].session => ~IsLive(new[u])
    BY <1>1, <1>2 DEF GoodTokens, OneLive
  <1> QED
    BY <1>2, <1>3, <1>4 DEF new, q

RevokedSession(k) == [k EXCEPT !.revoked = TRUE]

\* Sessions are revoked.
LEMMA SessionsRevokedGood ==
  ASSUME NEW list \in Seq(SessionRows), NEW S
  PROVE  /\ ListRevoked(list, S) \in Seq(SessionRows) /\ Len(ListRevoked(list, S)) = Len(list)
         /\ \A s \in 1 .. Len(list) :
              /\ ListRevoked(list, S)[s].password = list[s].password
              /\ ~ListRevoked(list, S)[s].revoked => ~list[s].revoked /\ s \notin S
  <1> DEFINE N == Len(list)
             new == ListRevoked(list, S)
  <1>1. N \in Nat /\ DOMAIN list = 1 .. N /\ \A s \in 1 .. N : list[s] \in SessionRows
    BY LenProperties, ElementOfSeq
  <1>2. /\ DOMAIN new = 1 .. N
        /\ \A s \in 1 .. N :
             new[s] = IF s \in S THEN RevokedSession(list[s]) ELSE list[s]
    BY <1>1 DEF ListRevoked, RevokedSession
  <1>3. ASSUME NEW k \in SessionRows
        PROVE  /\ RevokedSession(k) \in SessionRows /\ RevokedSession(k).password = k.password
    BY DEF RevokedSession, SessionRows
  <1>4. ASSUME NEW k \in SessionRows
        PROVE  RevokedSession(k).revoked
    BY <1>4, Zenon DEF RevokedSession, SessionRows
  <1>5. \A s \in 1 .. N : /\ new[s] \in SessionRows /\ new[s].password = list[s].password
                          /\ ~new[s].revoked => ~list[s].revoked /\ s \notin S
    BY <1>1, <1>2, <1>3, <1>4
  <1>6. new \in [1 .. N -> SessionRows]
    BY <1>1, <1>2, <1>5 DEF ListRevoked
  <1> HIDE DEF new
  <1>7. new \in Seq(SessionRows)
    BY <1>1, <1>6, SeqDef
  <1>8. Len(new) = N
    BY <1>1, <1>2, <1>7, LenProperties
  <1> QED
    BY <1>5, <1>7, <1>8 DEF new

\* A refresh knows its token, and nobody else holds a token it holds.
KnowsToken(h) ==
  request[h].op = "REFRESH" =>
    /\ request[h].arg \in 1 .. Len(tokens)
    /\ request[h].step \in {"token", "locked"} => request[h].read.token = tokens[request[h].arg]

TokensAlone ==
  \A g, h \in Requests : g # h => TokenLocks(g) \cap TokenLocks(h) = {}

TokenInv ==
  /\ sessions \in Seq(SessionRows) /\ GoodTokens(tokens, Len(sessions))
  /\ \A h \in Requests : KnowsToken(h)
  /\ TokensAlone

LEMMA Limits ==
  /\ MaxAttempts \in Nat \ {0} /\ LoginMaxAttempts \in Nat \ {0} /\ MaxPassword \in Nat \ {0}
  /\ 0 \in 0 .. LoginMaxAttempts
  BY LimitsAssumption

\* The identity.
UserRows == [password : 1 .. MaxPassword, failures : 0 .. LoginMaxAttempts,
             lockedOut : BOOLEAN, member : BOOLEAN]

LEMMA UserStays ==
  ASSUME user \in UserRows, [Next]_vars
  PROVE  user' \in UserRows
  <1> USE Limits
  <1>1. CASE LoginFails
    <2> DEFINE n == user.failures + 1
               m == IF n < LoginMaxAttempts THEN n ELSE LoginMaxAttempts
               e == n >= LoginMaxAttempts
    <2>1. user' = [user EXCEPT !.failures = m, !.lockedOut = e]
      BY <1>1 DEF LoginFails
    <2>2. m \in 0 .. LoginMaxAttempts
      BY DEF UserRows
    <2>3. e \in BOOLEAN
      OBVIOUS
    <2> HIDE DEF m, e
    <2> QED
      BY <2>1, <2>2, <2>3 DEF UserRows
  <1>2. CASE LockoutEnds
    BY <1>2 DEF LockoutEnds, UserRows
  <1>3. CASE Reactivate
    BY <1>3 DEF Reactivate, UserRows
  <1>4. ASSUME NEW h \in Requests, Begins(h) \/ Locks(h) \/ GivesUp(h)
        PROVE  user' \in UserRows
    BY <1>4 DEF Begins, Begin, Locks, LockUser, LockToken, LockSession, LockAuthority,
           RevokeSessions, SuspendTokens, GivesUp, Data
  <1>5. ASSUME NEW h \in Requests, Acts(h)
        PROVE  user' \in UserRows
    <2>1. CASE Login(h)
      <3>1. user' = [user EXCEPT !.failures = 0, !.lockedOut = FALSE]
        BY <2>1 DEF Login
      <3> QED
        BY <3>1 DEF UserRows
    <2>2. CASE ResetPassword(h)
      <3> DEFINE m == user.password + 1
      <3>1. user' = [user EXCEPT !.password = m, !.failures = 0, !.lockedOut = FALSE]
        BY <2>2 DEF ResetPassword
      <3>2. m \in 1 .. MaxPassword
        BY <2>2 DEF ResetPassword, UserRows
      <3> HIDE DEF m
      <3> QED
        BY <3>1, <3>2 DEF UserRows
    <2>3. CASE ChangePassword(h)
      <3> DEFINE m == user.password + 1
      <3>1. user' = [user EXCEPT !.password = m]
        BY <2>3 DEF ChangePassword
      <3>2. m \in 1 .. MaxPassword
        BY <2>3 DEF ChangePassword, UserRows
      <3> HIDE DEF m
      <3> QED
        BY <3>1, <3>2 DEF UserRows
    <2>4. CASE Suspend(h)
      <3>1. user' = [user EXCEPT !.member = FALSE]
        BY <2>4 DEF Suspend
      <3> QED
        BY <3>1 DEF UserRows
    <2> QED
      BY <1>5, <2>1, <2>2, <2>3, <2>4 DEF Acts, Forgot, Resend, WrongCode, Verify, Rotate,
         RefreshEndsSession, Logout, SetAdministrator
  <1> QED
    BY <1>1, <1>2, <1>3, <1>4, <1>5, StaffSteps DEF UserSteps, Data

\* What a request does to the tokens leaves alone those that others hold.
LEMMA TokensAct ==
  ASSUME Requested, TokenInv, user \in UserRows,
         NEW h \in Requests, Acts(h) \/ GivesUp(h)
  PROVE  /\ sessions' \in Seq(SessionRows) /\ GoodTokens(tokens', Len(sessions'))
         /\ Len(tokens') >= Len(tokens)
         /\ \A g \in Requests \ {h} : \A t \in TokenLocks(g) \cap 1 .. Len(tokens) :
              tokens'[t] = tokens[t]
  <1> DEFINE n == Len(sessions)
             a == request[h].arg
  <1>1. /\ sessions \in Seq(SessionRows) /\ GoodTokens(tokens, n)
        /\ n \in Nat /\ Len(tokens) \in Nat /\ DOMAIN tokens = 1 .. Len(tokens)
    BY TokenLen, LenProperties DEF TokenInv
  <1>2. CASE UNCHANGED <<sessions, tokens>>
    BY <1>1, <1>2
  <1>3. CASE Verify(h)
    <2> DEFINE e == [revoked |-> FALSE, password |-> user.password]
    <2>1. sessions' = Append(sessions, e) /\ tokens' = AddedToken(tokens, n + 1)
      BY <1>3 DEF Verify, AddedToken
    <2>2. e \in SessionRows
      BY LimitsAssumption DEF SessionRows, UserRows
    <2> HIDE DEF e
    <2>3. sessions' \in Seq(SessionRows) /\ Len(sessions') = n + 1
      BY <1>1, <2>1, <2>2, AppendProperties
    <2>4. NoneLive(tokens, n + 1)
      BY <1>1 DEF GoodTokens, GoodToken, NoneLive
    <2>5. n + 1 \in Nat /\ n <= n + 1 /\ n + 1 \in 1 .. n + 1
      BY <1>1
    <2> HIDE DEF n
    <2> DEFINE m == n + 1
               list == AddedToken(tokens, m)
    <2>6. /\ m \in Nat /\ n \in Nat /\ n <= m /\ m \in 1 .. m /\ NoneLive(tokens, m)
          /\ GoodTokens(tokens, n)
      BY <1>1, <2>4, <2>5
    <2>7. Len(sessions') = m /\ tokens' = list
      BY <2>1, <2>3
    <2> HIDE DEF m
    <2>8. GoodTokens(list, m) /\ Len(list) = Len(tokens) + 1 /\ Kept(tokens, list)
      BY <2>6, TokenAdded
    <2> HIDE DEF list
    <2> QED
      BY <1>1, <2>3, <2>7, <2>8 DEF Kept
  <1>4. ASSUME request[h].op = "REFRESH", request[h].step = "locked"
        PROVE  /\ a \in 1 .. Len(tokens) /\ request[h].read.token = tokens[a]
               /\ \A g \in Requests \ {h} : a \notin TokenLocks(g)
    <2>1. a \in TokenLocks(h)
      BY <1>4 DEF TokenLocks
    <2> QED
      BY <1>4, <2>1 DEF TokenInv, KnowsToken, TokensAlone
  <1>5. CASE Rotate(h)
    <2> DEFINE q == UsedToken(tokens[a])
               list == [tokens EXCEPT ![a] = q]
               s == tokens[a].session
    <2>1. /\ a \in 1 .. Len(tokens) /\ IsLive(tokens[a])
          /\ \A g \in Requests \ {h} : a \notin TokenLocks(g)
      BY <1>4, <1>5 DEF Rotate, IsLive
    <2>2. tokens' = AddedToken(list, s) /\ sessions' = sessions
      <3>1. a \in DOMAIN tokens
        BY <1>1, <2>1
      <3> QED
        BY <1>5, <3>1 DEF Rotate, UsedToken, AddedToken
    <2>3. /\ GoodTokens(list, n) /\ Len(list) = Len(tokens)
          /\ \A u \in 1 .. Len(tokens) : u # a => list[u] = tokens[u]
          /\ NoneLive(list, s)
      BY <1>1, <2>1, LiveTokenUsed DEF NoneLive
    <2>4. s \in 1 .. n /\ n <= n
      BY <1>1, <2>1 DEF GoodTokens, GoodToken
    <2> HIDE DEF list, s, n
    <2> DEFINE new == AddedToken(list, s)
    <2>5. /\ GoodTokens(new, n) /\ Len(new) = Len(list) + 1
          /\ Kept(list, new)
      BY <1>1, <2>3, <2>4, TokenAdded
    <2> HIDE DEF new
    <2>6. tokens' = new
      BY <2>2 DEF new
    <2> QED
      BY <1>1, <2>1, <2>2, <2>3, <2>5, <2>6 DEF n, Kept
  <1>6. ASSUME NEW S, NEW T, sessions' = Revoked(S), tokens' = TokensRevoked(T),
               \A g \in Requests \ {h} : T \cap TokenLocks(g) = {}
        PROVE  /\ sessions' \in Seq(SessionRows) /\ GoodTokens(tokens', Len(sessions'))
               /\ Len(tokens') >= Len(tokens)
               /\ \A g \in Requests \ {h} : \A t \in TokenLocks(g) \cap 1 .. Len(tokens) :
                    tokens'[t] = tokens[t]
    <2>1. sessions' = ListRevoked(sessions, S) /\ tokens' = ListRevoked(tokens, T)
      BY <1>6 DEF Revoked, TokensRevoked, ListRevoked
    <2>2. sessions' \in Seq(SessionRows) /\ Len(sessions') = n
      BY <1>1, <2>1, SessionsRevokedGood
    <2>3. /\ GoodTokens(tokens', n) /\ Len(tokens') = Len(tokens)
          /\ \A t \in 1 .. Len(tokens) : t \notin T => tokens'[t] = tokens[t]
      BY <1>1, <2>1, TokensRevokedGood
    <2> QED
      BY <1>1, <1>6, <2>2, <2>3
  <1>7. CASE RefreshEndsSession(h)
    <2> DEFINE T == LiveTokens({tokens[a].session})
    <2>1. /\ sessions' = Revoked({tokens[a].session}) /\ tokens' = TokensRevoked(T)
      BY <1>7 DEF RefreshEndsSession
    <2>2. NeedsTokens(h) = T
      BY <1>7 DEF RefreshEndsSession, NeedsTokens
    <2>3. \A g \in Requests \ {h} : T \cap TokenLocks(g) = {}
      BY <1>7, <2>2 DEF RefreshEndsSession, Free, Blocks
    <2> HIDE DEF T
    <2> QED
      BY <1>6, <2>1, <2>3
  <1>8. CASE Logout(h) \/ ResetPassword(h) \/ ChangePassword(h)
    <2> DEFINE T == LiveTokens(Targets(h))
    <2>1. /\ sessions' = Revoked(request[h].sessions) /\ tokens' = TokensRevoked(T)
      BY <1>8 DEF Logout, ResetPassword, ChangePassword, Targets
    <2>2. NeedsTokens(h) = T
      BY <1>8 DEF Logout, ResetPassword, ChangePassword, NeedsTokens, RevokingOps
    <2>3. \A g \in Requests \ {h} : T \cap TokenLocks(g) = {}
      BY <1>8, <2>2 DEF Logout, ResetPassword, ChangePassword, Free, Blocks
    <2> HIDE DEF T
    <2> QED
      BY <1>6, <2>1, <2>3
  <1>9. CASE Suspend(h)
    <2> DEFINE T == request[h].tokens
    <2>1. sessions' = Revoked(Live) /\ tokens' = TokensRevoked(T)
      BY <1>9 DEF Suspend
    <2>2. T = TokenLocks(h)
      BY <1>9 DEF Suspend, TokenLocks
    <2>3. \A g \in Requests \ {h} : T \cap TokenLocks(g) = {}
      BY <2>2 DEF TokenInv, TokensAlone
    <2> HIDE DEF T
    <2> QED
      BY <1>6, <2>1, <2>3
  <1> QED
    BY <1>2, <1>3, <1>5, <1>7, <1>8, <1>9 DEF Acts, GivesUp, Data, Login, Forgot, Resend,
       WrongCode, SetAdministrator

\* Locks are taken from nobody.
LEMMA TokenLockTaken ==
  ASSUME Requested, TokensAlone, NEW h \in Requests, Locks(h), NEW g \in Requests \ {h}
  PROVE  TokenLocks(h)' \cap TokenLocks(g) = {}
  <1>1. request'[h].op = request[h].op /\ request'[h].arg = request[h].arg
    BY LocksMove DEF Keeps
  <1>2. TokenLocks(h) \cap TokenLocks(g) = {}
    BY DEF TokensAlone
  <1>3. CASE LockToken(h)
    <2>1. TokenLocks(h)' = {request[h].arg}
      BY <1>1, <1>3, LockTokenMoves DEF LockToken, TokenLocks, Moves
    <2>2. NeedsTokens(h) = {request[h].arg}
      BY <1>3 DEF LockToken, NeedsTokens
    <2> QED
      BY <1>3, <2>1, <2>2 DEF LockToken, Free, Blocks
  <1>4. CASE LockSession(h)
    <2>1. TokenLocks(h)' = {request[h].arg} /\ TokenLocks(h) = {request[h].arg}
      BY <1>1, <1>4, LockSessionMoves DEF LockSession, TokenLocks, Moves
    <2> QED
      BY <1>2, <2>1
  <1>5. CASE SuspendTokens(h)
    <2>1. TokenLocks(h)' = LiveTokens(Live)
      BY <1>1, <1>5, SuspendTokensMoves DEF SuspendTokens, TokenLocks
    <2>2. NeedsTokens(h) = LiveTokens(Live)
      BY <1>5 DEF SuspendTokens, NeedsTokens, RevokingOps
    <2> QED
      BY <1>5, <2>1, <2>2 DEF SuspendTokens, Free, Blocks
  <1>6. CASE LockUser(h) \/ LockAuthority(h) \/ RevokeSessions(h)
    <2>1. request[h].op # "REFRESH"
      BY <1>6 DEF LockUser, LockAuthority, RevokeSessions, UserOps, AuthorityOps
    <2>2. request'[h].tokens = request[h].tokens
      BY <1>6, LockUserMoves, LockAuthorityMoves, RevokeSessionsMoves
    <2>3. TokenLocks(h)' = TokenLocks(h)
      BY <1>1, <2>1, <2>2 DEF TokenLocks
    <2> QED
      BY <1>2, <2>3
  <1> QED
    BY <1>3, <1>4, <1>5, <1>6 DEF Locks

LEMMA TokensStay ==
  ASSUME Requested, TokenInv, user \in UserRows, [Next]_vars
  PROVE  TokenInv'
  <1>1. CASE UNCHANGED <<request, sessions, tokens>>
    BY <1>1 DEF TokenInv, KnowsToken, TokensAlone, TokenLocks
  <1>2. UserSteps => UNCHANGED <<request, sessions, tokens>>
    BY DEF UserSteps, LoginFails, LockoutEnds, Reactivate
  <1>3. Len(tokens) \in Nat /\ DOMAIN tokens = 1 .. Len(tokens)
    BY TokenLen DEF TokenInv
  <1>4. ASSUME NEW h \in Requests, \A g \in Requests \ {h} : request'[g] = request[g],
               \A g \in Requests \ {h} : TokenLocks(h)' \cap TokenLocks(g) = {}
        PROVE  TokensAlone' /\ \A g \in Requests \ {h} : TokenLocks(g)' = TokenLocks(g)
    <2>1. \A g \in Requests \ {h} : TokenLocks(g)' = TokenLocks(g)
      BY <1>4 DEF TokenLocks
    <2> QED
      BY <1>4, <2>1 DEF TokenInv, TokensAlone
  <1>5. ASSUME NEW h \in Requests, Begins(h) \/ Locks(h)
        PROVE  TokenInv'
    <2>1. /\ tokens' = tokens /\ sessions' = sessions
          /\ \A g \in Requests \ {h} : request'[g] = request[g]
      BY <1>5, BeginsMove, LocksMove DEF Moves, Data
    <2>2. \A g \in Requests \ {h} : KnowsToken(g)'
      BY <2>1 DEF TokenInv, KnowsToken
    <2>3. CASE Begins(h)
      <3>1. /\ request'[h].step = "begun" /\ request'[h].tokens = {}
            /\ request'[h].arg \in Arguments(request'[h].op)
        BY <2>3, BeginsMove DEF Moves
      <3>2. request'[h].op = "REFRESH" => request'[h].arg \in 1 .. Len(tokens)
        BY <1>3, <3>1 DEF Arguments, AuthorityOps
      <3>3. KnowsToken(h)'
        BY <2>1, <3>1, <3>2 DEF KnowsToken
      <3>4. TokenLocks(h)' = {}
        BY <3>1 DEF TokenLocks
      <3>5. TokensAlone'
        BY <1>4, <2>1, <3>4
      <3> QED
        BY <2>1, <2>2, <3>3, <3>5 DEF TokenInv
    <2>4. CASE Locks(h)
      <3>1. request'[h].op = request[h].op /\ request'[h].arg = request[h].arg
        BY <2>4, LocksMove DEF Keeps
      <3>2. KnowsToken(h)'
        <4>1. CASE request[h].op # "REFRESH"
          BY <3>1, <4>1 DEF KnowsToken
        <4>2. CASE LockToken(h)
          BY <2>1, <3>1, <4>2, LockTokenMoves DEF TokenInv, KnowsToken, LockToken
        <4>3. CASE LockSession(h)
          <5>1. /\ request[h].op = "REFRESH" /\ request[h].step = "token"
                /\ request'[h].read.token = request[h].read.token
            BY <4>3, LockSessionMoves DEF LockSession
          <5> QED
            BY <2>1, <3>1, <5>1 DEF TokenInv, KnowsToken
        <4>4. request[h].op = "REFRESH" => LockToken(h) \/ LockSession(h)
          BY <2>4 DEF Locks, LockUser, LockAuthority, RevokeSessions, SuspendTokens,
                      UserOps, AuthorityOps
        <4> QED
          BY <4>1, <4>2, <4>3, <4>4
      <3>3. TokensAlone'
        BY <1>4, <2>1, <2>4, TokenLockTaken DEF TokenInv
      <3> QED
        BY <2>1, <2>2, <3>2, <3>3 DEF TokenInv
    <2> QED
      BY <1>5, <2>3, <2>4
  <1>6. ASSUME NEW h \in Requests, Acts(h) \/ GivesUp(h)
        PROVE  TokenInv'
    <2>1. /\ sessions' \in Seq(SessionRows) /\ GoodTokens(tokens', Len(sessions'))
          /\ Len(tokens') >= Len(tokens)
          /\ \A g \in Requests \ {h} : \A t \in TokenLocks(g) \cap 1 .. Len(tokens) :
               tokens'[t] = tokens[t]
      BY <1>6, TokensAct
    <2>2. Len(tokens') \in Nat
      BY <2>1, TokenLen
    <2>3. request'[h] = Idle /\ \A g \in Requests \ {h} : request'[g] = request[g]
      BY <1>6, ActsMove
    <2>4. KnowsToken(h)'
      BY <2>3, IdleRequest DEF KnowsToken
    <2>5. TokenLocks(h)' = {}
      BY <2>3, IdleRequest DEF TokenLocks
    <2>6. TokensAlone'
      BY <1>4, <2>3, <2>5
    <2>7. ASSUME NEW g \in Requests \ {h}
          PROVE  KnowsToken(g)'
      <3> SUFFICES ASSUME request[g].op = "REFRESH"
                   PROVE  KnowsToken(g)'
        BY <2>3 DEF KnowsToken
      <3> DEFINE a == request[g].arg
      <3>1. a \in 1 .. Len(tokens) /\ a \in 1 .. Len(tokens')
        BY <1>3, <2>1, <2>2 DEF TokenInv, KnowsToken
      <3>2. CASE request[g].step \in {"token", "locked"}
        <4>1. a \in TokenLocks(g)
          BY <3>2 DEF TokenLocks
        <4>2. tokens'[a] = tokens[a] /\ request[g].read.token = tokens[a]
          BY <2>1, <3>1, <3>2, <4>1 DEF TokenInv, KnowsToken
        <4> QED
          BY <2>3, <3>1, <4>2 DEF KnowsToken
      <3>3. CASE request[g].step \notin {"token", "locked"}
        BY <2>3, <3>1, <3>3 DEF KnowsToken
      <3> QED
        BY <3>2, <3>3
    <2> QED
      BY <2>1, <2>4, <2>6, <2>7 DEF TokenInv
  <1> QED
    BY <1>1, <1>2, <1>5, <1>6, StaffSteps DEF Data

-----------------------------------------------------------------------------
(* The sessions of staff follow the password. *)

RevokesAll(h) == request[h].op \in {"RESET", "CHANGE"} /\ request[h].step = "revoking"

\* Who changes the password has locked every session that is live.
SessionInv ==
  /\ SessionsFollowPassword
  /\ \A h \in Requests : RevokesAll(h) => Live \subseteq request[h].sessions

LEMMA SessionsStay ==
  ASSUME Requested, UserAlone, TokenInv, user \in UserRows, SessionInv, [Next]_vars
  PROVE  SessionInv'
  <1>1. CASE UNCHANGED <<request, sessions, user>>
    BY <1>1 DEF SessionInv, SessionsFollowPassword, RevokesAll, Live
  <1>2. Len(sessions) \in Nat /\ sessions \in Seq(SessionRows) /\ DOMAIN sessions = 1 .. Len(sessions)
    BY LenProperties DEF TokenInv
  <1>3. ASSUME UserSteps
        PROVE  SessionInv'
    <2>1. UNCHANGED <<request, sessions>>
      BY <1>3 DEF UserSteps, LoginFails, LockoutEnds, Reactivate
    <2>2. user'.password = user.password
      BY <1>3 DEF UserSteps, LoginFails, LockoutEnds, Reactivate, UserRows
    <2> QED
      BY <2>1, <2>2 DEF SessionInv, SessionsFollowPassword, RevokesAll, Live
  <1>4. ASSUME NEW h \in Requests, Begins(h) \/ Locks(h)
        PROVE  SessionInv'
    <2>1. /\ sessions' = sessions /\ user' = user
          /\ \A g \in Requests \ {h} : request'[g] = request[g]
      BY <1>4, BeginsMove, LocksMove DEF Moves, Data
    <2>2. Live' = Live /\ SessionsFollowPassword'
      BY <2>1 DEF SessionInv, SessionsFollowPassword, Live
    <2>3. \A g \in Requests \ {h} : RevokesAll(g)' => Live \subseteq request'[g].sessions
      BY <2>1 DEF SessionInv, RevokesAll
    <2>4. RevokesAll(h)' => Live \subseteq request'[h].sessions
      <3> SUFFICES ASSUME RevokesAll(h)'
                   PROVE  Live \subseteq request'[h].sessions
        OBVIOUS
      <3>1. Locks(h) /\ request'[h].op = request[h].op
        BY <1>4, BeginsMove, LocksMove DEF RevokesAll, Moves, Keeps
      <3>2. RevokeSessions(h)
        BY <3>1, LockUserMoves, LockTokenMoves, LockSessionMoves, LockAuthorityMoves
           DEF Locks, RevokesAll, Moves, SuspendTokens
      <3>3. request'[h].sessions = Targets(h) \cap Live
        BY <3>2, RevokeSessionsMoves
      <3>4. Targets(h) = DOMAIN sessions
        BY <3>1 DEF RevokesAll, Targets
      <3> QED
        BY <3>3, <3>4 DEF Live
    <2> QED
      BY <2>2, <2>3, <2>4 DEF SessionInv
  <1>5. ASSUME NEW S, sessions' = Revoked(S)
        PROVE  /\ Live' \subseteq Live \ S
               /\ \A s \in Live' : sessions'[s].password = sessions[s].password
    <2>0. sessions' = ListRevoked(sessions, S)
      BY <1>5 DEF Revoked, ListRevoked
    <2>1. /\ sessions' \in Seq(SessionRows) /\ Len(sessions') = Len(sessions)
          /\ \A s \in 1 .. Len(sessions) :
               /\ sessions'[s].password = sessions[s].password
               /\ ~sessions'[s].revoked => ~sessions[s].revoked /\ s \notin S
      BY <1>2, <2>0, SessionsRevokedGood
    <2>2. DOMAIN sessions' = 1 .. Len(sessions)
      BY <2>1, LenProperties
    <2> QED
      BY <1>2, <2>1, <2>2 DEF Live
  <1>6. ASSUME NEW h \in Requests, Acts(h) \/ GivesUp(h)
        PROVE  SessionInv'
    <2>1. request'[h] = Idle /\ \A g \in Requests \ {h} : request'[g] = request[g]
      BY <1>6, ActsMove
    <2>2. \A g \in Requests : RevokesAll(g)' =>
             g # h /\ RevokesAll(g) /\ request'[g].sessions = request[g].sessions
      BY <2>1, IdleRequest DEF RevokesAll
    <2>3. CASE Verify(h)
      <3> DEFINE e == [revoked |-> FALSE, password |-> user.password]
      <3>1. sessions' = Append(sessions, e) /\ user' = user /\ HoldsUser(h)
        BY <2>3 DEF Verify, HoldsUser, UserOps
      <3>2. e \in SessionRows /\ e.password = user.password
        BY Limits DEF SessionRows, UserRows
      <3> HIDE DEF e
      <3>3. /\ sessions' \in Seq(SessionRows) /\ Len(sessions') = Len(sessions) + 1
            /\ \A s \in 1 .. Len(sessions) : sessions'[s] = sessions[s]
            /\ sessions'[Len(sessions) + 1] = e
        BY <1>2, <3>1, <3>2, AppendProperties
      <3>4. DOMAIN sessions' = 1 .. Len(sessions) + 1
        BY <3>3, LenProperties
      <3>5. SessionsFollowPassword'
        BY <1>2, <3>1, <3>2, <3>3, <3>4 DEF SessionInv, SessionsFollowPassword, Live
      <3>6. \A g \in Requests : RevokesAll(g) => HoldsUser(g)
        BY DEF RevokesAll, HoldsUser, UserOps
      <3> QED
        BY <2>2, <3>1, <3>5, <3>6 DEF SessionInv, UserAlone
    <2>4. CASE Live' \subseteq Live /\ user'.password = user.password
                 /\ \A s \in Live' : sessions'[s].password = sessions[s].password
      BY <2>2, <2>4 DEF SessionInv, SessionsFollowPassword
    <2>5. CASE ResetPassword(h) \/ ChangePassword(h)
      <3>1. RevokesAll(h) /\ sessions' = Revoked(request[h].sessions)
        BY <2>5 DEF ResetPassword, ChangePassword, RevokesAll
      <3>2. Live' = {}
        BY <1>5, <3>1 DEF SessionInv
      <3> QED
        BY <2>2, <3>2 DEF SessionInv, SessionsFollowPassword
    <2>6. CASE RefreshEndsSession(h) \/ Logout(h) \/ Suspend(h)
      <3>1. user'.password = user.password
        BY <2>6 DEF RefreshEndsSession, Logout, Suspend, UserRows
      <3>2. PICK S : sessions' = Revoked(S)
        BY <2>6 DEF RefreshEndsSession, Logout, Suspend
      <3> QED
        BY <1>5, <2>4, <3>1, <3>2
    <2>7. CASE UNCHANGED sessions /\ user'.password = user.password
      BY <2>4, <2>7 DEF Live
    <2>8. Login(h) => UNCHANGED sessions /\ user'.password = user.password
      BY DEF Login, UserRows
    <2> QED
      BY <1>6, <2>3, <2>5, <2>6, <2>7, <2>8 DEF Acts, GivesUp, Data, Forgot, Resend,
         WrongCode, Rotate, SetAdministrator
  <1> QED
    BY <1>1, <1>3, <1>4, <1>6, StaffSteps DEF Data

-----------------------------------------------------------------------------
(* What the access of staff promises. *)

StaffInv ==
  /\ Requested /\ UserAlone /\ AuthorityInv /\ user \in UserRows
  /\ ChallengeInv /\ TokenInv /\ SessionInv

LEMMA StaffInit ==
  ASSUME Init
  PROVE  StaffInv
  <1>1. /\ DOMAIN request = Requests /\ \A h \in Requests : request[h] = Idle
    BY DEF Init
  <1>2. Requested /\ UserAlone
    BY <1>1, IdleRequest DEF Requested, UserAlone, HoldsUser
  <1>3. AuthorityInv
    BY <1>1, IdleRequest, LimitsAssumption DEF Init, AuthorityInv, HoldsAuthority, AuthorityOps
  <1>4. user \in UserRows
    BY Limits DEF Init, UserRows
  <1>5. challenges = <<>> /\ tokens = <<>> /\ sessions = <<>>
    BY DEF Init
  <1>6. ASSUME NEW S
        PROVE  <<>> \in Seq(S) /\ Len(<<>>) = 0 /\ DOMAIN <<>> = {}
    BY EmptySeq
  <1>7. \A i \in 1 .. 0 : FALSE
    OBVIOUS
  <1>8. ChallengeInv
    BY <1>1, <1>5, <1>6, <1>7, IdleRequest
       DEF ChallengeInv, GoodList, OneOpen, KnowsChallenge, CodeOps
  <1>9. TokenInv
    <2>1. GoodTokens(tokens, Len(sessions))
      BY <1>5, <1>6, <1>7 DEF GoodTokens, OneLive
    <2>2. \A h \in Requests : KnowsToken(h) /\ TokenLocks(h) = {}
      BY <1>1, IdleRequest DEF KnowsToken, TokenLocks
    <2> QED
      BY <1>5, <1>6, <2>1, <2>2 DEF TokenInv, TokensAlone
  <1>10. SessionInv
    BY <1>1, <1>5, <1>6, IdleRequest DEF SessionInv, SessionsFollowPassword, Live, RevokesAll
  <1> QED
    BY <1>2, <1>3, <1>4, <1>8, <1>9, <1>10 DEF StaffInv

LEMMA StaffInvStays ==
  ASSUME StaffInv, [Next]_vars
  PROVE  StaffInv'
  BY RequestedStays, UserAloneStays, AuthorityStays, UserStays, ChallengesStay, TokensStay,
     SessionsStay DEF StaffInv

LEMMA StaffWorksOnce ==
  ASSUME StaffInv
  PROVE  WorksOnce
  <1>1. TypeOK
    BY ListLen, TokenLen, LenProperties, Limits
       DEF StaffInv, ChallengeInv, TokenInv, AuthorityInv, TypeOK, GoodList, GoodTokens,
           GoodChallenge, GoodToken, ChallengeRows, UserRows
  <1>2. /\ DOMAIN challenges = 1 .. Len(challenges)
        /\ DOMAIN tokens = 1 .. Len(tokens)
    BY ListLen, TokenLen DEF StaffInv, ChallengeInv, TokenInv
  <1>3. ASSUME NEW s \in DOMAIN sessions
        PROVE  Cardinality(LiveTokens({s})) <= 1
    <2>1. \A t, u \in LiveTokens({s}) : t = u
      BY <1>2 DEF LiveTokens, StaffInv, TokenInv, GoodTokens, OneLive, IsLive
    <2> DEFINE T == LiveTokens({s})
    <2> HIDE DEF T
    <2>2. CASE T = {}
      BY <2>2, FS_EmptySet DEF T
    <2>3. ASSUME NEW t \in T
          PROVE  Cardinality(T) = 1
      <3>1. T = {t}
        BY <2>1, <2>3 DEF T
      <3> QED
        BY <3>1, FS_Singleton
    <2> QED
      BY <2>2, <2>3 DEF T
  <1>4. /\ \A c \in DOMAIN challenges :
             challenges[c].won <= 1 /\ challenges[c].guesses <= MaxAttempts
        /\ \A t \in DOMAIN tokens : tokens[t].rotations <= 1
    BY <1>2 DEF StaffInv, ChallengeInv, TokenInv, GoodList, GoodTokens, GoodChallenge, GoodToken
  <1>5. \A c, d \in DOMAIN challenges :
          (challenges[c].state = "open" /\ challenges[d].state = "open"
             /\ challenges[c].purpose = challenges[d].purpose) => c = d
    BY <1>2 DEF StaffInv, ChallengeInv, GoodList, OneOpen
  <1> QED
    BY <1>1, <1>3, <1>4, <1>5 DEF WorksOnce

-----------------------------------------------------------------------------
(* The requests of an operator's customers. *)

IsServed(r) ==
  r \in [op : Customer!AccessOperations \cup {"none"}, step : StepNames, arg : {r.arg},
         read : {r.read}, sessions : {r.sessions}, tokens : {r.tokens}]

Served == DOMAIN serving = Requests /\ \A h \in Requests : IsServed(serving[h])

LEMMA ServedTurned ==
  ASSUME Served, NEW h \in Requests, NEW q, IsServed(q), serving' = [serving EXCEPT ![h] = q]
  PROVE  /\ Served' /\ serving'[h] = q
         /\ \A g \in Requests \ {h} : serving'[g] = serving[g]
  BY DEF Served

LEMMA UnusedRequest ==
  /\ IsServed(Customer!Unused) /\ Customer!Unused.op = "none"
  /\ Customer!Unused.step = "idle" /\ Customer!Unused.tokens = {}
  BY DEF Customer!Unused, IsServed, StepNames

CustomerData == <<customer, codes, opened, issued>>

\* A request reads and goes on to its next step, or locks rows and goes on.
HasRead(r, st, rd) == [r EXCEPT !.step = st, !.read = rd]
HasSessions(r, S) == [r EXCEPT !.step = "revoking", !.sessions = S]
HasTokens(r, T) == [r EXCEPT !.step = "revoking", !.tokens = T]

LEMMA HasReadServed ==
  ASSUME NEW r, IsServed(r), NEW st \in StepNames, NEW rd
  PROVE  /\ IsServed(HasRead(r, st, rd)) /\ Keeps(r, HasRead(r, st, rd))
         /\ HasRead(r, st, rd).step = st /\ HasRead(r, st, rd).read = rd
         /\ HasRead(r, st, rd).tokens = r.tokens
  <1> DEFINE q == HasRead(r, st, rd)
  <1>1. /\ q.step = st /\ q.read = rd /\ q.op = r.op /\ q.arg = r.arg
        /\ q.sessions = r.sessions /\ q.tokens = r.tokens
    BY DEF HasRead, IsServed
  <1>2. IsServed(q)
    BY <1>1 DEF HasRead, IsServed
  <1> QED
    BY <1>1, <1>2 DEF Keeps

LEMMA HasSessionsServed ==
  ASSUME NEW r, IsServed(r), NEW S
  PROVE  /\ IsServed(HasSessions(r, S)) /\ Keeps(r, HasSessions(r, S))
         /\ HasSessions(r, S).step = "revoking" /\ HasSessions(r, S).read = r.read
         /\ HasSessions(r, S).tokens = r.tokens
  <1> DEFINE q == HasSessions(r, S)
  <1>1. /\ q.step = "revoking" /\ q.sessions = S /\ q.op = r.op /\ q.arg = r.arg
        /\ q.read = r.read /\ q.tokens = r.tokens
    BY DEF HasSessions, IsServed
  <1>2. IsServed(q)
    BY <1>1 DEF HasSessions, IsServed, StepNames
  <1> QED
    BY <1>1, <1>2 DEF Keeps

LEMMA HasTokensServed ==
  ASSUME NEW r, IsServed(r), NEW T
  PROVE  /\ IsServed(HasTokens(r, T)) /\ Keeps(r, HasTokens(r, T))
         /\ HasTokens(r, T).step = "revoking" /\ HasTokens(r, T).read = r.read
         /\ HasTokens(r, T).tokens = T
  <1> DEFINE q == HasTokens(r, T)
  <1>1. /\ q.step = "revoking" /\ q.tokens = T /\ q.op = r.op /\ q.arg = r.arg
        /\ q.read = r.read /\ q.sessions = r.sessions
    BY DEF HasTokens, IsServed
  <1>2. IsServed(q)
    BY <1>1 DEF HasTokens, IsServed, StepNames
  <1> QED
    BY <1>1, <1>2 DEF Keeps

Asks(h) ==
  \E op \in Customer!AccessOperations : \E arg \in Customer!Subjects(op) :
    Customer!BeginAccess(h, op, arg)
CustomerLocks(h) ==
  Customer!LockCustomer(h) \/ Customer!LockRefreshToken(h) \/ Customer!LockRefreshSession(h)
    \/ Customer!RevokeSession(h) \/ Customer!RevokeTokens(h)
CustomerActs(h) ==
  Customer!LoginAccepted(h) \/ Customer!ForgotPassword(h) \/ Customer!ResendCode(h)
    \/ Customer!WrongAnswer(h) \/ Customer!VerifyLogin(h) \/ Customer!UpdateProfile(h)
    \/ Customer!RotateToken(h) \/ Customer!RefreshRevoked(h) \/ Customer!Logout(h)
    \/ Customer!LogoutAll(h) \/ Customer!ResetPassword(h) \/ Customer!ChangePassword(h)
    \/ Customer!OperatorSuspended(h) \/ Customer!GivesUp(h)
CustomerAlone ==
  Customer!LoginRefused \/ Customer!LockoutElapses \/ Customer!OperatorActivated

LEMMA CustomerSteps ==
  ASSUME [Customer!AccessNext]_customerVars
  PROVE  \/ UNCHANGED <<CustomerData, serving>> \/ CustomerAlone
         \/ \E h \in Requests : Asks(h) \/ CustomerLocks(h) \/ CustomerActs(h)
  BY DEF Customer!AccessNext, Asks, CustomerLocks, CustomerActs, CustomerAlone, CustomerData,
         customerVars

LEMMA AsksMoves ==
  ASSUME Served, NEW h \in Requests, Asks(h)
  PROVE  /\ Served' /\ \A g \in Requests \ {h} : serving'[g] = serving[g]
         /\ UNCHANGED CustomerData /\ serving'[h].step = "begun" /\ serving'[h].tokens = {}
         /\ serving'[h].arg \in Customer!Subjects(serving'[h].op)
  <1>1. PICK op \in Customer!AccessOperations : \E arg \in Customer!Subjects(op) :
          Customer!BeginAccess(h, op, arg)
    BY DEF Asks
  <1>2. PICK arg \in Customer!Subjects(op) : Customer!BeginAccess(h, op, arg)
    BY <1>1
  <1> DEFINE q == [Customer!Unused EXCEPT !.op = op, !.step = "begun", !.arg = arg]
  <1>3. /\ q.op = op /\ q.step = "begun" /\ q.arg = arg /\ q.sessions = {} /\ q.tokens = {}
        /\ q.read = Customer!Unused.read
    BY DEF Customer!Unused
  <1>4. IsServed(q)
    BY <1>3 DEF Customer!Unused, IsServed, StepNames
  <1>5. serving' = [serving EXCEPT ![h] = q] /\ UNCHANGED CustomerData
    BY <1>2 DEF Customer!BeginAccess, CustomerData
  <1> HIDE DEF q
  <1> QED
    BY <1>3, <1>4, <1>5, ServedTurned

\* What each lock leaves in the request
LEMMA CustomerLockMoves ==
  ASSUME Served, NEW h \in Requests, CustomerLocks(h)
  PROVE  /\ Served' /\ \A g \in Requests \ {h} : serving'[g] = serving[g]
         /\ UNCHANGED CustomerData /\ Keeps(serving[h], serving'[h])
         /\ Customer!LockCustomer(h) =>
              /\ serving'[h].step = "locked" /\ serving'[h].read = Customer!RowsRead(h)
              /\ serving'[h].tokens = serving[h].tokens
         /\ Customer!LockRefreshToken(h) =>
              /\ serving'[h].step = "token"
              /\ serving'[h].read.token = issued[serving[h].arg]
         /\ Customer!LockRefreshSession(h) =>
              /\ serving'[h].step = "locked"
              /\ serving'[h].read.token = serving[h].read.token
         /\ Customer!RevokeSession(h) =>
              /\ serving'[h].step = "revoking" /\ serving'[h].read = serving[h].read
              /\ serving'[h].tokens = serving[h].tokens
         /\ Customer!RevokeTokens(h) =>
              /\ serving'[h].step = "revoking" /\ serving'[h].read = serving[h].read
              /\ serving'[h].tokens = Customer!LiveTokensOf(DOMAIN opened)
  <1> DEFINE r == serving[h]
  <1>1. IsServed(r) /\ DOMAIN serving = Requests
    BY DEF Served
  <1>2. UNCHANGED CustomerData
    BY DEF CustomerLocks, CustomerData, Customer!LockCustomer, Customer!LockRefreshToken,
           Customer!LockRefreshSession, Customer!RevokeSession, Customer!RevokeTokens
  <1>3. ASSUME NEW q, IsServed(q), serving' = [serving EXCEPT ![h] = q]
        PROVE  /\ Served' /\ \A g \in Requests \ {h} : serving'[g] = serving[g]
               /\ serving'[h] = q
    BY <1>3, ServedTurned
  <1>4. CASE Customer!LockCustomer(h)
    <2> DEFINE q == HasRead(r, "locked", Customer!RowsRead(h))
    <2>1. /\ IsServed(q) /\ Keeps(r, q) /\ q.step = "locked"
          /\ q.read = Customer!RowsRead(h) /\ q.tokens = r.tokens
      BY <1>1, HasReadServed DEF StepNames
    <2>2. serving' = [serving EXCEPT ![h] = q] /\ r.step = "begun"
      BY <1>1, <1>4 DEF Customer!LockCustomer, HasRead
    <2>3. /\ ~Customer!LockRefreshToken(h) /\ ~Customer!LockRefreshSession(h)
          /\ ~Customer!RevokeSession(h) /\ ~Customer!RevokeTokens(h)
      BY <1>4, <2>2 DEF Customer!LockCustomer, Customer!LockRefreshToken,
         Customer!LockRefreshSession, Customer!RevokeSession, Customer!RevokeTokens,
         Customer!LockingOps, Customer!ChallengeOps
    <2> HIDE DEF q
    <2>4. /\ Served' /\ \A g \in Requests \ {h} : serving'[g] = serving[g]
          /\ serving'[h] = q
      BY <1>3, <2>1, <2>2
    <2> QED
      BY <1>2, <2>1, <2>3, <2>4
  <1>5. CASE Customer!LockRefreshToken(h)
    <2> DEFINE rd == [token |-> issued[r.arg]]
               q == HasRead(r, "token", rd)
    <2>1. rd.token = issued[r.arg]
      OBVIOUS
    <2>2. serving' = [serving EXCEPT ![h] = q] /\ r.step = "begun" /\ r.op = "REFRESH"
      BY <1>1, <1>5 DEF Customer!LockRefreshToken, HasRead
    <2> HIDE DEF rd
    <2>3. IsServed(q) /\ Keeps(r, q) /\ q.step = "token" /\ q.read = rd
      BY <1>1, HasReadServed DEF StepNames
    <2>4. /\ ~Customer!LockCustomer(h) /\ ~Customer!LockRefreshSession(h)
          /\ ~Customer!RevokeSession(h) /\ ~Customer!RevokeTokens(h)
      BY <2>2 DEF Customer!LockCustomer,
         Customer!LockRefreshSession, Customer!RevokeSession, Customer!RevokeTokens,
         Customer!LockingOps, Customer!ChallengeOps
    <2> HIDE DEF q
    <2>5. /\ Served' /\ \A g \in Requests \ {h} : serving'[g] = serving[g]
          /\ serving'[h] = q
      BY <1>3, <2>2, <2>3
    <2> QED
      BY <1>2, <2>1, <2>3, <2>4, <2>5
  <1>6. CASE Customer!LockRefreshSession(h)
    <2> DEFINE rd == [token |-> r.read.token, session |-> opened[issued[r.arg].session]]
               q == HasRead(r, "locked", rd)
    <2>1. rd.token = r.read.token
      OBVIOUS
    <2>2. serving' = [serving EXCEPT ![h] = q] /\ r.step = "token" /\ r.op = "REFRESH"
      BY <1>1, <1>6 DEF Customer!LockRefreshSession, HasRead
    <2> HIDE DEF rd
    <2>3. IsServed(q) /\ Keeps(r, q) /\ q.step = "locked" /\ q.read = rd
      BY <1>1, HasReadServed DEF StepNames
    <2>4. /\ ~Customer!LockCustomer(h) /\ ~Customer!LockRefreshToken(h)
          /\ ~Customer!RevokeSession(h) /\ ~Customer!RevokeTokens(h)
      BY <2>2 DEF Customer!LockCustomer,
         Customer!LockRefreshToken, Customer!RevokeSession, Customer!RevokeTokens,
         Customer!LockingOps, Customer!ChallengeOps
    <2> HIDE DEF q
    <2>5. /\ Served' /\ \A g \in Requests \ {h} : serving'[g] = serving[g]
          /\ serving'[h] = q
      BY <1>3, <2>2, <2>3
    <2> QED
      BY <1>2, <2>1, <2>3, <2>4, <2>5
  <1>7. CASE Customer!RevokeSession(h)
    <2> DEFINE S == {r.arg} \cap Customer!LiveSessions
               q == HasSessions(r, S)
    <2>1. serving' = [serving EXCEPT ![h] = q] /\ r.step = "begun" /\ r.op = "LOGOUT"
      BY <1>1, <1>7 DEF Customer!RevokeSession, HasSessions
    <2> HIDE DEF S
    <2>2. /\ IsServed(q) /\ Keeps(r, q) /\ q.step = "revoking" /\ q.read = r.read
          /\ q.tokens = r.tokens
      BY <1>1, HasSessionsServed
    <2>3. /\ ~Customer!LockCustomer(h) /\ ~Customer!LockRefreshToken(h)
          /\ ~Customer!LockRefreshSession(h) /\ ~Customer!RevokeTokens(h)
      BY <2>1 DEF Customer!LockCustomer,
         Customer!LockRefreshToken, Customer!LockRefreshSession, Customer!RevokeTokens,
         Customer!LockingOps, Customer!ChallengeOps
    <2> HIDE DEF q
    <2>4. /\ Served' /\ \A g \in Requests \ {h} : serving'[g] = serving[g]
          /\ serving'[h] = q
      BY <1>3, <2>1, <2>2
    <2> QED
      BY <1>2, <2>2, <2>3, <2>4
  <1>8. CASE Customer!RevokeTokens(h)
    <2> DEFINE T == Customer!LiveTokensOf(DOMAIN opened)
               q == HasTokens(r, T)
    <2>1. /\ serving' = [serving EXCEPT ![h] = q]
          /\ \/ r.op \in {"LOGOUT_ALL", "SUSPEND"} /\ r.step = "begun"
             \/ r.op \in {"RESET", "CHANGE"} /\ r.step = "locked"
      BY <1>1, <1>8 DEF Customer!RevokeTokens, HasTokens
    <2> HIDE DEF T
    <2>2. /\ IsServed(q) /\ Keeps(r, q) /\ q.step = "revoking" /\ q.read = r.read
          /\ q.tokens = T
      BY <1>1, HasTokensServed
    <2>3. /\ ~Customer!LockCustomer(h) /\ ~Customer!LockRefreshToken(h)
          /\ ~Customer!LockRefreshSession(h) /\ ~Customer!RevokeSession(h)
      BY <2>1 DEF Customer!LockCustomer,
         Customer!LockRefreshToken, Customer!LockRefreshSession, Customer!RevokeSession,
         Customer!LockingOps, Customer!ChallengeOps
    <2> HIDE DEF q
    <2>4. /\ Served' /\ \A g \in Requests \ {h} : serving'[g] = serving[g]
          /\ serving'[h] = q
      BY <1>3, <2>1, <2>2
    <2> QED
      BY <1>2, <2>2, <2>3, <2>4 DEF T
  <1> QED
    BY <1>4, <1>5, <1>6, <1>7, <1>8 DEF CustomerLocks

LEMMA CustomerActsMove ==
  ASSUME Served, NEW h \in Requests, CustomerActs(h)
  PROVE  /\ Served' /\ serving'[h] = Customer!Unused
         /\ \A g \in Requests \ {h} : serving'[g] = serving[g]
  <1>1. serving' = [serving EXCEPT ![h] = Customer!Unused]
    BY DEF CustomerActs, Customer!LoginAccepted, Customer!ForgotPassword, Customer!ResendCode,
       Customer!WrongAnswer, Customer!VerifyLogin, Customer!UpdateProfile,
       Customer!RotateToken, Customer!RefreshRevoked, Customer!Logout, Customer!LogoutAll,
       Customer!ResetPassword, Customer!ChangePassword, Customer!OperatorSuspended,
       Customer!GivesUp, Customer!AllRevoked
  <1> QED
    BY <1>1, UnusedRequest, ServedTurned

LEMMA AloneKeepsServing ==
  ASSUME CustomerAlone
  PROVE  UNCHANGED <<codes, opened, issued, serving>>
  BY DEF CustomerAlone, Customer!LoginRefused, Customer!LockoutElapses,
         Customer!OperatorActivated

LEMMA ServedStays ==
  ASSUME Served, [Customer!AccessNext]_customerVars
  PROVE  Served'
  <1>1. CASE UNCHANGED serving
    BY <1>1 DEF Served
  <1> QED
    BY <1>1, CustomerSteps, AloneKeepsServing, AsksMoves, CustomerLockMoves, CustomerActsMove

-----------------------------------------------------------------------------
(* The lock on the customer. *)

HeldAlone == \A g, h \in Requests : Customer!HoldsCustomer(g) /\ Customer!HoldsCustomer(h) => g = h

LEMMA CustomerLockTaken ==
  ASSUME Served, NEW h \in Requests, Asks(h) \/ CustomerLocks(h) \/ CustomerActs(h),
         Customer!HoldsCustomer(h)'
  PROVE  /\ CustomerLocks(h)
         /\ \/ Customer!HoldsCustomer(h) \/ \A g \in Requests \ {h} : ~Customer!HoldsCustomer(g)
  <1>1. ~Asks(h) /\ ~CustomerActs(h)
    BY AsksMoves, CustomerActsMove, UnusedRequest DEF Customer!HoldsCustomer
  <1>2. CustomerLocks(h) /\ serving[h].op \in Customer!LockingOps
    BY <1>1, CustomerLockMoves DEF Keeps, Customer!HoldsCustomer
  <1>3. CASE Customer!LockCustomer(h)
    BY <1>2, <1>3 DEF Customer!LockCustomer, Customer!Proceeds, Customer!WaitsFor,
       Customer!WaitsForCustomer
  <1>4. CASE Customer!RevokeTokens(h)
    BY <1>2, <1>4 DEF Customer!RevokeTokens, Customer!HoldsCustomer, Customer!LockingOps,
       Customer!ChallengeOps
  <1>5. ~Customer!LockRefreshToken(h) /\ ~Customer!LockRefreshSession(h) /\ ~Customer!RevokeSession(h)
    BY <1>2 DEF Customer!LockRefreshToken, Customer!LockRefreshSession, Customer!RevokeSession,
       Customer!LockingOps, Customer!ChallengeOps
  <1> QED
    BY <1>2, <1>3, <1>4, <1>5 DEF CustomerLocks

LEMMA HeldAloneStays ==
  ASSUME Served, HeldAlone, [Customer!AccessNext]_customerVars
  PROVE  HeldAlone'
  <1>1. CASE UNCHANGED serving
    BY <1>1 DEF HeldAlone, Customer!HoldsCustomer
  <1>2. ASSUME NEW h \in Requests, Asks(h) \/ CustomerLocks(h) \/ CustomerActs(h)
        PROVE  HeldAlone'
    <2>1. \A g \in Requests \ {h} : serving'[g] = serving[g]
      BY <1>2, AsksMoves, CustomerLockMoves, CustomerActsMove
    <2>2. \A g \in Requests \ {h} : Customer!HoldsCustomer(g)' <=> Customer!HoldsCustomer(g)
      BY <2>1 DEF Customer!HoldsCustomer
    <2> QED
      BY <1>2, <2>2, CustomerLockTaken DEF HeldAlone
  <1> QED
    BY <1>1, <1>2, CustomerSteps, AloneKeepsServing

-----------------------------------------------------------------------------
(* The customer. *)

CustomerRows == [password : 1 .. MaxPassword, failures : 0 .. LoginMaxAttempts,
                 lockedOut : BOOLEAN, active : BOOLEAN]

LEMMA CustomerStays ==
  ASSUME customer \in CustomerRows, [Customer!AccessNext]_customerVars
  PROVE  customer' \in CustomerRows
  <1> USE Limits
  <1>1. CASE customer' = customer
    BY <1>1
  <1>2. CASE Customer!LoginRefused
    <2> DEFINE n == customer.failures + 1
               m == IF n < LoginMaxAttempts THEN n ELSE LoginMaxAttempts
               e == n >= LoginMaxAttempts
    <2>1. customer' = [customer EXCEPT !.failures = m, !.lockedOut = e]
      BY <1>2 DEF Customer!LoginRefused
    <2>2. m \in 0 .. LoginMaxAttempts
      BY DEF CustomerRows
    <2>3. e \in BOOLEAN
      OBVIOUS
    <2> HIDE DEF m, e
    <2> QED
      BY <2>1, <2>2, <2>3 DEF CustomerRows
  <1>3. CASE Customer!LockoutElapses
    BY <1>3 DEF Customer!LockoutElapses, CustomerRows
  <1>4. CASE Customer!OperatorActivated
    BY <1>4 DEF Customer!OperatorActivated, CustomerRows
  <1>5. ASSUME NEW h \in Requests, Customer!LoginAccepted(h)
        PROVE  customer' \in CustomerRows
    <2>1. customer' = [customer EXCEPT !.failures = 0, !.lockedOut = FALSE]
      BY <1>5 DEF Customer!LoginAccepted
    <2> QED
      BY <2>1 DEF CustomerRows
  <1>6. ASSUME NEW h \in Requests, Customer!ResetPassword(h)
        PROVE  customer' \in CustomerRows
    <2> DEFINE m == customer.password + 1
    <2>1. customer' = [customer EXCEPT !.password = m, !.failures = 0, !.lockedOut = FALSE]
      BY <1>6 DEF Customer!ResetPassword
    <2>2. m \in 1 .. MaxPassword
      BY <1>6 DEF Customer!ResetPassword, CustomerRows
    <2> HIDE DEF m
    <2> QED
      BY <2>1, <2>2 DEF CustomerRows
  <1>7. ASSUME NEW h \in Requests, Customer!ChangePassword(h)
        PROVE  customer' \in CustomerRows
    <2> DEFINE m == customer.password + 1
    <2>1. customer' = [customer EXCEPT !.password = m]
      BY <1>7 DEF Customer!ChangePassword
    <2>2. m \in 1 .. MaxPassword
      BY <1>7 DEF Customer!ChangePassword, CustomerRows
    <2> HIDE DEF m
    <2> QED
      BY <2>1, <2>2 DEF CustomerRows
  <1>8. ASSUME NEW h \in Requests, Customer!OperatorSuspended(h)
        PROVE  customer' \in CustomerRows
    <2>1. customer' = [customer EXCEPT !.active = FALSE]
      BY <1>8 DEF Customer!OperatorSuspended
    <2> QED
      BY <2>1 DEF CustomerRows
  <1>9. ASSUME NEW h \in Requests, Asks(h) \/ CustomerLocks(h)
        PROVE  customer' = customer
    BY <1>9 DEF Asks, CustomerLocks, Customer!BeginAccess, Customer!LockCustomer,
       Customer!LockRefreshToken, Customer!LockRefreshSession, Customer!RevokeSession,
       Customer!RevokeTokens
  <1>10. ASSUME NEW h \in Requests, CustomerActs(h)
         PROVE  \/ customer' = customer \/ Customer!LoginAccepted(h) \/ Customer!ResetPassword(h)
                \/ Customer!ChangePassword(h) \/ Customer!OperatorSuspended(h)
    BY <1>10 DEF CustomerActs, Customer!ForgotPassword, Customer!ResendCode,
       Customer!WrongAnswer, Customer!VerifyLogin, Customer!UpdateProfile,
       Customer!RotateToken, Customer!RefreshRevoked, Customer!Logout, Customer!LogoutAll,
       Customer!GivesUp
  <1> QED
    BY <1>1, <1>2, <1>3, <1>4, <1>5, <1>6, <1>7, <1>8, <1>9, <1>10, CustomerSteps
       DEF CustomerData, CustomerAlone

\* Only a reset and a change make a new password.
LEMMA AloneKeepsPassword ==
  ASSUME customer \in CustomerRows, CustomerAlone
  PROVE  customer'.password = customer.password
  BY DEF CustomerAlone, Customer!LoginRefused, Customer!LockoutElapses,
         Customer!OperatorActivated, CustomerRows

LEMMA PasswordKept ==
  ASSUME customer \in CustomerRows, NEW h \in Requests, CustomerActs(h),
         ~Customer!ResetPassword(h), ~Customer!ChangePassword(h)
  PROVE  customer'.password = customer.password
  BY DEF CustomerActs, Customer!ForgotPassword, Customer!ResendCode,
     Customer!WrongAnswer, Customer!VerifyLogin, Customer!UpdateProfile,
     Customer!RotateToken, Customer!RefreshRevoked, Customer!Logout, Customer!LogoutAll,
     Customer!GivesUp, Customer!LoginAccepted, Customer!OperatorSuspended, CustomerRows

-----------------------------------------------------------------------------
(* The codes of customers. *)

CodeRows == [purpose : Customer!Purposes, state : {"open", "consumed", "invalidated"},
             attempts : Nat, won : Nat, guesses : Nat, password : Nat]

\* A code that is open has been neither won nor guessed to its limit, and was
\* mailed under the password pw.
GoodCode(c, pw) ==
  /\ c \in CodeRows
  /\ c.attempts <= MaxAttempts /\ c.guesses = c.attempts /\ c.won <= 1
  /\ c.state = "open" => c.attempts < MaxAttempts /\ c.won = 0 /\ c.password = pw

GoodCodes(list, pw) ==
  /\ list \in Seq(CodeRows) /\ OneOpen(list)
  /\ \A c \in 1 .. Len(list) : GoodCode(list[c], pw)

\* What a request read of its code is what the row still says.
KnowsCode(h) ==
  /\ serving[h].op \in Customer!ChallengeOps => serving[h].arg \in 1 .. Len(codes)
  /\ Customer!HoldsCustomer(h) /\ serving[h].op \in Customer!ChallengeOps
       => serving[h].read.code = codes[serving[h].arg]
  /\ serving[h].op = "RESET" /\ serving[h].step = "revoking"
       => Customer!CodeUsable(serving[h].read.code)

CodeInv == GoodCodes(codes, customer.password) /\ \A h \in Requests : KnowsCode(h)

LEMMA CodesLen ==
  ASSUME NEW list, NEW pw, GoodCodes(list, pw)
  PROVE  Len(list) \in Nat /\ DOMAIN list = 1 .. Len(list)
  BY LenProperties DEF GoodCodes

Put(list, c, q) == [list EXCEPT ![c] = q]

\* A code changes, and is not opened again.
LEMMA CodeChanged ==
  ASSUME NEW list, NEW pw, GoodCodes(list, pw), NEW c \in 1 .. Len(list), NEW q,
         GoodCode(q, pw), q.purpose = list[c].purpose, q.state = "open" => list[c].state = "open"
  PROVE  GoodCodes(Put(list, c, q), pw) /\ Len(Put(list, c, q)) = Len(list)
  <1> DEFINE new == Put(list, c, q)
  <1>1. /\ new \in Seq(CodeRows) /\ Len(new) = Len(list)
        /\ \A d \in 1 .. Len(list) : new[d] = IF d = c THEN q ELSE list[d]
    BY ExceptSeq DEF Put, GoodCodes, GoodCode
  <1> HIDE DEF new
  <1> QED
    BY <1>1 DEF GoodCodes, OneOpen, new

InvalidCode(c) == [c EXCEPT !.state = "invalidated"]

LEMMA InvalidCodeGood ==
  ASSUME NEW c, NEW pw, GoodCode(c, pw), NEW pw2
  PROVE  /\ GoodCode(InvalidCode(c), pw2) /\ InvalidCode(c).purpose = c.purpose
         /\ InvalidCode(c).state # "open"
  BY DEF InvalidCode, GoodCode, CodeRows

LEMMA CountedCodeGood ==
  ASSUME NEW c, NEW pw, GoodCode(c, pw), c.state = "open"
  PROVE  GoodCode(CountedCode(c), pw) /\ CountedCode(c).purpose = c.purpose
  <1> DEFINE q == CountedCode(c)
             n == c.attempts + 1
             m == c.guesses + 1
             st == IF n >= MaxAttempts THEN "invalidated" ELSE c.state
  <1>1. /\ c \in CodeRows /\ c.attempts < MaxAttempts /\ c.guesses = c.attempts
        /\ c.won = 0 /\ n \in Nat /\ n <= MaxAttempts /\ m = n /\ c.password = pw
        /\ st \in {"open", "invalidated"} /\ (st = "open" => n < MaxAttempts)
    BY Limits DEF GoodCode, CodeRows
  <1>2. q = [c EXCEPT !.attempts = n, !.guesses = m, !.state = st]
    BY DEF CountedCode
  <1> HIDE DEF q, n, m, st
  <1>3. /\ q.attempts = n /\ q.state = st /\ q.guesses = m
        /\ q.won = c.won /\ q.purpose = c.purpose /\ q.password = c.password
    BY <1>1, <1>2 DEF CodeRows
  <1>4. q \in CodeRows
    BY <1>1, <1>2, <1>3 DEF CodeRows
  <1>5. GoodCode(q, pw)
    BY <1>1, <1>3, <1>4 DEF GoodCode
  <1> QED
    BY <1>3, <1>5 DEF q

LEMMA WonCodeGood ==
  ASSUME NEW c, NEW pw, GoodCode(c, pw), c.state = "open"
  PROVE  /\ GoodCode(WonCode(c), pw) /\ WonCode(c).purpose = c.purpose
         /\ WonCode(c).state # "open"
  <1> DEFINE q == WonCode(c)
             n == c.won + 1
  <1>1. /\ c \in CodeRows /\ c.guesses = c.attempts /\ n = 1
        /\ c.attempts <= MaxAttempts
    BY DEF GoodCode, CodeRows
  <1>2. q = [c EXCEPT !.state = "consumed", !.won = n]
    BY DEF WonCode
  <1> HIDE DEF q, n
  <1>3. /\ q.attempts = c.attempts /\ q.state = "consumed" /\ q.guesses = c.guesses
        /\ q.won = 1 /\ q.purpose = c.purpose
    BY <1>1, <1>2 DEF CodeRows
  <1>4. q \in CodeRows
    BY <1>1, <1>2, <1>3 DEF CodeRows
  <1>5. GoodCode(q, pw)
    BY <1>1, <1>3, <1>4 DEF GoodCode
  <1> QED
    BY <1>3, <1>5 DEF q

\* The open codes of some purposes are invalidated; when it is those of all
\* purposes, no code depends on the password any more.
LEMMA InvalidatedGood ==
  ASSUME NEW list, NEW pw, GoodCodes(list, pw), NEW P, NEW pw2,
         pw2 = pw \/ P = Customer!Purposes
  PROVE  LET new == Customer!Invalidated(list, P)
         IN  /\ GoodCodes(new, pw2) /\ Len(new) = Len(list)
             /\ \A c \in 1 .. Len(new) : new[c].state = "open" => new[c].purpose \notin P
  <1> DEFINE N == Len(list)
             new == Customer!Invalidated(list, P)
  <1>1. N \in Nat /\ DOMAIN list = 1 .. N /\ \A c \in 1 .. N : GoodCode(list[c], pw)
    BY CodesLen DEF GoodCodes
  <1>2. /\ DOMAIN new = 1 .. N
        /\ \A c \in 1 .. N : new[c] = IF list[c].state = "open" /\ list[c].purpose \in P
                                      THEN InvalidCode(list[c]) ELSE list[c]
    BY <1>1 DEF Customer!Invalidated, InvalidCode
  <1> HIDE DEF new
  <1>3. ASSUME NEW c \in 1 .. N
        PROVE  /\ GoodCode(new[c], pw2) /\ new[c].purpose = list[c].purpose
               /\ new[c].state = "open" => list[c].state = "open" /\ list[c].purpose \notin P
    <2>1. GoodCode(list[c], pw) /\ list[c].purpose \in Customer!Purposes
      BY <1>1 DEF GoodCode, CodeRows
    <2>2. CASE list[c].state = "open" /\ list[c].purpose \in P
      <3>1. new[c] = InvalidCode(list[c])
        BY <1>2, <2>2
      <3> QED
        BY <2>1, <3>1, InvalidCodeGood
    <2>3. CASE ~(list[c].state = "open" /\ list[c].purpose \in P)
      <3>1. new[c] = list[c]
        BY <1>2, <2>3
      <3>2. GoodCode(list[c], pw2)
        BY <2>1, <2>3 DEF GoodCode
      <3> QED
        BY <2>3, <3>1, <3>2
    <2> QED
      BY <2>2, <2>3
  <1>4. new \in Seq(CodeRows) /\ Len(new) = N
    <2>1. new \in [1 .. N -> CodeRows]
      <3>1. \A c \in 1 .. N : new[c] \in CodeRows
        BY <1>3 DEF GoodCode
      <3> QED
        BY <1>1, <1>2, <3>1 DEF new, Customer!Invalidated
    <2>2. new \in Seq(CodeRows)
      BY <1>1, <2>1, SeqDef
    <2> QED
      BY <1>1, <1>2, <2>2, LenProperties
  <1>5. OneOpen(new)
    BY <1>3, <1>4 DEF GoodCodes, OneOpen
  <1> QED
    BY <1>3, <1>4, <1>5 DEF GoodCodes, new

\* A new code invalidates the open one of its purpose.
LEMMA WithCodeGood ==
  ASSUME customer.password \in Nat, NEW list, GoodCodes(list, customer.password),
         NEW purpose \in Customer!Purposes
  PROVE  /\ GoodCodes(Customer!WithCode(list, purpose), customer.password)
         /\ Len(Customer!WithCode(list, purpose)) = Len(list) + 1
  <1> DEFINE N == Len(list)
             pw == customer.password
             old == Customer!Invalidated(list, {purpose})
             e == [purpose |-> purpose, state |-> "open", attempts |-> 0, won |-> 0,
                   guesses |-> 0, password |-> pw]
             new == Customer!WithCode(list, purpose)
  <1>1. /\ GoodCodes(old, pw) /\ Len(old) = N
        /\ \A c \in 1 .. Len(old) : old[c].state = "open" => old[c].purpose \notin {purpose}
    BY InvalidatedGood
  <1>2. e \in CodeRows /\ GoodCode(e, pw) /\ e.purpose = purpose
    BY Limits DEF CodeRows, GoodCode
  <1>3. new = Append(old, e)
    BY DEF Customer!WithCode
  <1>4. N \in Nat /\ old \in Seq(CodeRows)
    BY <1>1, CodesLen DEF GoodCodes
  <1> HIDE DEF old, e, new
  <1>5. /\ new \in Seq(CodeRows) /\ Len(new) = N + 1 /\ new[N + 1] = e
        /\ \A c \in 1 .. N : new[c] = old[c]
    BY <1>1, <1>2, <1>3, <1>4, AppendProperties
  <1> HIDE DEF N
  <1>6. \A c \in 1 .. N + 1 : c = N + 1 \/ c \in 1 .. N
    BY <1>4
  <1>7. OneOpen(new)
    BY <1>1, <1>2, <1>5, <1>6 DEF GoodCodes, OneOpen
  <1>8. \A c \in 1 .. N + 1 : GoodCode(new[c], pw)
    BY <1>1, <1>2, <1>5, <1>6 DEF GoodCodes
  <1> QED
    BY <1>5, <1>7, <1>8 DEF GoodCodes, N, new

LEMMA CodesAct ==
  ASSUME Served, CodeInv, customer \in CustomerRows, NEW h \in Requests, CustomerActs(h)
  PROVE  /\ GoodCodes(codes', customer'.password) /\ Len(codes') >= Len(codes)
         /\ Customer!HoldsCustomer(h) \/ codes' = codes
  <1> DEFINE c == serving[h].arg
             ch == codes[c]
             pw == customer.password
  <1>0. /\ GoodCodes(codes, pw) /\ Len(codes) \in Nat /\ DOMAIN codes = 1 .. Len(codes)
        /\ pw \in Nat
    BY CodesLen, Limits DEF CodeInv, CustomerRows
  <1>1. CASE codes' = codes /\ ~Customer!ResetPassword(h) /\ ~Customer!ChangePassword(h)
    BY <1>0, <1>1, PasswordKept
  <1>2. ASSUME serving[h].op \in Customer!ChallengeOps, Customer!HoldsCustomer(h)
        PROVE  /\ c \in 1 .. Len(codes) /\ serving[h].read.code = ch
               /\ GoodCode(ch, pw) /\ ch.purpose \in Customer!Purposes
    BY <1>0, <1>2 DEF CodeInv, KnowsCode, GoodCodes, GoodCode, CodeRows
  <1>3. CASE Customer!LoginAccepted(h) \/ Customer!ForgotPassword(h)
    <2>1. PICK p \in Customer!Purposes : codes' = Customer!WithCode(codes, p)
      BY <1>3 DEF Customer!LoginAccepted, Customer!ForgotPassword, Customer!Purposes
    <2>2. /\ Customer!HoldsCustomer(h)
          /\ ~Customer!ResetPassword(h) /\ ~Customer!ChangePassword(h)
      BY <1>3 DEF Customer!LoginAccepted, Customer!ForgotPassword, Customer!HoldsCustomer,
         Customer!LockingOps, Customer!ResetPassword, Customer!ChangePassword
    <2>3. customer'.password = pw
      BY <2>2, PasswordKept
    <2>4. GoodCodes(codes', pw) /\ Len(codes') = Len(codes) + 1
      BY <1>0, <2>1, WithCodeGood
    <2> QED
      BY <1>0, <2>2, <2>3, <2>4
  <1>4. CASE Customer!ResendCode(h)
    <2>1. /\ serving[h].op \in Customer!ChallengeOps /\ Customer!HoldsCustomer(h)
          /\ ~Customer!ResetPassword(h) /\ ~Customer!ChangePassword(h)
      BY <1>4 DEF Customer!ResendCode, Customer!HoldsCustomer, Customer!LockingOps,
         Customer!ChallengeOps, Customer!ResetPassword, Customer!ChangePassword
    <2>2. customer'.password = pw
      BY <2>1, PasswordKept
    <2> DEFINE q == InvalidCode(ch)
               list == Put(codes, c, q)
    <2>3. ch.state = "open" /\ codes' = Customer!WithCode(list, ch.purpose)
      BY <1>2, <1>4, <2>1 DEF Customer!ResendCode, InvalidCode, Put
    <2>4. GoodCode(q, pw) /\ q.purpose = ch.purpose /\ q.state # "open"
      BY <1>2, <2>1, InvalidCodeGood
    <2>5. GoodCodes(list, pw) /\ Len(list) = Len(codes)
      <3> HIDE DEF q, c, pw
      <3> QED
        BY <1>0, <1>2, <2>1, <2>4, CodeChanged
    <2> HIDE DEF list
    <2>6. GoodCodes(codes', pw) /\ Len(codes') = Len(codes) + 1
      BY <1>0, <1>2, <2>1, <2>3, <2>5, WithCodeGood
    <2> QED
      BY <1>0, <2>1, <2>2, <2>6
  <1>5. CASE Customer!WrongAnswer(h)
    <2>1. /\ serving[h].op \in Customer!ChallengeOps /\ Customer!HoldsCustomer(h)
          /\ ~Customer!ResetPassword(h) /\ ~Customer!ChangePassword(h)
      BY <1>5 DEF Customer!WrongAnswer, Customer!HoldsCustomer, Customer!LockingOps,
         Customer!ChallengeOps, Customer!ResetPassword, Customer!ChangePassword,
         Customer!AllRevoked
    <2>2. customer'.password = pw
      BY <2>1, PasswordKept
    <2> DEFINE q == CountedCode(ch)
    <2>3. ch.state = "open" /\ codes' = Put(codes, c, q)
      BY <1>2, <1>5, <2>1 DEF Customer!WrongAnswer, Customer!CodeUsable, CountedCode, Put
    <2>4. GoodCode(q, pw) /\ q.purpose = ch.purpose
      BY <1>2, <2>1, <2>3, CountedCodeGood
    <2>5. GoodCodes(codes', pw) /\ Len(codes') = Len(codes)
      <3> HIDE DEF q, c, pw
      <3> QED
        BY <1>0, <1>2, <2>1, <2>3, <2>4, CodeChanged
    <2> QED
      BY <1>0, <2>1, <2>2, <2>5
  <1>6. ASSUME serving[h].op \in Customer!ChallengeOps, Customer!HoldsCustomer(h), ch.state = "open"
        PROVE  GoodCodes(Customer!Answered(c), pw) /\ Len(Customer!Answered(c)) = Len(codes)
    <2> DEFINE q == WonCode(ch)
    <2>1. Customer!Answered(c) = Put(codes, c, q)
      BY <1>0, <1>2, <1>6 DEF Customer!Answered, WonCode, Put
    <2>2. GoodCode(q, pw) /\ q.purpose = ch.purpose /\ q.state # "open"
      BY <1>2, <1>6, WonCodeGood
    <2> HIDE DEF q, c, pw
    <2> QED
      BY <1>0, <1>2, <1>6, <2>1, <2>2, CodeChanged
  <1>7. CASE Customer!VerifyLogin(h)
    <2>1. /\ serving[h].op \in Customer!ChallengeOps /\ Customer!HoldsCustomer(h)
          /\ ~Customer!ResetPassword(h) /\ ~Customer!ChangePassword(h)
      BY <1>7 DEF Customer!VerifyLogin, Customer!HoldsCustomer, Customer!LockingOps,
         Customer!ChallengeOps, Customer!ResetPassword, Customer!ChangePassword
    <2>2. customer'.password = pw
      BY <2>1, PasswordKept
    <2>3. ch.state = "open" /\ codes' = Customer!Answered(c)
      BY <1>2, <1>7, <2>1 DEF Customer!VerifyLogin, Customer!CodeUsable
    <2> QED
      BY <1>0, <1>6, <2>1, <2>2, <2>3
  <1>8. CASE Customer!ResetPassword(h)
    <2>1. /\ serving[h].op = "RESET" /\ serving[h].step = "revoking"
      BY <1>8 DEF Customer!ResetPassword, Customer!AllRevoked
    <2>2. serving[h].op \in Customer!ChallengeOps /\ Customer!HoldsCustomer(h)
      BY <2>1 DEF Customer!HoldsCustomer, Customer!LockingOps, Customer!ChallengeOps
    <2>3. ch.state = "open"
      BY <1>2, <2>1, <2>2 DEF CodeInv, KnowsCode, Customer!CodeUsable
    <2>4. codes' = Customer!Invalidated(Customer!Answered(c), Customer!Purposes)
      BY <1>8 DEF Customer!ResetPassword
    <2>5. GoodCodes(Customer!Answered(c), pw) /\ Len(Customer!Answered(c)) = Len(codes)
      BY <1>6, <2>2, <2>3
    <2> DEFINE list == Customer!Answered(c)
    <2> HIDE DEF list
    <2>6. /\ GoodCodes(codes', customer'.password) /\ Len(codes') = Len(list)
      BY <2>4, <2>5, InvalidatedGood DEF list
    <2> QED
      BY <1>0, <2>2, <2>5, <2>6 DEF list
  <1>9. CASE Customer!ChangePassword(h)
    <2>1. Customer!HoldsCustomer(h)
      BY <1>9 DEF Customer!ChangePassword, Customer!AllRevoked, Customer!HoldsCustomer,
         Customer!LockingOps
    <2>2. codes' = Customer!Invalidated(codes, Customer!Purposes)
      BY <1>9 DEF Customer!ChangePassword
    <2>3. /\ GoodCodes(codes', customer'.password) /\ Len(codes') = Len(codes)
      BY <1>0, <2>2, InvalidatedGood
    <2> QED
      BY <1>0, <2>1, <2>3
  <1>10. \/ codes' = codes \/ Customer!LoginAccepted(h) \/ Customer!ForgotPassword(h)
         \/ Customer!ResendCode(h) \/ Customer!WrongAnswer(h) \/ Customer!VerifyLogin(h)
         \/ Customer!ResetPassword(h) \/ Customer!ChangePassword(h)
    BY DEF CustomerActs, Customer!UpdateProfile,
       Customer!RotateToken, Customer!RefreshRevoked, Customer!Logout, Customer!LogoutAll,
       Customer!GivesUp, Customer!OperatorSuspended
  <1> QED
    BY <1>1, <1>3, <1>4, <1>5, <1>7, <1>8, <1>9, <1>10

LEMMA CodesStay ==
  ASSUME Served, HeldAlone, CodeInv, customer \in CustomerRows,
         [Customer!AccessNext]_customerVars
  PROVE  CodeInv'
  <1>1. CASE UNCHANGED <<serving, codes>> /\ customer'.password = customer.password
    BY <1>1 DEF CodeInv, KnowsCode, Customer!HoldsCustomer
  <1>2. CustomerAlone => UNCHANGED <<serving, codes>> /\ customer'.password = customer.password
    BY AloneKeepsServing, AloneKeepsPassword
  <1>3. Len(codes) \in Nat /\ DOMAIN codes = 1 .. Len(codes)
    BY CodesLen DEF CodeInv
  <1>4. ASSUME NEW h \in Requests, Asks(h) \/ CustomerLocks(h)
        PROVE  CodeInv'
    <2>1. /\ codes' = codes /\ customer' = customer
          /\ \A g \in Requests \ {h} : serving'[g] = serving[g]
      BY <1>4, AsksMoves, CustomerLockMoves DEF CustomerData
    <2>2. \A g \in Requests \ {h} : KnowsCode(g)'
      BY <2>1 DEF CodeInv, KnowsCode, Customer!HoldsCustomer
    <2>3. CASE Asks(h)
      <3>1. /\ serving'[h].step = "begun"
            /\ serving'[h].arg \in Customer!Subjects(serving'[h].op)
        BY <2>3, AsksMoves
      <3>2. serving'[h].op \in Customer!ChallengeOps => serving'[h].arg \in 1 .. Len(codes)
        BY <1>3, <3>1 DEF Customer!Subjects, Customer!ChallengeOps
      <3>3. KnowsCode(h)'
        BY <2>1, <3>1, <3>2 DEF KnowsCode, Customer!HoldsCustomer
      <3> QED
        BY <2>1, <2>2, <3>3 DEF CodeInv
    <2>4. CASE CustomerLocks(h)
      <3>1. serving'[h].op = serving[h].op /\ serving'[h].arg = serving[h].arg
        BY <2>4, CustomerLockMoves DEF Keeps
      <3>2. KnowsCode(h)'
        <4>1. CASE serving[h].op \notin Customer!ChallengeOps
          BY <3>1, <4>1 DEF KnowsCode, Customer!ChallengeOps
        <4>2. CASE serving[h].op \in Customer!ChallengeOps /\ Customer!LockCustomer(h)
          <5>1. serving'[h].step = "locked" /\ serving'[h].read = Customer!RowsRead(h)
            BY <2>4, <4>2, CustomerLockMoves
          <5>2. Customer!RowsRead(h).code = codes[serving[h].arg]
            BY <4>2 DEF Customer!RowsRead
          <5> QED
            BY <2>1, <3>1, <5>1, <5>2 DEF CodeInv, KnowsCode
        <4>3. CASE serving[h].op \in Customer!ChallengeOps /\ Customer!RevokeTokens(h)
          <5>1. /\ serving[h].op = "RESET" /\ Customer!HoldsCustomer(h)
                /\ Customer!CodeUsable(serving[h].read.code)
            BY <4>3 DEF Customer!RevokeTokens, Customer!ChallengeOps, Customer!HoldsCustomer,
               Customer!LockingOps
          <5>2. serving'[h].read = serving[h].read
            BY <2>4, <4>3, CustomerLockMoves
          <5> QED
            BY <2>1, <3>1, <4>3, <5>1, <5>2 DEF CodeInv, KnowsCode, Customer!CodeUsable
        <4>4. serving[h].op \in Customer!ChallengeOps
                => Customer!LockCustomer(h) \/ Customer!RevokeTokens(h)
          BY <2>4 DEF CustomerLocks, Customer!LockRefreshToken, Customer!LockRefreshSession,
             Customer!RevokeSession, Customer!ChallengeOps
        <4> QED
          BY <4>1, <4>2, <4>3, <4>4
      <3> QED
        BY <2>1, <2>2, <3>2 DEF CodeInv
    <2> QED
      BY <1>4, <2>3, <2>4
  <1>5. ASSUME NEW h \in Requests, CustomerActs(h)
        PROVE  CodeInv'
    <2>1. /\ GoodCodes(codes', customer'.password) /\ Len(codes') >= Len(codes)
          /\ Customer!HoldsCustomer(h) \/ codes' = codes
      BY <1>5, CodesAct
    <2>2. Len(codes') \in Nat
      BY <2>1, CodesLen
    <2>3. /\ serving'[h] = Customer!Unused
          /\ \A g \in Requests \ {h} : serving'[g] = serving[g]
      BY <1>5, CustomerActsMove
    <2>4. KnowsCode(h)'
      BY <2>3, UnusedRequest DEF KnowsCode, Customer!ChallengeOps
    <2>5. ASSUME NEW g \in Requests \ {h}
          PROVE  KnowsCode(g)'
      <3>1. Customer!HoldsCustomer(g)' => Customer!HoldsCustomer(g) /\ codes' = codes
        BY <2>1, <2>3 DEF HeldAlone, Customer!HoldsCustomer
      <3> QED
        BY <1>3, <2>1, <2>2, <2>3, <3>1 DEF CodeInv, KnowsCode
    <2> QED
      BY <2>1, <2>4, <2>5 DEF CodeInv
  <1> QED
    BY <1>1, <1>2, <1>4, <1>5, CustomerSteps DEF CustomerData

-----------------------------------------------------------------------------
(* The sessions and tokens of customers. *)

KnowsIssued(h) ==
  serving[h].op = "REFRESH" =>
    /\ serving[h].arg \in 1 .. Len(issued)
    /\ serving[h].step \in {"token", "locked"}
         => serving[h].read.token = issued[serving[h].arg]

IssuedAlone ==
  \A g, h \in Requests :
    g # h => Customer!LockedTokens(g) \cap Customer!LockedTokens(h) = {}

\* The sessions that are not revoked are of this password.
OfPassword(list, pw) == \A s \in 1 .. Len(list) : ~list[s].revoked => list[s].password = pw

IssuedInv ==
  /\ opened \in Seq(SessionRows) /\ GoodTokens(issued, Len(opened))
  /\ \A h \in Requests : KnowsIssued(h)
  /\ IssuedAlone /\ OfPassword(opened, customer.password)

LEMMA OpenedRevoked ==
  ASSUME NEW list \in Seq(SessionRows), NEW S, NEW pw, OfPassword(list, pw)
  PROVE  /\ ListRevoked(list, S) \in Seq(SessionRows)
         /\ Len(ListRevoked(list, S)) = Len(list)
         /\ OfPassword(ListRevoked(list, S), pw)
  BY SessionsRevokedGood DEF OfPassword

\* When all are revoked none depends on the password any more.
LEMMA OpenedAllRevoked ==
  ASSUME NEW list \in Seq(SessionRows), NEW pw
  PROVE  LET S == {s \in DOMAIN list : ~list[s].revoked}
         IN  OfPassword(ListRevoked(list, S), pw)
  <1> DEFINE S == {s \in DOMAIN list : ~list[s].revoked}
  <1>1. DOMAIN list = 1 .. Len(list)
    BY LenProperties
  <1>2. \A s \in 1 .. Len(list) : ~list[s].revoked => s \in S
    BY <1>1
  <1> HIDE DEF S
  <1> QED
    BY <1>2, SessionsRevokedGood DEF OfPassword, S

LEMMA OpenedAdded ==
  ASSUME NEW list \in Seq(SessionRows), NEW pw \in Nat, OfPassword(list, pw)
  PROVE  LET new == Append(list, [revoked |-> FALSE, password |-> pw])
         IN  /\ new \in Seq(SessionRows) /\ Len(new) = Len(list) + 1
             /\ OfPassword(new, pw)
  <1> DEFINE e == [revoked |-> FALSE, password |-> pw]
             new == Append(list, e)
  <1>1. e \in SessionRows /\ e.password = pw /\ Len(list) \in Nat
    BY LenProperties DEF SessionRows
  <1> HIDE DEF e
  <1>2. /\ new \in Seq(SessionRows) /\ Len(new) = Len(list) + 1
        /\ \A s \in 1 .. Len(list) : new[s] = list[s]
        /\ new[Len(list) + 1] = e
    BY <1>1, AppendProperties
  <1> HIDE DEF new
  <1>3. OfPassword(new, pw)
    BY <1>1, <1>2 DEF OfPassword
  <1> QED
    BY <1>2, <1>3 DEF new, e

LEMMA IssuedAct ==
  ASSUME Served, IssuedInv, customer \in CustomerRows, NEW h \in Requests, CustomerActs(h)
  PROVE  /\ opened' \in Seq(SessionRows) /\ GoodTokens(issued', Len(opened'))
         /\ OfPassword(opened', customer'.password) /\ Len(issued') >= Len(issued)
         /\ \A g \in Requests \ {h} :
              \A t \in Customer!LockedTokens(g) \cap 1 .. Len(issued) : issued'[t] = issued[t]
  <1> DEFINE n == Len(opened)
             a == serving[h].arg
             pw == customer.password
  <1>1. /\ opened \in Seq(SessionRows) /\ GoodTokens(issued, n) /\ OfPassword(opened, pw)
        /\ n \in Nat /\ Len(issued) \in Nat /\ DOMAIN issued = 1 .. Len(issued) /\ pw \in Nat
    BY TokenLen, LenProperties, Limits DEF IssuedInv, CustomerRows
  <1>2. Customer!ResetPassword(h) \/ Customer!ChangePassword(h) \/ customer'.password = pw
    BY PasswordKept
  <1>3. CASE UNCHANGED <<opened, issued>> /\ customer'.password = pw
    BY <1>1, <1>3
  <1>4. CASE Customer!VerifyLogin(h)
    <2> DEFINE e == [revoked |-> FALSE, password |-> pw]
               m == n + 1
               list == AddedToken(issued, m)
    <2>1. opened' = Append(opened, e) /\ issued' = list /\ customer'.password = pw
      BY <1>4 DEF Customer!VerifyLogin, AddedToken, Token, Customer!NewToken
    <2>2. opened' \in Seq(SessionRows) /\ Len(opened') = m /\ OfPassword(opened', pw)
      BY <1>1, <2>1, OpenedAdded
    <2>3. /\ m \in Nat /\ n \in Nat /\ n <= m /\ m \in 1 .. m /\ NoneLive(issued, m)
          /\ GoodTokens(issued, n)
      BY <1>1 DEF GoodTokens, GoodToken, NoneLive
    <2> HIDE DEF m, n
    <2>4. GoodTokens(list, m) /\ Len(list) = Len(issued) + 1 /\ Kept(issued, list)
      BY <2>3, TokenAdded
    <2> HIDE DEF list
    <2> QED
      BY <1>1, <2>1, <2>2, <2>4 DEF Kept
  <1>5. CASE Customer!RotateToken(h)
    <2> DEFINE q == UsedToken(issued[a])
               list == [issued EXCEPT ![a] = q]
               s == issued[a].session
               new == AddedToken(list, s)
    <2>1. serving[h].op = "REFRESH" /\ serving[h].step = "locked" /\ a \in Customer!LockedTokens(h)
      BY <1>5 DEF Customer!RotateToken, Customer!LockedTokens
    <2>2. /\ a \in 1 .. Len(issued) /\ IsLive(issued[a])
          /\ \A g \in Requests \ {h} : a \notin Customer!LockedTokens(g)
      BY <1>5, <2>1 DEF Customer!RotateToken, IsLive, IssuedInv, KnowsIssued, IssuedAlone,
         Customer!Reused, Customer!TokenOver
    <2>3. issued' = new /\ opened' = opened /\ customer'.password = pw
      <3>1. a \in DOMAIN issued
        BY <1>1, <2>2
      <3> QED
        BY <1>5, <3>1 DEF Customer!RotateToken, UsedToken, AddedToken, Token, Customer!NewToken
    <2>4. /\ GoodTokens(list, n) /\ Len(list) = Len(issued)
          /\ \A u \in 1 .. Len(issued) : u # a => list[u] = issued[u]
          /\ NoneLive(list, s)
      BY <1>1, <2>2, LiveTokenUsed DEF NoneLive
    <2>5. s \in 1 .. n /\ n <= n
      BY <1>1, <2>2 DEF GoodTokens, GoodToken
    <2> HIDE DEF list, s, n
    <2>6. GoodTokens(new, n) /\ Len(new) = Len(list) + 1 /\ Kept(list, new)
      BY <1>1, <2>4, <2>5, TokenAdded
    <2> HIDE DEF new
    <2> QED
      BY <1>1, <2>2, <2>3, <2>4, <2>6 DEF n, Kept
  <1>6. ASSUME NEW S, NEW T, opened' = Customer!SessionsRevoked(S),
               issued' = Customer!RevokedTokens(T),
               \A g \in Requests \ {h} : T \cap Customer!LockedTokens(g) = {},
               customer'.password = pw \/ S = Customer!LiveSessions
        PROVE  /\ opened' \in Seq(SessionRows) /\ GoodTokens(issued', Len(opened'))
               /\ OfPassword(opened', customer'.password) /\ Len(issued') >= Len(issued)
               /\ \A g \in Requests \ {h} :
                    \A t \in Customer!LockedTokens(g) \cap 1 .. Len(issued) :
                      issued'[t] = issued[t]
    <2>1. opened' = ListRevoked(opened, S) /\ issued' = ListRevoked(issued, T)
      BY <1>6 DEF Customer!SessionsRevoked, Customer!RevokedTokens, ListRevoked
    <2>2. opened' \in Seq(SessionRows) /\ Len(opened') = n /\ OfPassword(opened', pw)
      BY <1>1, <2>1, OpenedRevoked
    <2>3. OfPassword(opened', customer'.password)
      BY <1>1, <1>6, <2>1, <2>2, OpenedAllRevoked DEF Customer!LiveSessions
    <2>4. /\ GoodTokens(issued', n) /\ Len(issued') = Len(issued)
          /\ \A t \in 1 .. Len(issued) : t \notin T => issued'[t] = issued[t]
      BY <1>1, <2>1, TokensRevokedGood
    <2> QED
      BY <1>1, <1>6, <2>2, <2>3, <2>4
  <1>7. CASE Customer!RefreshRevoked(h)
    <2> DEFINE T == Customer!LiveTokensOf({issued[a].session})
    <2>1. /\ opened' = Customer!SessionsRevoked({issued[a].session})
          /\ issued' = Customer!RevokedTokens(T) /\ customer'.password = pw
      BY <1>7 DEF Customer!RefreshRevoked
    <2>2. Customer!WaitsForTokens(h) = T
      BY <1>7 DEF Customer!RefreshRevoked, Customer!WaitsForTokens
    <2>3. \A g \in Requests \ {h} : T \cap Customer!LockedTokens(g) = {}
      BY <1>7, <2>2 DEF Customer!RefreshRevoked, Customer!Proceeds, Customer!WaitsFor
    <2> HIDE DEF T
    <2> QED
      BY <1>6, <2>1, <2>3
  <1>8. CASE Customer!Logout(h)
    <2> DEFINE T == Customer!LiveTokensOf({a})
    <2>1. /\ opened' = Customer!SessionsRevoked(serving[h].sessions)
          /\ issued' = Customer!RevokedTokens(T) /\ customer'.password = pw
      BY <1>8 DEF Customer!Logout
    <2>2. Customer!WaitsForTokens(h) = T
      BY <1>8 DEF Customer!Logout, Customer!WaitsForTokens
    <2>3. \A g \in Requests \ {h} : T \cap Customer!LockedTokens(g) = {}
      BY <1>8, <2>2 DEF Customer!Logout, Customer!Proceeds, Customer!WaitsFor
    <2> HIDE DEF T
    <2> QED
      BY <1>6, <2>1, <2>3
  <1>9. CASE Customer!AllRevoked(h) /\ serving[h].op \in Customer!RevokesAll
    <2> DEFINE T == serving[h].tokens
    <2>1. opened' = Customer!SessionsRevoked(Customer!LiveSessions) /\ issued' = Customer!RevokedTokens(T)
      BY <1>9 DEF Customer!AllRevoked
    <2>2. T = Customer!LockedTokens(h)
      BY <1>9 DEF Customer!RevokesAll, Customer!LockedTokens
    <2>3. \A g \in Requests \ {h} : T \cap Customer!LockedTokens(g) = {}
      BY <2>2 DEF IssuedInv, IssuedAlone
    <2> HIDE DEF T
    <2> QED
      BY <1>6, <2>1, <2>3
  <1>10. \/ UNCHANGED <<opened, issued>>
            /\ ~Customer!ResetPassword(h) /\ ~Customer!ChangePassword(h)
         \/ Customer!VerifyLogin(h) \/ Customer!RotateToken(h) \/ Customer!RefreshRevoked(h)
         \/ Customer!Logout(h)
         \/ Customer!AllRevoked(h) /\ serving[h].op \in Customer!RevokesAll
    <2>1. CASE \/ Customer!LoginAccepted(h) \/ Customer!ForgotPassword(h) \/ Customer!ResendCode(h)
               \/ Customer!WrongAnswer(h) \/ Customer!UpdateProfile(h) \/ Customer!GivesUp(h)
      <3>1. UNCHANGED <<opened, issued>>
        BY <2>1 DEF Customer!LoginAccepted, Customer!ForgotPassword, Customer!ResendCode,
           Customer!WrongAnswer, Customer!UpdateProfile, Customer!GivesUp
      <3>2. Customer!ResetPassword(h) \/ Customer!ChangePassword(h)
              => Customer!AllRevoked(h) /\ serving[h].op \in {"RESET", "CHANGE"}
        BY DEF Customer!ResetPassword, Customer!ChangePassword
      <3> QED
        BY <3>1, <3>2 DEF Customer!RevokesAll
    <2>2. CASE \/ Customer!LogoutAll(h) \/ Customer!OperatorSuspended(h)
               \/ Customer!ResetPassword(h) \/ Customer!ChangePassword(h)
      BY <2>2 DEF Customer!LogoutAll, Customer!OperatorSuspended, Customer!ResetPassword,
         Customer!ChangePassword, Customer!RevokesAll
    <2> QED
      BY <2>1, <2>2 DEF CustomerActs
  <1> QED
    BY <1>2, <1>3, <1>4, <1>5, <1>7, <1>8, <1>9, <1>10

LEMMA CustomerTokenLockTaken ==
  ASSUME Served, IssuedAlone, NEW h \in Requests, CustomerLocks(h), NEW g \in Requests \ {h}
  PROVE  Customer!LockedTokens(h)' \cap Customer!LockedTokens(g) = {}
  <1>1. serving'[h].op = serving[h].op /\ serving'[h].arg = serving[h].arg
    BY CustomerLockMoves DEF Keeps
  <1>2. Customer!LockedTokens(h) \cap Customer!LockedTokens(g) = {}
    BY DEF IssuedAlone
  <1>3. CASE Customer!LockRefreshToken(h)
    <2>1. Customer!LockedTokens(h)' = {serving[h].arg}
      BY <1>1, <1>3, CustomerLockMoves DEF Customer!LockRefreshToken, Customer!LockedTokens
    <2>2. Customer!WaitsForTokens(h) = {serving[h].arg}
      BY <1>3 DEF Customer!LockRefreshToken, Customer!WaitsForTokens
    <2> QED
      BY <1>3, <2>1, <2>2 DEF Customer!LockRefreshToken, Customer!Proceeds, Customer!WaitsFor
  <1>4. CASE Customer!LockRefreshSession(h)
    <2>1. /\ Customer!LockedTokens(h)' = {serving[h].arg}
          /\ Customer!LockedTokens(h) = {serving[h].arg}
      BY <1>1, <1>4, CustomerLockMoves DEF Customer!LockRefreshSession, Customer!LockedTokens
    <2> QED
      BY <1>2, <2>1
  <1>5. CASE Customer!RevokeTokens(h)
    <2>1. /\ serving[h].op # "REFRESH"
          /\ Customer!LockedTokens(h)' = Customer!LiveTokensOf(DOMAIN opened)
      BY <1>1, <1>5, CustomerLockMoves DEF Customer!RevokeTokens, Customer!LockedTokens
    <2>2. Customer!WaitsForTokens(h) = Customer!LiveTokensOf(DOMAIN opened)
      BY <1>5 DEF Customer!RevokeTokens, Customer!WaitsForTokens
    <2> QED
      BY <1>5, <2>1, <2>2 DEF Customer!RevokeTokens, Customer!Proceeds, Customer!WaitsFor
  <1>6. CASE Customer!LockCustomer(h) \/ Customer!RevokeSession(h)
    <2>1. serving[h].op # "REFRESH"
      BY <1>6 DEF Customer!LockCustomer, Customer!RevokeSession, Customer!LockingOps,
         Customer!ChallengeOps
    <2>2. serving'[h].tokens = serving[h].tokens
      BY <1>6, CustomerLockMoves
    <2>3. Customer!LockedTokens(h)' = Customer!LockedTokens(h)
      BY <1>1, <2>1, <2>2 DEF Customer!LockedTokens
    <2> QED
      BY <1>2, <2>3
  <1> QED
    BY <1>3, <1>4, <1>5, <1>6 DEF CustomerLocks

LEMMA IssuedStays ==
  ASSUME Served, IssuedInv, customer \in CustomerRows, [Customer!AccessNext]_customerVars
  PROVE  IssuedInv'
  <1>1. CASE UNCHANGED <<serving, opened, issued>> /\ customer'.password = customer.password
    BY <1>1 DEF IssuedInv, KnowsIssued, IssuedAlone, Customer!LockedTokens
  <1>2. CustomerAlone =>
          UNCHANGED <<serving, opened, issued>> /\ customer'.password = customer.password
    BY AloneKeepsServing, AloneKeepsPassword
  <1>3. Len(issued) \in Nat /\ DOMAIN issued = 1 .. Len(issued)
    BY TokenLen DEF IssuedInv
  <1>4. ASSUME NEW h \in Requests, \A g \in Requests \ {h} : serving'[g] = serving[g],
               \A g \in Requests \ {h} :
                 Customer!LockedTokens(h)' \cap Customer!LockedTokens(g) = {}
        PROVE  IssuedAlone'
    <2>1. \A g \in Requests \ {h} : Customer!LockedTokens(g)' = Customer!LockedTokens(g)
      BY <1>4 DEF Customer!LockedTokens
    <2> QED
      BY <1>4, <2>1 DEF IssuedInv, IssuedAlone
  <1>5. ASSUME NEW h \in Requests, Asks(h) \/ CustomerLocks(h)
        PROVE  IssuedInv'
    <2>1. /\ issued' = issued /\ opened' = opened /\ customer' = customer
          /\ \A g \in Requests \ {h} : serving'[g] = serving[g]
      BY <1>5, AsksMoves, CustomerLockMoves DEF CustomerData
    <2>2. \A g \in Requests \ {h} : KnowsIssued(g)'
      BY <2>1 DEF IssuedInv, KnowsIssued
    <2>3. CASE Asks(h)
      <3>1. /\ serving'[h].step = "begun" /\ serving'[h].tokens = {}
            /\ serving'[h].arg \in Customer!Subjects(serving'[h].op)
        BY <2>3, AsksMoves
      <3>2. serving'[h].op = "REFRESH" => serving'[h].arg \in 1 .. Len(issued)
        BY <1>3, <3>1 DEF Customer!Subjects
      <3>3. KnowsIssued(h)'
        BY <2>1, <3>1, <3>2 DEF KnowsIssued
      <3>4. Customer!LockedTokens(h)' = {}
        BY <3>1 DEF Customer!LockedTokens
      <3>5. IssuedAlone'
        BY <1>4, <2>1, <3>4
      <3> QED
        BY <2>1, <2>2, <3>3, <3>5 DEF IssuedInv
    <2>4. CASE CustomerLocks(h)
      <3>1. serving'[h].op = serving[h].op /\ serving'[h].arg = serving[h].arg
        BY <2>4, CustomerLockMoves DEF Keeps
      <3>2. KnowsIssued(h)'
        <4>1. CASE serving[h].op # "REFRESH"
          BY <3>1, <4>1 DEF KnowsIssued
        <4>2. CASE Customer!LockRefreshToken(h)
          <5>1. /\ serving[h].op = "REFRESH"
                /\ serving'[h].read.token = issued[serving[h].arg]
            BY <2>4, <4>2, CustomerLockMoves DEF Customer!LockRefreshToken
          <5> QED
            BY <2>1, <3>1, <5>1 DEF IssuedInv, KnowsIssued
        <4>3. CASE Customer!LockRefreshSession(h)
          <5>1. /\ serving[h].op = "REFRESH" /\ serving[h].step = "token"
                /\ serving'[h].read.token = serving[h].read.token
            BY <2>4, <4>3, CustomerLockMoves DEF Customer!LockRefreshSession
          <5> QED
            BY <2>1, <3>1, <5>1 DEF IssuedInv, KnowsIssued
        <4>4. serving[h].op = "REFRESH"
                => Customer!LockRefreshToken(h) \/ Customer!LockRefreshSession(h)
          BY <2>4 DEF CustomerLocks, Customer!LockCustomer, Customer!RevokeSession,
             Customer!RevokeTokens, Customer!LockingOps, Customer!ChallengeOps
        <4> QED
          BY <4>1, <4>2, <4>3, <4>4
      <3>3. IssuedAlone'
        BY <1>4, <2>1, <2>4, CustomerTokenLockTaken DEF IssuedInv
      <3> QED
        BY <2>1, <2>2, <3>2, <3>3 DEF IssuedInv
    <2> QED
      BY <1>5, <2>3, <2>4
  <1>6. ASSUME NEW h \in Requests, CustomerActs(h)
        PROVE  IssuedInv'
    <2>1. /\ opened' \in Seq(SessionRows) /\ GoodTokens(issued', Len(opened'))
          /\ OfPassword(opened', customer'.password) /\ Len(issued') >= Len(issued)
          /\ \A g \in Requests \ {h} :
               \A t \in Customer!LockedTokens(g) \cap 1 .. Len(issued) : issued'[t] = issued[t]
      BY <1>6, IssuedAct
    <2>2. Len(issued') \in Nat
      BY <2>1, TokenLen
    <2>3. serving'[h] = Customer!Unused /\ \A g \in Requests \ {h} : serving'[g] = serving[g]
      BY <1>6, CustomerActsMove
    <2>4. KnowsIssued(h)'
      BY <2>3, UnusedRequest DEF KnowsIssued
    <2>5. Customer!LockedTokens(h)' = {}
      BY <2>3, UnusedRequest DEF Customer!LockedTokens
    <2>6. IssuedAlone'
      BY <1>4, <2>3, <2>5
    <2>7. ASSUME NEW g \in Requests \ {h}
          PROVE  KnowsIssued(g)'
      <3> SUFFICES ASSUME serving[g].op = "REFRESH"
                   PROVE  KnowsIssued(g)'
        BY <2>3 DEF KnowsIssued
      <3> DEFINE a == serving[g].arg
      <3>1. a \in 1 .. Len(issued) /\ a \in 1 .. Len(issued')
        BY <1>3, <2>1, <2>2 DEF IssuedInv, KnowsIssued
      <3>2. CASE serving[g].step \in {"token", "locked"}
        <4>1. a \in Customer!LockedTokens(g)
          BY <3>2 DEF Customer!LockedTokens
        <4>2. issued'[a] = issued[a] /\ serving[g].read.token = issued[a]
          BY <2>1, <3>1, <3>2, <4>1 DEF IssuedInv, KnowsIssued
        <4> QED
          BY <2>3, <3>1, <4>2 DEF KnowsIssued
      <3>3. CASE serving[g].step \notin {"token", "locked"}
        BY <2>3, <3>1, <3>3 DEF KnowsIssued
      <3> QED
        BY <3>2, <3>3
    <2> QED
      BY <2>1, <2>4, <2>6, <2>7 DEF IssuedInv
  <1> QED
    BY <1>1, <1>2, <1>5, <1>6, CustomerSteps DEF CustomerData

-----------------------------------------------------------------------------
(* What the access of customers promises. *)

CustomerInv ==
  Served /\ HeldAlone /\ customer \in CustomerRows /\ CodeInv /\ IssuedInv

LEMMA CustomerInit ==
  ASSUME Customer!AccessInit
  PROVE  CustomerInv
  <1>1. /\ DOMAIN serving = Requests /\ \A h \in Requests : serving[h] = Customer!Unused
        /\ codes = <<>> /\ issued = <<>> /\ opened = <<>>
    BY DEF Customer!AccessInit
  <1>2. Served /\ HeldAlone
    BY <1>1, UnusedRequest DEF Served, HeldAlone, Customer!HoldsCustomer
  <1>3. customer \in CustomerRows
    BY Limits DEF Customer!AccessInit, CustomerRows
  <1>4. ASSUME NEW S
        PROVE  <<>> \in Seq(S) /\ Len(<<>>) = 0 /\ DOMAIN <<>> = {}
    BY EmptySeq
  <1>5. \A i \in 1 .. 0 : FALSE
    OBVIOUS
  <1>6. CodeInv
    BY <1>1, <1>4, <1>5, UnusedRequest
       DEF CodeInv, GoodCodes, OneOpen, KnowsCode, Customer!ChallengeOps
  <1>7. IssuedInv
    <2>1. GoodTokens(issued, Len(opened)) /\ OfPassword(opened, customer.password)
      BY <1>1, <1>4, <1>5 DEF GoodTokens, OneLive, OfPassword
    <2>2. \A h \in Requests : KnowsIssued(h) /\ Customer!LockedTokens(h) = {}
      BY <1>1, UnusedRequest DEF KnowsIssued, Customer!LockedTokens
    <2> QED
      BY <1>1, <1>4, <2>1, <2>2 DEF IssuedInv, IssuedAlone
  <1> QED
    BY <1>2, <1>3, <1>6, <1>7 DEF CustomerInv

LEMMA CustomerInvStays ==
  ASSUME CustomerInv, [Customer!AccessNext]_customerVars
  PROVE  CustomerInv'
  BY ServedStays, HeldAloneStays, CustomerStays, CodesStay, IssuedStays DEF CustomerInv

LEMMA CustomerWorksOnce ==
  ASSUME CustomerInv
  PROVE  Customer!CustomerCodesWorkOnce /\ Customer!AccessFollowsPassword
  <1>0. ASSUME NEW S
        PROVE  Customer!Cardinality(S) = Cardinality(S)
    BY DEF Customer!Cardinality, Cardinality
  <1>1. /\ GoodCodes(codes, customer.password) /\ DOMAIN codes = 1 .. Len(codes)
        /\ GoodTokens(issued, Len(opened)) /\ DOMAIN issued = 1 .. Len(issued)
        /\ DOMAIN opened = 1 .. Len(opened) /\ Served /\ customer \in CustomerRows
        /\ OfPassword(opened, customer.password)
    BY CodesLen, TokenLen, LenProperties DEF CustomerInv, CodeInv, IssuedInv
  <1>2. Customer!TypeOK
    <2>1. ASSUME NEW c \in DOMAIN codes
          PROVE  /\ codes[c].purpose \in Customer!Purposes
                 /\ codes[c].state \in {"open", "consumed", "invalidated"}
                 /\ codes[c].attempts \in 0 .. MaxAttempts
      BY <1>1, Limits DEF GoodCodes, GoodCode, CodeRows
    <2>2. \A t \in DOMAIN issued : issued[t].session \in DOMAIN opened
      BY <1>1 DEF GoodTokens, GoodToken
    <2>3. \A h \in Requests : serving[h].op \in Customer!AccessOperations \cup {"none"}
      BY <1>1 DEF Served, IsServed
    <2> QED
      BY <1>1, <2>1, <2>2, <2>3 DEF Customer!TypeOK, CustomerRows
  <1>3. ASSUME NEW s \in DOMAIN opened
        PROVE  Cardinality(Customer!LiveTokensOf({s})) <= 1
    <2>1. \A t, u \in Customer!LiveTokensOf({s}) : t = u
      BY <1>1 DEF Customer!LiveTokensOf, GoodTokens, OneLive, IsLive
    <2> DEFINE T == Customer!LiveTokensOf({s})
    <2> HIDE DEF T
    <2>2. CASE T = {}
      BY <2>2, FS_EmptySet DEF T
    <2>3. ASSUME NEW t \in T
          PROVE  Cardinality(T) = 1
      <3>1. T = {t}
        BY <2>1, <2>3 DEF T
      <3> QED
        BY <3>1, FS_Singleton
    <2> QED
      BY <2>2, <2>3 DEF T
  <1>4. /\ \A c, d \in DOMAIN codes :
             (codes[c].state = "open" /\ codes[d].state = "open"
                /\ codes[c].purpose = codes[d].purpose) => c = d
        /\ \A c \in DOMAIN codes : codes[c].won <= 1 /\ codes[c].guesses <= MaxAttempts
        /\ \A t \in DOMAIN issued : issued[t].rotations <= 1
    BY <1>1 DEF GoodCodes, OneOpen, GoodCode, GoodTokens, GoodToken
  <1>5. Customer!AccessFollowsPassword
    BY <1>1 DEF Customer!AccessFollowsPassword, Customer!LiveSessions, OfPassword, GoodCodes,
       GoodCode
  <1> QED
    BY <1>0, <1>2, <1>3, <1>4, <1>5 DEF Customer!CustomerCodesWorkOnce

-----------------------------------------------------------------------------
(* The sign-up of customers. *)

SigningRows(r) ==
  [op : {"none", "START", "VERIFY", "RESEND"}, step : {"idle", "begun", "locked"},
   arg : {r.arg}, password : {r.password}, read : {r.read}]

SignupRows == [state : {"open", "consumed", "invalidated"}, attempts : Nat,
               hash : Passwords \cup {Signup!Gone}, chosen : Passwords, guesses : Nat]

\* A code that is good still takes guesses, and only it keeps its password.
GoodSignup(c) ==
  /\ c \in SignupRows
  /\ c.attempts <= MaxAttempts /\ c.guesses = c.attempts
  /\ c.state = "open" => c.attempts < MaxAttempts
  /\ c.hash = IF c.state = "open" THEN c.chosen ELSE Signup!Gone

GoodSignups(list) ==
  /\ list \in Seq(SignupRows)
  /\ \A c \in 1 .. Len(list) : GoodSignup(list[c])
  /\ \A c, d \in 1 .. Len(list) : list[c].state = "open" /\ list[d].state = "open" => c = d

\* The account came of a code that was consumed, with its password.
CameOf(a, list) ==
  \/ a = Signup!NoAccount
  \/ /\ a \in [password : Passwords, wallets : {1}, signup : 1 .. Len(list)]
     /\ list[a.signup].state = "consumed" /\ a.password = list[a.signup].chosen

\* Who holds the identity has read the challenge as it is.
KnowsSignup(h) ==
  LET r == signing[h] IN
  /\ r \in SigningRows(r)
  /\ r.op = "START" => r.password \in Passwords
  /\ r.op \in {"VERIFY", "RESEND"} => r.arg \in 1 .. Len(signups)
  /\ r.op \in {"VERIFY", "RESEND"} /\ r.step = "locked" => r.read = signups[r.arg]

SignupInv ==
  /\ GoodSignups(signups) /\ CameOf(account, signups)
  /\ DOMAIN signing = Requests
  /\ \A h \in Requests : KnowsSignup(h)
  /\ \A g, h \in Requests : signing[g].step = "locked" /\ signing[h].step = "locked" => g = h

LEMMA SignupLen ==
  ASSUME NEW list, GoodSignups(list)
  PROVE  Len(list) \in Nat /\ DOMAIN list = 1 .. Len(list)
  BY LenProperties DEF GoodSignups

TriedSignup(c) == [c EXCEPT !.attempts = c.attempts + 1, !.guesses = c.guesses + 1]
ConsumedSignup(c) == [c EXCEPT !.state = "consumed", !.hash = Signup!Gone]
FailedSignup(c) ==
  IF c.attempts + 1 >= MaxAttempts THEN Signup!Invalid(TriedSignup(c)) ELSE TriedSignup(c)

LEMMA InvalidSignup ==
  ASSUME NEW c \in SignupRows, c.attempts <= MaxAttempts, c.guesses = c.attempts
  PROVE  /\ GoodSignup(Signup!Invalid(c)) /\ Signup!Invalid(c).state = "invalidated"
         /\ Signup!Invalid(c).chosen = c.chosen
  BY DEF Signup!Invalid, GoodSignup, SignupRows

LEMMA SignupConsumed ==
  ASSUME NEW c, GoodSignup(c)
  PROVE  /\ GoodSignup(ConsumedSignup(c)) /\ ConsumedSignup(c).state = "consumed"
         /\ ConsumedSignup(c).chosen = c.chosen
  BY DEF ConsumedSignup, GoodSignup, SignupRows

LEMMA SignupFailed ==
  ASSUME NEW c, GoodSignup(c), c.state = "open"
  PROVE  GoodSignup(FailedSignup(c))
  <1> DEFINE q == TriedSignup(c)
             n == c.attempts + 1
             m == c.guesses + 1
  <1>1. /\ c \in SignupRows /\ n \in Nat /\ n <= MaxAttempts /\ m = n
        /\ c.hash = c.chosen
    BY Limits DEF GoodSignup, SignupRows
  <1>2. q = [c EXCEPT !.attempts = n, !.guesses = m]
    BY DEF TriedSignup
  <1>3. FailedSignup(c) = IF n >= MaxAttempts THEN Signup!Invalid(q) ELSE q
    BY DEF FailedSignup
  <1> HIDE DEF q, n, m
  <1>4. /\ q.attempts = n /\ q.guesses = m /\ q.state = "open" /\ q.hash = c.hash
        /\ q.chosen = c.chosen /\ q \in SignupRows
    BY <1>1, <1>2 DEF SignupRows
  <1>5. CASE n >= MaxAttempts
    BY <1>1, <1>3, <1>4, <1>5, InvalidSignup
  <1>6. CASE ~(n >= MaxAttempts)
    <2>1. n < MaxAttempts
      BY <1>1, <1>6, Limits
    <2> QED
      BY <1>1, <1>3, <1>4, <1>6, <2>1 DEF GoodSignup
  <1> QED
    BY <1>5, <1>6

\* The challenge of a request that holds the identity changes.
LEMMA SignupChanged ==
  ASSUME NEW list, GoodSignups(list), NEW c \in 1 .. Len(list), list[c].state = "open",
         NEW q, GoodSignup(q), NEW a, CameOf(a, list)
  PROVE  /\ GoodSignups(Put(list, c, q)) /\ Len(Put(list, c, q)) = Len(list)
         /\ Put(list, c, q)[c] = q /\ CameOf(a, Put(list, c, q))
  <1> DEFINE new == Put(list, c, q)
  <1>1. /\ new \in Seq(SignupRows) /\ Len(new) = Len(list)
        /\ \A d \in 1 .. Len(list) : new[d] = IF d = c THEN q ELSE list[d]
    BY ExceptSeq DEF GoodSignups, GoodSignup, Put
  <1> HIDE DEF new
  <1>2. GoodSignups(new)
    BY <1>1 DEF GoodSignups
  <1>3. CameOf(a, new)
    BY <1>1 DEF CameOf
  <1> QED
    BY <1>1, <1>2, <1>3 DEF new

\* A newer code replaces the one that is good.
LEMMA ReplacedGood ==
  ASSUME NEW list, GoodSignups(list), NEW p \in Passwords, NEW a, CameOf(a, list)
  PROVE  LET new == Signup!Replaced(list, p, p)
         IN  GoodSignups(new) /\ Len(new) = Len(list) + 1 /\ CameOf(a, new)
  <1> DEFINE N == Len(list)
             old == [c \in DOMAIN list |->
                       IF Signup!Open(list[c]) THEN Signup!Invalid(list[c]) ELSE list[c]]
             e == [state |-> "open", attempts |-> 0, hash |-> p, chosen |-> p, guesses |-> 0]
             new == Signup!Replaced(list, p, p)
  <1>1. N \in Nat /\ DOMAIN list = 1 .. N /\ \A c \in 1 .. N : GoodSignup(list[c])
    BY SignupLen DEF GoodSignups
  <1>2. ASSUME NEW c \in 1 .. N
        PROVE  /\ GoodSignup(old[c]) /\ old[c].state # "open" /\ old[c].chosen = list[c].chosen
               /\ list[c].state = "consumed" => old[c].state = "consumed"
    <2>1. GoodSignup(list[c])
      BY <1>1
    <2>2. CASE list[c].state = "open"
      <3>1. old[c] = Signup!Invalid(list[c])
        BY <1>1, <2>2 DEF Signup!Open
      <3> HIDE DEF old
      <3> QED
        BY <2>1, <2>2, <3>1, InvalidSignup DEF GoodSignup
    <2>3. CASE list[c].state # "open"
      <3>1. old[c] = list[c]
        BY <1>1, <2>3 DEF Signup!Open
      <3> HIDE DEF old
      <3> QED
        BY <2>1, <2>3, <3>1
    <2> QED
      BY <2>2, <2>3
  <1>3. old \in Seq(SignupRows) /\ Len(old) = N
    <2>1. DOMAIN old = 1 .. N /\ \A c \in 1 .. N : old[c] \in SignupRows
      BY <1>1, <1>2 DEF GoodSignup
    <2>2. old \in [1 .. N -> SignupRows]
      BY <2>1
    <2> HIDE DEF old
    <2>3. old \in Seq(SignupRows)
      BY <1>1, <2>2, SeqDef
    <2> QED
      BY <1>1, <2>1, <2>3, LenProperties
  <1>4. e \in SignupRows /\ GoodSignup(e)
    BY Limits DEF SignupRows, GoodSignup
  <1>5. new = Append(old, e)
    BY DEF Signup!Replaced
  <1> HIDE DEF old, e, new
  <1>6. /\ new \in Seq(SignupRows) /\ Len(new) = N + 1 /\ new[N + 1] = e
        /\ \A c \in 1 .. N : new[c] = old[c]
    BY <1>3, <1>4, <1>5, AppendProperties
  <1> HIDE DEF N
  <1>7. \A c \in 1 .. N + 1 : c = N + 1 \/ c \in 1 .. N
    BY <1>1
  <1>8. GoodSignups(new)
    BY <1>2, <1>4, <1>6, <1>7 DEF GoodSignups
  <1>9. CameOf(a, new)
    <2>1. CASE a = Signup!NoAccount
      BY <2>1 DEF CameOf
    <2>2. CASE a # Signup!NoAccount
      <3>1. /\ a \in [password : Passwords, wallets : {1}, signup : 1 .. N]
            /\ list[a.signup].state = "consumed" /\ a.password = list[a.signup].chosen
        BY <2>2 DEF CameOf, N
      <3>2. a \in [password : Passwords, wallets : {1}, signup : 1 .. N + 1]
        BY <1>1, <3>1
      <3>3. a.signup \in 1 .. N
        BY <3>1
      <3>4. new[a.signup].state = "consumed" /\ a.password = new[a.signup].chosen
        BY <1>2, <1>6, <3>1, <3>3
      <3> QED
        BY <1>6, <3>2, <3>4 DEF CameOf
    <2> QED
      BY <2>1, <2>2
  <1> QED
    BY <1>6, <1>8, <1>9 DEF N, new

SignupBegins(h) ==
  \/ \E p \in Passwords : Signup!BeginSignup(h, "START", 0, p)
  \/ \E op \in {"VERIFY", "RESEND"} : \E c \in DOMAIN signups :
       Signup!BeginSignup(h, op, c, Signup!Gone)
SignupActs(h) ==
  Signup!Start(h) \/ Signup!ResendSignup(h) \/ Signup!WrongSignupCode(h)
    \/ Signup!VerifySignup(h) \/ Signup!SignupEnds(h)

LEMMA WaitingRequest ==
  /\ Signup!Waiting \in SigningRows(Signup!Waiting)
  /\ Signup!Waiting.op = "none" /\ Signup!Waiting.step = "idle"
  BY DEF Signup!Waiting, SigningRows

HasSigned(r, rd) == [r EXCEPT !.step = "locked", !.read = rd]

LEMMA HasSignedRow ==
  ASSUME NEW r, r \in SigningRows(r), NEW rd
  PROVE  LET q == HasSigned(r, rd)
         IN  /\ q \in SigningRows(q) /\ Keeps(r, q) /\ q.password = r.password
             /\ q.step = "locked" /\ q.read = rd
  <1> DEFINE q == HasSigned(r, rd)
  <1>1. /\ q.step = "locked" /\ q.read = rd /\ q.op = r.op /\ q.arg = r.arg
        /\ q.password = r.password
    BY DEF HasSigned, SigningRows
  <1>2. q \in SigningRows(q)
    BY <1>1 DEF HasSigned, SigningRows
  <1> QED
    BY <1>1, <1>2 DEF Keeps

LEMMA SignupBegun ==
  ASSUME SignupInv, NEW h \in Requests, SignupBegins(h)
  PROVE  SignupInv'
  <1>1. Len(signups) \in Nat /\ DOMAIN signups = 1 .. Len(signups)
    BY SignupLen DEF SignupInv
  <1>2. PICK op, c, p : /\ op \in {"START", "VERIFY", "RESEND"}
                        /\ Signup!BeginSignup(h, op, c, p)
                        /\ op = "START" => p \in Passwords
    BY DEF SignupBegins
  <1> DEFINE q == [Signup!Waiting EXCEPT !.op = op, !.step = "begun", !.arg = c, !.password = p]
  <1>3. q.op = op /\ q.step = "begun" /\ q.arg = c /\ q.password = p
    BY DEF Signup!Waiting
  <1>4. q \in SigningRows(q)
    BY <1>2, <1>3 DEF Signup!Waiting, SigningRows
  <1>5. /\ signing' = [signing EXCEPT ![h] = q] /\ UNCHANGED <<signups, account>>
        /\ op # "START" => c \in 1 .. Len(signups)
    BY <1>1, <1>2 DEF Signup!BeginSignup
  <1> HIDE DEF q
  <1>6. /\ DOMAIN signing' = Requests /\ signing'[h] = q
        /\ \A g \in Requests \ {h} : signing'[g] = signing[g]
    BY <1>5 DEF SignupInv
  <1>7. KnowsSignup(h)'
    BY <1>2, <1>3, <1>4, <1>5, <1>6 DEF KnowsSignup
  <1>8. \A g \in Requests \ {h} : KnowsSignup(g)'
    BY <1>5, <1>6 DEF SignupInv, KnowsSignup
  <1> QED
    BY <1>3, <1>5, <1>6, <1>7, <1>8 DEF SignupInv

LEMMA SignupLocked ==
  ASSUME SignupInv, NEW h \in Requests, Signup!LockIdentity(h)
  PROVE  SignupInv'
  <1> DEFINE r == signing[h]
             rd == Signup!Challenge(h)
             q == HasSigned(r, rd)
  <1>1. r \in SigningRows(r) /\ DOMAIN signing = Requests
    BY DEF SignupInv, KnowsSignup
  <1>2. /\ signing' = [signing EXCEPT ![h] = q] /\ UNCHANGED <<signups, account>>
        /\ \A g \in Requests : signing[g].step # "locked"
    BY <1>1 DEF Signup!LockIdentity, HasSigned
  <1>3. r.op \in {"VERIFY", "RESEND"} => rd = signups[r.arg]
    BY DEF Signup!Challenge
  <1> HIDE DEF rd
  <1>4. /\ q \in SigningRows(q) /\ q.op = r.op /\ q.arg = r.arg /\ q.password = r.password
        /\ q.step = "locked" /\ q.read = rd
    BY <1>1, HasSignedRow DEF Keeps
  <1> HIDE DEF q
  <1>5. /\ DOMAIN signing' = Requests /\ signing'[h] = q
        /\ \A g \in Requests \ {h} : signing'[g] = signing[g]
    BY <1>1, <1>2
  <1>6. KnowsSignup(h)'
    BY <1>2, <1>3, <1>4, <1>5 DEF SignupInv, KnowsSignup
  <1>7. \A g \in Requests \ {h} : KnowsSignup(g)'
    BY <1>2, <1>5 DEF SignupInv, KnowsSignup
  <1> QED
    BY <1>2, <1>5, <1>6, <1>7 DEF SignupInv

LEMMA SignupActed ==
  ASSUME SignupInv, NEW h \in Requests, SignupActs(h)
  PROVE  SignupInv'
  <1> DEFINE r == signing[h]
             c == signing[h].arg
             ch == signups[c]
  <1>1. /\ GoodSignups(signups) /\ CameOf(account, signups) /\ DOMAIN signing = Requests
        /\ Len(signups) \in Nat /\ DOMAIN signups = 1 .. Len(signups)
    BY SignupLen DEF SignupInv
  <1>2. /\ signing' = [signing EXCEPT ![h] = Signup!Waiting]
        /\ r.step # "locked" => UNCHANGED <<signups, account>>
    BY DEF SignupActs, Signup!Start, Signup!ResendSignup, Signup!WrongSignupCode,
       Signup!VerifySignup, Signup!SignupEnds
  <1>3. ASSUME GoodSignups(signups'), CameOf(account', signups'), Len(signups') >= Len(signups),
               r.step = "locked" \/ signups' = signups
        PROVE  SignupInv'
    <2>1. Len(signups') \in Nat
      BY <1>3, SignupLen
    <2>2. /\ DOMAIN signing' = Requests /\ signing'[h] = Signup!Waiting
          /\ \A g \in Requests \ {h} : signing'[g] = signing[g]
      BY <1>1, <1>2
    <2>3. KnowsSignup(h)'
      BY <2>2, WaitingRequest DEF KnowsSignup
    <2>4. ASSUME NEW g \in Requests \ {h}
          PROVE  KnowsSignup(g)'
      <3>1. signing[g].step = "locked" => signups' = signups
        BY <1>3 DEF SignupInv
      <3>2. \A a \in 1 .. Len(signups) : a \in 1 .. Len(signups')
        BY <1>1, <1>3, <2>1
      <3> QED
        BY <2>2, <3>1, <3>2 DEF SignupInv, KnowsSignup
    <2> QED
      BY <1>3, <2>2, <2>3, <2>4, WaitingRequest DEF SignupInv
  <1>4. ASSUME r.op \in {"VERIFY", "RESEND"}, r.step = "locked"
        PROVE  c \in 1 .. Len(signups) /\ r.read = ch /\ GoodSignup(ch) /\ ch \in SignupRows
    BY <1>1, <1>4 DEF SignupInv, KnowsSignup, GoodSignups, GoodSignup
  <1>5. CASE Signup!SignupEnds(h)
    BY <1>1, <1>3, <1>5 DEF Signup!SignupEnds
  <1>6. CASE Signup!Start(h)
    <2> DEFINE p == r.password
    <2>1. /\ r.op = "START" /\ r.step = "locked" /\ account' = account
          /\ signups' = Signup!Replaced(signups, p, p)
      BY <1>6 DEF Signup!Start
    <2>2. p \in Passwords
      BY <2>1 DEF SignupInv, KnowsSignup
    <2> HIDE DEF p
    <2>3. GoodSignups(signups') /\ Len(signups') = Len(signups) + 1 /\ CameOf(account, signups')
      BY <1>1, <2>1, <2>2, ReplacedGood
    <2> QED
      BY <1>1, <1>3, <2>1, <2>3
  <1>7. CASE Signup!ResendSignup(h)
    <2>1. r.op = "RESEND" /\ r.step = "locked" /\ r.read.state = "open" /\ account' = account
      BY <1>7 DEF Signup!ResendSignup, Signup!Open
    <2>2. /\ c \in 1 .. Len(signups) /\ r.read = ch /\ GoodSignup(ch) /\ ch \in SignupRows
          /\ ch.state = "open" /\ ch.hash = ch.chosen /\ ch.chosen \in Passwords
      BY <1>4, <2>1 DEF GoodSignup, SignupRows
    <2> DEFINE q == Signup!Invalid(ch)
               list == Put(signups, c, q)
               p == ch.chosen
    <2>3. signups' = Signup!Replaced(list, p, p)
      BY <1>1, <1>7, <2>2 DEF Signup!ResendSignup, Put
    <2>4. GoodSignup(q)
      BY <2>2, InvalidSignup DEF GoodSignup
    <2> HIDE DEF q, p
    <2>5. GoodSignups(list) /\ Len(list) = Len(signups) /\ CameOf(account, list)
      BY <1>1, <2>2, <2>4, SignupChanged
    <2> HIDE DEF list
    <2>6. GoodSignups(signups') /\ Len(signups') = Len(list) + 1 /\ CameOf(account, signups')
      BY <2>2, <2>3, <2>5, ReplacedGood DEF p
    <2> QED
      BY <1>1, <1>3, <2>1, <2>5, <2>6
  <1>8. CASE Signup!WrongSignupCode(h)
    <2>1. r.op = "VERIFY" /\ r.step = "locked" /\ r.read.state = "open" /\ account' = account
      BY <1>8 DEF Signup!WrongSignupCode, Signup!Open
    <2>2. c \in 1 .. Len(signups) /\ r.read = ch /\ GoodSignup(ch) /\ ch.state = "open"
      BY <1>4, <2>1
    <2> DEFINE q == FailedSignup(ch)
    <2>3. signups' = Put(signups, c, q)
      <3> DEFINE n == r.read.attempts + 1
                 t == [ch EXCEPT !.attempts = n, !.guesses = @ + 1]
                 new == IF n >= MaxAttempts THEN Signup!Invalid(t) ELSE t
      <3>1. signups' = [signups EXCEPT ![c] = new]
        BY <1>8, Zenon DEF Signup!WrongSignupCode
      <3>2. t = TriedSignup(ch) /\ n = ch.attempts + 1
        BY <1>4, <2>1 DEF TriedSignup, SignupRows
      <3> HIDE DEF t, n
      <3>3. new = q
        BY <3>2 DEF FailedSignup
      <3> HIDE DEF new, q
      <3> QED
        BY <3>1, <3>3 DEF Put
    <2>4. GoodSignup(q)
      BY <2>2, SignupFailed
    <2> HIDE DEF q
    <2>5. GoodSignups(signups') /\ Len(signups') = Len(signups) /\ CameOf(account, signups')
      BY <1>1, <2>2, <2>3, <2>4, SignupChanged
    <2> QED
      BY <1>1, <1>3, <2>1, <2>5
  <1>9. CASE Signup!VerifySignup(h)
    <2>1. r.op = "VERIFY" /\ r.step = "locked" /\ r.read.state = "open"
      BY <1>9 DEF Signup!VerifySignup, Signup!Open
    <2>2. /\ c \in 1 .. Len(signups) /\ r.read = ch /\ GoodSignup(ch) /\ ch.state = "open"
          /\ ch.hash = ch.chosen /\ ch.chosen \in Passwords
      BY <1>4, <2>1 DEF GoodSignup, SignupRows
    <2> DEFINE q == ConsumedSignup(ch)
               a == [password |-> ch.hash, wallets |-> 1, signup |-> c]
    <2>3. /\ signups' = Put(signups, c, q)
          /\ account' = IF account = Signup!NoAccount THEN a ELSE account
      BY <1>1, <1>9, <2>2 DEF Signup!VerifySignup, Put, ConsumedSignup
    <2>4. GoodSignup(q) /\ q.state = "consumed" /\ q.chosen = ch.chosen
      BY <2>2, SignupConsumed
    <2> HIDE DEF q
    <2>5. /\ GoodSignups(signups') /\ Len(signups') = Len(signups) /\ CameOf(account, signups')
          /\ signups'[c] = q
      BY <1>1, <2>2, <2>3, <2>4, SignupChanged
    <2>6. CameOf(a, signups')
      BY <2>2, <2>4, <2>5 DEF CameOf
    <2> QED
      BY <1>1, <1>3, <2>1, <2>3, <2>5, <2>6
  <1> QED
    BY <1>5, <1>6, <1>7, <1>8, <1>9 DEF SignupActs

LEMMA SignupInvStays ==
  ASSUME SignupInv, [Signup!SignupNext]_signupVars
  PROVE  SignupInv'
  <1>1. CASE UNCHANGED signupVars
    BY <1>1 DEF signupVars, SignupInv, KnowsSignup
  <1>2. Signup!SignupNext => \E h \in Requests :
           SignupBegins(h) \/ Signup!LockIdentity(h) \/ SignupActs(h)
    BY DEF Signup!SignupNext, SignupBegins, SignupActs
  <1> QED
    BY <1>1, <1>2, SignupBegun, SignupLocked, SignupActed

LEMMA SignupInit ==
  ASSUME Signup!SignupInit
  PROVE  SignupInv
  <1>1. /\ DOMAIN signing = Requests /\ \A h \in Requests : signing[h] = Signup!Waiting
        /\ signups = <<>> /\ account = Signup!NoAccount
    BY DEF Signup!SignupInit
  <1>2. <<>> \in Seq(SignupRows) /\ Len(<<>>) = 0
    BY EmptySeq
  <1>3. \A i \in 1 .. 0 : FALSE
    OBVIOUS
  <1> QED
    BY <1>1, <1>2, <1>3, WaitingRequest DEF SignupInv, GoodSignups, CameOf, KnowsSignup

LEMMA SignupAsAsked ==
  ASSUME SignupInv
  PROVE  Signup!SignedUpAsAsked
  <1>1. /\ GoodSignups(signups) /\ CameOf(account, signups) /\ DOMAIN signups = 1 .. Len(signups)
    BY SignupLen DEF SignupInv
  <1>2. ASSUME NEW c \in DOMAIN signups
        PROVE  /\ signups[c].state \in {"open", "consumed", "invalidated"}
               /\ signups[c].attempts \in 0 .. MaxAttempts
               /\ signups[c].chosen \in Passwords /\ signups[c].guesses <= MaxAttempts
               /\ signups[c].hash = IF signups[c].state = "open" THEN signups[c].chosen
                                    ELSE Signup!Gone
    BY <1>1, Limits DEF GoodSignups, GoodSignup, SignupRows
  <1>3. account # Signup!NoAccount =>
          /\ account.wallets = 1 /\ signups[account.signup].state = "consumed"
          /\ account.password = signups[account.signup].chosen
    BY <1>1 DEF CameOf
  <1>4. Signup!TypeOK
    <2>1. \A h \in Requests : signing[h].step \in {"idle", "begun", "locked"}
      BY DEF SignupInv, KnowsSignup, SigningRows
    <2> QED
      BY <1>1, <1>2, <2>1 DEF Signup!TypeOK, CameOf
  <1>5. \A c, d \in DOMAIN signups :
          Signup!Open(signups[c]) /\ Signup!Open(signups[d]) => c = d
    BY <1>1 DEF GoodSignups, Signup!Open
  <1> QED
    BY <1>2, <1>3, <1>4, <1>5 DEF Signup!SignedUpAsAsked, Signup!Open

-----------------------------------------------------------------------------
(* The rate limit.  Its sums are those of Charging_proofs, shown in the    *)
(* same way: a function that counts marks satisfies the fold's equation,   *)
(* and a smallest set on which another could differ does not exist.        *)

\* The sum of a over S counts, for each x, the marks <<x, 1>> .. <<x, a[x]>>.
MarksOf(a, x) == {x} \X (1 .. a[x])
Marks(a, S)   == UNION {MarksOf(a, x) : x \in S}
Total(a, S)      == Cardinality(Marks(a, S))

LEMMA SmallestSet ==
  ASSUME NEW S, IsFiniteSet(S), NEW B \in SUBSET SUBSET S, B # {}
  PROVE  \E m \in B : \A t \in B : t \subseteq m => t = m
  <1>1. IsWellFoundedOn(StrictSubsetOrdering(S), SUBSET S)
    BY FS_StrictSubsetOrderingWellFounded, FS_FiniteSubsetsOfFinite
  <1>2. PICK m \in B : \A t \in B : ~ (<<t, m>> \in StrictSubsetOrdering(S))
    <2>1. B \subseteq SUBSET S
      OBVIOUS
    <2> QED
      BY <1>1, <2>1, WFMin
  <1> QED
    BY <1>2 DEF StrictSubsetOrdering

LEMMA MarksOfOne ==
  ASSUME NEW a, NEW x, a[x] \in Nat
  PROVE  IsFiniteSet(MarksOf(a, x)) /\ Cardinality(MarksOf(a, x)) = a[x]
  <1> DEFINE one == {x}
             nums == 1 .. a[x]
  <1>1. IsFiniteSet(one) /\ Cardinality(one) = 1
    BY FS_Singleton
  <1>2. IsFiniteSet(nums) /\ Cardinality(nums) = a[x]
    BY FS_Interval
  <1>3. /\ IsFiniteSet(one \X nums)
        /\ Cardinality(one \X nums) = Cardinality(one) * Cardinality(nums)
    <2> HIDE DEF one, nums
    <2> QED
      BY <1>1, <1>2, FS_Product
  <1> HIDE DEF one, nums
  <1>4. Cardinality(one \X nums) = a[x]
    BY <1>1, <1>2, <1>3
  <1> QED
    BY <1>3, <1>4 DEF MarksOf, one, nums

LEMMA MarksFinite ==
  ASSUME NEW a, NEW S, IsFiniteSet(S), \A x \in S : a[x] \in Nat
  PROVE  IsFiniteSet(Marks(a, S))
  <1> DEFINE parts == {MarksOf(a, x) : x \in S}
             f == [x \in S |-> MarksOf(a, x)]
  <1>1. f \in Surjection(S, parts)
    BY DEF Surjection
  <1>2. IsFiniteSet(parts)
    BY <1>1, FS_Surjection
  <1>3. \A p \in parts : IsFiniteSet(p)
    BY MarksOfOne
  <1> QED
    BY <1>2, <1>3, FS_UNION DEF Marks

LEMMA TotalType ==
  ASSUME NEW a, NEW S, IsFiniteSet(S), \A x \in S : a[x] \in Nat
  PROVE  Total(a, S) \in Nat
  BY MarksFinite, FS_CardinalityType DEF Total

LEMMA TotalEmpty ==
  ASSUME NEW a
  PROVE  Total(a, {}) = 0
  <1>1. Marks(a, {}) = {}
    BY DEF Marks
  <1> QED
    BY <1>1, FS_EmptySet DEF Total

LEMMA TotalTakeOut ==
  ASSUME NEW a, NEW S, IsFiniteSet(S), \A y \in S : a[y] \in Nat, NEW x \in S
  PROVE  Total(a, S) = a[x] + Total(a, S \ {x})
  <1> DEFINE rest == Marks(a, S \ {x})
             mine == MarksOf(a, x)
  <1>1. IsFiniteSet(mine) /\ Cardinality(mine) = a[x]
    BY MarksOfOne
  <1>2. IsFiniteSet(S \ {x})
    BY FS_RemoveElement
  <1>3. IsFiniteSet(rest) /\ Cardinality(rest) \in Nat
    BY <1>2, MarksFinite, FS_CardinalityType
  <1>4. Marks(a, S) = mine \cup rest
    BY DEF Marks
  <1>5. mine \cap rest = {}
    BY DEF Marks, MarksOf
  <1> HIDE DEF rest, mine
  <1>6. Cardinality(mine \cup rest) =
          Cardinality(mine) + Cardinality(rest) - Cardinality(mine \cap rest)
    BY <1>1, <1>3, FS_Union
  <1>7. Cardinality(mine \cap rest) = 0
    BY <1>5, FS_EmptySet
  <1> QED
    BY <1>1, <1>3, <1>4, <1>6, <1>7 DEF Total, rest

LEMMA TotalMonotonic ==
  ASSUME NEW a, NEW S, IsFiniteSet(S), \A x \in S : a[x] \in Nat,
         NEW T \in SUBSET S
  PROVE  Total(a, T) <= Total(a, S)
  <1>1. Marks(a, T) \in SUBSET Marks(a, S)
    BY DEF Marks
  <1> QED
    BY <1>1, MarksFinite, FS_Subset DEF Total

LEMMA TotalAgrees ==
  ASSUME NEW a, NEW b, NEW S, \A x \in S : a[x] = b[x]
  PROVE  Total(a, S) = Total(b, S)
  <1>1. \A x \in S : MarksOf(a, x) = MarksOf(b, x)
    BY DEF MarksOf
  <1>2. Marks(a, S) = Marks(b, S)
    BY <1>1 DEF Marks
  <1> QED
    BY <1>2 DEF Total

\* The fold of FoldFunctionOnSet, taken as the function it chooses
Chosen(s) == CHOOSE x \in s : TRUE
FoldsTo(S, a, g) ==
  g = [s \in SUBSET S |-> IF s = {} THEN 0 ELSE a[Chosen(s)] + g[s \ {Chosen(s)}]]

LEMMA TotalFolds ==
  ASSUME NEW a, NEW S, IsFiniteSet(S), \A x \in S : a[x] \in Nat
  PROVE  FoldsTo(S, a, [s \in SUBSET S |-> Total(a, s)])
  <1> DEFINE g == [s \in SUBSET S |-> Total(a, s)]
  <1> SUFFICES ASSUME NEW s \in SUBSET S
               PROVE  g[s] = IF s = {} THEN 0 ELSE a[Chosen(s)] + g[s \ {Chosen(s)}]
    BY DEF FoldsTo
  <1>1. CASE s = {}
    BY <1>1, TotalEmpty
  <1>2. CASE s # {}
    <2>1. Chosen(s) \in s
      BY <1>2, Zenon DEF Chosen
    <2>2. IsFiniteSet(s) /\ \A x \in s : a[x] \in Nat
      BY FS_Subset
    <2>3. Total(a, s) = a[Chosen(s)] + Total(a, s \ {Chosen(s)})
      BY <2>1, <2>2, TotalTakeOut
    <2> QED
      BY <1>2, <2>3
  <1> QED
    BY <1>1, <1>2

LEMMA FoldsOnce ==
  ASSUME NEW a, NEW S, IsFiniteSet(S), NEW g, FoldsTo(S, a, g),
         NEW h, FoldsTo(S, a, h)
  PROVE  g = h
  <1> DEFINE B == {s \in SUBSET S : g[s] # h[s]}
  <1>1. CASE B = {}
    BY <1>1 DEF FoldsTo
  <1>2. CASE B # {}
    <2>1. PICK m \in B : \A t \in B : t \subseteq m => t = m
      <3>1. B \in SUBSET SUBSET S
        OBVIOUS
      <3> HIDE DEF B
      <3> QED
        BY <1>2, <3>1, SmallestSet
    <2>2. m # {}
      BY <2>1 DEF FoldsTo
    <2>3. Chosen(m) \in m
      BY <2>2, Zenon DEF Chosen
    <2>4. g[m \ {Chosen(m)}] = h[m \ {Chosen(m)}]
      BY <2>1, <2>3
    <2> QED
      BY <2>1, <2>2, <2>4 DEF FoldsTo
  <1> QED
    BY <1>1, <1>2

\* What PassedWithin sums up
LEMMA FoldIsTotal ==
  ASSUME NEW a, NEW S, IsFiniteSet(S), \A x \in S : a[x] \in Nat
  PROVE  Rate!FoldFunctionOnSet(+, 0, a, S) = Total(a, S)
  <1> DEFINE h == [s \in SUBSET S |-> Total(a, s)]
             g == CHOOSE g : FoldsTo(S, a, g)
  <1>1. FoldsTo(S, a, h)
    BY TotalFolds
  <1>2. FoldsTo(S, a, g)
    BY <1>1, Zenon
  <1>3. Rate!FoldFunctionOnSet(+, 0, a, S) = g[S]
    BY Zenon DEF Rate!FoldFunctionOnSet, Rate!MapThenFoldSet, FoldsTo, Chosen
  <1>4. g = h
    <2> HIDE DEF g, h
    <2> QED
      BY <1>1, <1>2, FoldsOnce
  <1> QED
    BY <1>3, <1>4

LEMMA TotalSplit ==
  ASSUME NEW a, NEW S, NEW T, IsFiniteSet(S), IsFiniteSet(T), S \cap T = {},
         \A x \in S \cup T : a[x] \in Nat
  PROVE  Total(a, S \cup T) = Total(a, S) + Total(a, T)
  <1> DEFINE p == Marks(a, S)
             q == Marks(a, T)
  <1>1. IsFiniteSet(p) /\ IsFiniteSet(q)
    BY MarksFinite
  <1>2. Marks(a, S \cup T) = p \cup q
    BY DEF Marks
  <1>3. p \cap q = {}
    BY DEF Marks, MarksOf
  <1> HIDE DEF p, q
  <1>4. /\ Cardinality(p \cup q) = Cardinality(p) + Cardinality(q) - Cardinality(p \cap q)
        /\ Cardinality(p) \in Nat /\ Cardinality(q) \in Nat
    BY <1>1, FS_Union, FS_CardinalityType
  <1>5. Cardinality(p \cap q) = 0
    BY <1>3, FS_EmptySet
  <1>6. Cardinality(p \cup q) = Cardinality(p) + Cardinality(q)
    BY <1>4, <1>5
  <1> QED
    BY <1>2, <1>6, Zenon DEF Total, p, q

LEMMA TotalNothing ==
  ASSUME NEW a, NEW S, \A x \in S : a[x] = 0
  PROVE  Total(a, S) = 0
  <1>1. Marks(a, S) = {}
    BY DEF Marks, MarksOf
  <1> QED
    BY <1>1, FS_EmptySet DEF Total

LEMMA TotalOneMore ==
  ASSUME NEW a, NEW b, NEW S, IsFiniteSet(S), \A x \in S : a[x] \in Nat, NEW c \in S,
         b[c] = a[c] + 1, \A x \in S \ {c} : b[x] = a[x]
  PROVE  Total(b, S) = Total(a, S) + 1
  <1>1. Total(a, S) = a[c] + Total(a, S \ {c})
    BY TotalTakeOut
  <1>2. \A x \in S : b[x] \in Nat
    OBVIOUS
  <1>3. Total(b, S) = b[c] + Total(b, S \ {c})
    BY <1>2, TotalTakeOut
  <1>4. Total(b, S \ {c}) = Total(a, S \ {c})
    BY TotalAgrees
  <1>5. IsFiniteSet(S \ {c}) /\ \A x \in S \ {c} : a[x] \in Nat
    BY FS_RemoveElement
  <1>6. Total(a, S \ {c}) \in Nat
    BY <1>5, TotalType
  <1> QED
    BY <1>1, <1>3, <1>4, <1>6

Times == 1 .. Horizon
Span(from, to) == {t \in Times : from <= t /\ t < to}
Within(a, from, to) == Total(a, Span(from, to))
End == Horizon + 1

LEMMA SpanFinite ==
  ASSUME NEW from, NEW to
  PROVE  IsFiniteSet(Span(from, to)) /\ Span(from, to) \subseteq Times
  <1>1. IsFiniteSet(Times)
    BY RateAssumption, FS_Interval DEF Times
  <1>2. Span(from, to) \in SUBSET Times
    BY DEF Span
  <1> QED
    BY <1>1, <1>2, FS_Subset

LEMMA WithinType ==
  ASSUME NEW a, \A t \in Times : a[t] \in Nat, NEW from, NEW to
  PROVE  Within(a, from, to) \in Nat
  <1>1. IsFiniteSet(Span(from, to)) /\ \A t \in Span(from, to) : a[t] \in Nat
    BY SpanFinite
  <1> QED
    BY <1>1, TotalType DEF Within

LEMMA WithinLarger ==
  ASSUME NEW a, \A t \in Times : a[t] \in Nat,
         NEW f \in Int, NEW t \in Int, NEW g \in Int, NEW u \in Int, g <= f, t <= u
  PROVE  Within(a, f, t) <= Within(a, g, u)
  <1>1. IsFiniteSet(Span(g, u)) /\ \A x \in Span(g, u) : a[x] \in Nat
    BY SpanFinite
  <1>2. Span(f, t) \in SUBSET Span(g, u)
    BY RateAssumption DEF Span, Times
  <1> QED
    BY <1>1, <1>2, TotalMonotonic DEF Within

LEMMA WithinSplit ==
  ASSUME NEW a, \A t \in Times : a[t] \in Nat,
         NEW f \in Int, NEW m \in Int, NEW t \in Int, f <= m, m <= t
  PROVE  Within(a, f, t) = Within(a, f, m) + Within(a, m, t)
  <1>1. /\ IsFiniteSet(Span(f, m)) /\ IsFiniteSet(Span(m, t))
        /\ \A x \in Span(f, m) \cup Span(m, t) : a[x] \in Nat
    BY SpanFinite
  <1>2. Span(f, t) = Span(f, m) \cup Span(m, t) /\ Span(f, m) \cap Span(m, t) = {}
    BY RateAssumption DEF Span, Times
  <1> QED
    BY <1>1, <1>2, TotalSplit DEF Within

LEMMA WithinNothing ==
  ASSUME NEW a, NEW f, NEW t, \A x \in Times : f <= x => a[x] = 0
  PROVE  Within(a, f, t) = 0
  BY TotalNothing DEF Within, Span

\* One request is let through at c.
OneMore(a, c) == [a EXCEPT ![c] = a[c] + 1]

LEMMA WithinOneMore ==
  ASSUME NEW a, DOMAIN a = Times, \A t \in Times : a[t] \in Nat, NEW c \in Times,
         NEW f \in Int, NEW t \in Int
  PROVE  Within(OneMore(a, c), f, t)
           = IF f <= c /\ c < t THEN Within(a, f, t) + 1 ELSE Within(a, f, t)
  <1> DEFINE S == Span(f, t)
             b == OneMore(a, c)
  <1>1. IsFiniteSet(S) /\ S \subseteq Times /\ \A x \in S : a[x] \in Nat
    BY SpanFinite
  <1>2. b[c] = a[c] + 1 /\ \A x \in Times \ {c} : b[x] = a[x]
    BY DEF OneMore
  <1>3. c \in S <=> f <= c /\ c < t
    BY DEF Span
  <1> HIDE DEF S, b
  <1>4. CASE c \in S
    <2>1. Total(b, S) = Total(a, S) + 1
      BY <1>1, <1>2, <1>4, TotalOneMore
    <2> QED
      BY <1>3, <1>4, <2>1 DEF Within, S, b
  <1>5. CASE c \notin S
    <2>1. \A x \in S : a[x] = b[x]
      BY <1>1, <1>2, <1>5
    <2>2. Total(a, S) = Total(b, S)
      BY <2>1, TotalAgrees
    <2> QED
      BY <1>3, <1>5, <2>2 DEF Within, S, b
  <1> QED
    BY <1>4, <1>5

-----------------------------------------------------------------------------
(* The row of one client.  A request that gets through is one of those the *)
(* window counted, no window begins within a window's length of another,   *)
(* and a row that is removed was idle for longer than that.                *)

RateRows ==
  /\ clock \in Times
  /\ limit \in [start : Nat, count : 0 .. MaxPasses + 1,
                blocked : 0 .. Horizon + Window, updated : Nat]
  /\ limit.start <= clock /\ limit.updated <= clock
  /\ limit # Rate!NoRow => limit.start >= 1
  /\ passed \in [Times -> 0 .. MaxPasses + 1]
  /\ \A b \in blocks : /\ b[1] \in Nat /\ b[2] \in Nat
                       /\ b[1] < b[2] /\ b[1] <= clock

\* Nothing got through before its time, in a row's absence or since its window ended.
NothingPassed ==
  \A t \in Times : \/ t > clock
                   \/ t > limit.updated /\ limit # Rate!NoRow
                   \/ t >= limit.start + Window /\ limit # Rate!NoRow
                   \/ t >= clock - Window /\ limit = Rate!NoRow
                   => passed[t] = 0

\* What the window that is open, and the one before, let through
WindowCounts ==
  limit # Rate!NoRow =>
    /\ Within(passed, limit.start, End) <= limit.count
    /\ Within(passed, limit.start, End) <= MaxPasses
    /\ Within(passed, limit.start - Window, limit.start) <= MaxPasses

\* The row knows of every block that has not ended.
BlockKept == \A b \in blocks : b[2] > clock => limit.blocked >= b[2]

BlocksHold ==
  \A b \in blocks : \A t \in Times : b[1] < t /\ t < b[2] => passed[t] = 0

TwoWindows == \A t \in Times : Within(passed, t, t + Window) <= 2 * MaxPasses

RateInv ==
  /\ RateRows /\ NothingPassed /\ WindowCounts
  /\ BlockKept /\ BlocksHold /\ TwoWindows


LEMMA RateInit ==
  ASSUME Rate!RateInit
  PROVE  RateInv
  <1>1. /\ clock = 1 /\ limit = Rate!NoRow /\ passed = [t \in Times |-> 0] /\ blocks = {}
    BY DEF Rate!RateInit, Times
  <1>2. 1 \in Times /\ \A t \in Times : passed[t] = 0
    BY <1>1, RateAssumption DEF Times
  <1>3. RateRows /\ NothingPassed /\ WindowCounts /\ BlockKept /\ BlocksHold
    BY <1>1, <1>2, RateAssumption
       DEF RateRows, NothingPassed, WindowCounts, BlockKept, BlocksHold, Rate!NoRow
  <1>4. TwoWindows
    BY <1>2, WithinNothing, RateAssumption DEF TwoWindows
  <1> QED
    BY <1>3, <1>4 DEF RateInv

LEMMA RateTicks ==
  ASSUME RateInv, Rate!Tick
  PROVE  RateInv'
  <1>1. clock < Horizon /\ clock' = clock + 1 /\ UNCHANGED <<limit, passed, blocks>>
    BY DEF Rate!Tick
  <1>2. RateRows'
    BY <1>1, RateAssumption DEF RateInv, RateRows, Times, Rate!NoRow
  <1>3. NothingPassed'
    BY <1>1, RateAssumption DEF RateInv, RateRows, NothingPassed, Times, Rate!NoRow
  <1>4. BlockKept'
    BY <1>1 DEF RateInv, RateRows, BlockKept, Times
  <1> QED
    BY <1>1, <1>2, <1>3, <1>4 DEF RateInv, WindowCounts, BlocksHold, TwoWindows

LEMMA RatePrunes ==
  ASSUME RateInv, Rate!Pruned
  PROVE  RateInv'
  <1>1. /\ limit # Rate!NoRow /\ limit.updated < clock - Keep /\ limit.blocked < clock
        /\ limit' = Rate!NoRow /\ UNCHANGED <<clock, passed, blocks>>
    BY DEF Rate!Pruned
  <1>2. RateRows'
    BY <1>1, RateAssumption DEF RateInv, RateRows, Times, Rate!NoRow
  <1>3. NothingPassed'
    BY <1>1, RateAssumption DEF RateInv, RateRows, NothingPassed, Times, Rate!NoRow
  <1>4. BlockKept'
    BY <1>1, RateAssumption DEF RateInv, RateRows, BlockKept, Times, Rate!NoRow
  <1> QED
    BY <1>1, <1>2, <1>3, <1>4 DEF RateInv, WindowCounts, BlocksHold, TwoWindows

\* The window a request is counted in, before it is
Renewed == limit = Rate!NoRow \/ limit.start <= clock - Window
Start == IF Renewed THEN clock ELSE limit.start

LEMMA WindowOpen ==
  ASSUME RateInv
  PROVE  /\ Start \in Nat /\ 1 <= Start /\ Start <= clock /\ clock < Start + Window
         /\ Within(passed, Start, End) = (IF Renewed THEN 0 ELSE Within(passed, limit.start, End))
         /\ Within(passed, Start, End) \in 0 .. MaxPasses
         /\ Within(passed, Start - Window, Start) <= MaxPasses
  <1>1. \A t \in Times : passed[t] \in Nat
    BY RateAssumption DEF RateInv, RateRows
  <1>2. clock \in Nat /\ 1 <= clock /\ Window \in Nat \ {0} /\ limit.start \in Nat
        /\ limit.start <= clock /\ clock <= Horizon /\ Horizon \in Nat /\ MaxPasses \in Nat
    BY RateAssumption DEF RateInv, RateRows, Times
  <1>3. CASE limit = Rate!NoRow
    <2>1. \A x \in Times : clock - Window <= x => passed[x] = 0
      BY <1>2, <1>3 DEF RateInv, NothingPassed, Times
    <2>2. Within(passed, clock - Window, clock) = 0
      BY <2>1, WithinNothing
    <2>3. \A x \in Times : clock <= x => passed[x] = 0
      BY <1>2, <2>1 DEF Times
    <2>4. Within(passed, clock, End) = 0
      BY <2>3, WithinNothing
    <2> QED
      BY <1>2, <1>3, <2>2, <2>4 DEF Start, Renewed
  <1>4. CASE limit # Rate!NoRow /\ limit.start <= clock - Window
    <2>1. \A x \in Times : clock <= x => passed[x] = 0
      BY <1>2, <1>4 DEF RateInv, NothingPassed, Times
    <2>2. Within(passed, clock, End) = 0
      BY <2>1, WithinNothing
    <2>3. Within(passed, clock - Window, clock) <= Within(passed, limit.start, End)
      BY <1>1, <1>2, <1>4, WithinLarger DEF End
    <2>4. /\ Within(passed, clock - Window, clock) \in Nat
          /\ Within(passed, limit.start, End) \in Nat
      BY <1>1, WithinType
    <2>5. Within(passed, limit.start, End) <= MaxPasses
      BY <1>4 DEF RateInv, WindowCounts
    <2> QED
      BY <1>2, <1>4, <2>2, <2>3, <2>4, <2>5 DEF Start, Renewed
  <1>5. CASE limit # Rate!NoRow /\ ~ (limit.start <= clock - Window)
    <2>1. limit.start >= 1
      BY <1>5 DEF RateInv, RateRows
    <2>2. Within(passed, limit.start, End) \in Nat
      BY <1>1, WithinType
    <2> QED
      BY <1>2, <1>5, <2>1, <2>2 DEF Start, Renewed, RateInv, WindowCounts
  <1> QED
    BY <1>3, <1>4, <1>5

\* What the windows look like when one more request gets through at c
LEMMA OneMorePass ==
  ASSUME NEW a, DOMAIN a = Times, \A t \in Times : a[t] \in Nat,
         NEW c \in Times, NEW s \in Nat, s <= c, c < s + Window,
         Within(a, s, End) + 1 <= MaxPasses, Within(a, s - Window, s) <= MaxPasses,
         \A t \in Times : Within(a, t, t + Window) <= 2 * MaxPasses
  PROVE  /\ Within(OneMore(a, c), s, End) = Within(a, s, End) + 1
         /\ Within(OneMore(a, c), s - Window, s) = Within(a, s - Window, s)
         /\ \A t \in Times : Within(OneMore(a, c), t, t + Window) <= 2 * MaxPasses
  <1>1. c \in Nat /\ c <= Horizon /\ Horizon \in Nat /\ Window \in Nat /\ MaxPasses \in Nat
    BY RateAssumption DEF Times
  <1>2. \A f \in Int : \A t \in Int : Within(a, f, t) \in Nat
    BY WithinType
  <1>3. Within(OneMore(a, c), s, End) = Within(a, s, End) + 1
    BY <1>1, WithinOneMore DEF End
  <1>4. Within(OneMore(a, c), s - Window, s) = Within(a, s - Window, s)
    BY <1>1, WithinOneMore
  <1>5. ASSUME NEW t \in Times
        PROVE  Within(OneMore(a, c), t, t + Window) <= 2 * MaxPasses
    <2> t \in Nat
      BY DEF Times
    <2>1. Within(OneMore(a, c), t, t + Window)
            = IF t <= c /\ c < t + Window THEN Within(a, t, t + Window) + 1
                                          ELSE Within(a, t, t + Window)
      BY <1>1, WithinOneMore
    <2>2. CASE ~ (t <= c /\ c < t + Window)
      BY <2>1, <2>2
    <2>3. CASE t <= c /\ c < t + Window /\ s <= t
      <3>1. Within(a, t, End) <= Within(a, s, End)
        BY <1>1, <2>3, WithinLarger DEF End
      <3>2. Span(t, t + Window) \cup Span(t, End) = Span(t, End)
        BY <1>1 DEF Span, End, Times
      <3>3. Within(a, t, t + Window) <= Within(a, t, End)
        <4>1. IsFiniteSet(Span(t, End)) /\ \A x \in Span(t, End) : a[x] \in Nat
          BY SpanFinite
        <4>2. Span(t, t + Window) \in SUBSET Span(t, End)
          BY <3>2
        <4> QED
          BY <4>1, <4>2, TotalMonotonic DEF Within
      <3>4. /\ Within(a, t, t + Window) \in Nat /\ Within(a, t, End) \in Nat
            /\ Within(a, s, End) \in Nat
        BY <1>1, <1>2 DEF End
      <3> QED
        BY <1>1, <2>1, <2>3, <3>1, <3>3, <3>4
    <2>4. CASE t <= c /\ c < t + Window /\ t < s
      <3>1. Within(a, t, t + Window) = Within(a, t, s) + Within(a, s, t + Window)
        BY <1>1, <2>4, WithinSplit
      <3>2. Within(a, t, s) <= Within(a, s - Window, s)
        BY <1>1, <2>4, WithinLarger
      <3>3. Within(a, s, t + Window) <= Within(a, s, End)
        <4>1. IsFiniteSet(Span(s, End)) /\ \A x \in Span(s, End) : a[x] \in Nat
          BY SpanFinite
        <4>2. Span(s, t + Window) \in SUBSET Span(s, End)
          BY <1>1 DEF Span, End, Times
        <4> QED
          BY <4>1, <4>2, TotalMonotonic DEF Within
      <3>4. /\ Within(a, t, s) \in Nat /\ Within(a, s, t + Window) \in Nat
            /\ Within(a, s - Window, s) \in Nat /\ Within(a, s, End) \in Nat
        BY <1>1, <1>2 DEF End
      <3> QED
        BY <1>1, <2>1, <2>4, <3>1, <3>2, <3>3, <3>4
    <2> QED
      BY <2>2, <2>3, <2>4
  <1> QED
    BY <1>3, <1>4, <1>5


LEMMA RateChecks ==
  ASSUME RateInv, Rate!CheckRateLimit
  PROVE  RateInv'
  <1> DEFINE blocked == limit'.blocked > clock
  <1>1. /\ passed[clock] < MaxPasses + 1 /\ UNCHANGED clock
        /\ IF blocked
           THEN blocks' = blocks \cup {<<clock, limit'.blocked>>} /\ UNCHANGED passed
           ELSE passed' = [passed EXCEPT ![clock] = passed[clock] + 1] /\ UNCHANGED blocks
    BY Zenon DEF Rate!CheckRateLimit
  <1>2. /\ clock \in Times /\ clock \in Nat /\ clock >= 1 /\ clock <= Horizon
        /\ Horizon \in Nat /\ Window \in Nat \ {0} /\ MaxPasses \in Nat \ {0}
        /\ limit.start \in Nat /\ limit.start <= clock
        /\ limit.count \in 0 .. MaxPasses + 1 /\ limit.blocked \in 0 .. Horizon + Window
        /\ DOMAIN passed = Times /\ passed \in [Times -> 0 .. MaxPasses + 1]
        /\ \A t \in Times : passed[t] \in Nat
    BY RateAssumption DEF RateInv, RateRows, Times
  <1>3. limit' = Rate!Counted
    BY DEF Rate!CheckRateLimit
  <1>4. limit' = [start |-> Start,
                  count |-> IF Renewed THEN 1 ELSE Rate!Saturated(limit.count + 1),
                  blocked |-> IF limit.blocked > clock THEN limit.blocked
                              ELSE IF ~Renewed /\ limit'.count > MaxPasses THEN clock + Window ELSE 0,
                  updated |-> clock]
    BY <1>3 DEF Rate!Counted, Renewed, Start
  <1>5. /\ limit'.start = Start /\ limit'.updated = clock
        /\ limit'.count = IF Renewed THEN 1 ELSE Rate!Saturated(limit.count + 1)
        /\ limit'.blocked = IF limit.blocked > clock THEN limit.blocked
                            ELSE IF ~Renewed /\ limit'.count > MaxPasses THEN clock + Window ELSE 0
    BY <1>4
  <1>6. /\ limit'.count \in 1 .. MaxPasses + 1 /\ limit'.blocked \in 0 .. Horizon + Window
        /\ ~Renewed => limit'.count >= limit.count
        /\ ~Renewed /\ limit'.count <= MaxPasses => limit'.count = limit.count + 1
    BY <1>2, <1>5 DEF Rate!Saturated
  <1>7. /\ Start \in Nat /\ 1 <= Start /\ Start <= clock /\ clock < Start + Window
        /\ Within(passed, Start, End) = (IF Renewed THEN 0 ELSE Within(passed, limit.start, End))
        /\ Within(passed, Start, End) \in 0 .. MaxPasses
        /\ Within(passed, Start - Window, Start) <= MaxPasses
    BY WindowOpen
  <1>8. /\ limit' # Rate!NoRow
        /\ limit' \in [start : Nat, count : 0 .. MaxPasses + 1,
                       blocked : 0 .. Horizon + Window, updated : Nat]
    <2>1. limit' # Rate!NoRow
      BY <1>5, <1>7 DEF Rate!NoRow
    <2> QED
      BY <1>2, <1>4, <1>5, <1>6, <1>7, <2>1
  <1>9. ~Renewed => Within(passed, limit.start, End) <= limit.count
    BY DEF RateInv, WindowCounts, Renewed
  <1>10. BlockKept'
    <2>1. ASSUME NEW b \in blocks', b[2] > clock
          PROVE  limit'.blocked >= b[2]
      <3>1. CASE b \in blocks
        BY <1>2, <1>5, <2>1, <3>1 DEF RateInv, RateRows, BlockKept
      <3>2. CASE b \notin blocks
        BY <1>1, <1>6, <2>1, <3>2
      <3> QED
        BY <3>1, <3>2
    <2> QED
      BY <1>1, <2>1 DEF BlockKept
  <1> HIDE DEF blocked
  <1>11. CASE blocked
    <2>1. passed' = passed /\ clock' = clock /\ blocks' = blocks \cup {<<clock, limit'.blocked>>}
      BY <1>1, <1>11
    <2>2. RateRows'
      <3>1. \A b \in blocks' : b[1] \in Nat /\ b[2] \in Nat /\ b[1] < b[2] /\ b[1] <= clock
        BY <1>2, <1>6, <1>11, <2>1 DEF RateInv, RateRows, blocked
      <3> QED
        BY <1>2, <1>5, <1>7, <1>8, <2>1, <3>1 DEF RateRows
    <2>3. NothingPassed'
      BY <1>2, <1>5, <1>7, <1>8, <2>1 DEF RateInv, NothingPassed, Times
    <2>4. WindowCounts'
      BY <1>2, <1>5, <1>6, <1>7, <1>9, <2>1 DEF WindowCounts
    <2>5. BlocksHold'
      BY <1>2, <2>1 DEF RateInv, NothingPassed, BlocksHold, Times
    <2>6. TwoWindows'
      BY <2>1 DEF RateInv, TwoWindows
    <2> QED
      BY <1>10, <2>2, <2>3, <2>4, <2>5, <2>6 DEF RateInv
  <1>12. CASE ~blocked
    <2>1. passed' = OneMore(passed, clock) /\ clock' = clock /\ blocks' = blocks
      BY <1>1, <1>12 DEF OneMore
    <2>2. Within(passed, Start, End) + 1 <= limit'.count /\ limit'.count <= MaxPasses
      <3>1. CASE Renewed
        BY <1>2, <1>5, <1>7, <3>1
      <3>2. CASE ~Renewed
        <4>1. limit'.count <= MaxPasses
          BY <1>2, <1>5, <1>6, <1>12, <3>2 DEF blocked
        <4> QED
          BY <1>2, <1>6, <1>7, <1>9, <3>2, <4>1
      <3> QED
        BY <3>1, <3>2
    <2>3. /\ Within(passed', Start, End) = Within(passed, Start, End) + 1
          /\ Within(passed', Start - Window, Start) = Within(passed, Start - Window, Start)
          /\ \A t \in Times : Within(passed', t, t + Window) <= 2 * MaxPasses
      <3>1. \A t \in Times : Within(passed, t, t + Window) <= 2 * MaxPasses
        BY DEF RateInv, TwoWindows
      <3>2. Within(passed, Start, End) + 1 <= MaxPasses
        BY <1>2, <1>6, <1>7, <2>2
      <3> QED
        BY <1>2, <1>7, <2>1, <3>1, <3>2, OneMorePass
    <2>4. RateRows'
      <3>1. passed' \in [Times -> 0 .. MaxPasses + 1]
        BY <1>1, <1>2, <2>1 DEF OneMore
      <3>2. \A b \in blocks' : b[1] \in Nat /\ b[2] \in Nat /\ b[1] < b[2] /\ b[1] <= clock
        BY <2>1 DEF RateInv, RateRows
      <3> QED
        BY <1>2, <1>5, <1>7, <1>8, <2>1, <3>1, <3>2 DEF RateRows
    <2>5. \A t \in Times : t # clock => passed'[t] = passed[t]
      BY <1>2, <2>1 DEF OneMore
    <2>6. NothingPassed'
      BY <1>2, <1>5, <1>7, <1>8, <2>1, <2>5 DEF RateInv, NothingPassed, Times
    <2>7. WindowCounts'
      BY <1>2, <1>5, <1>6, <1>7, <2>2, <2>3 DEF WindowCounts
    <2>8. BlocksHold'
      <3>1. \A b \in blocks : ~ (b[1] < clock /\ clock < b[2])
        BY <1>2, <1>5, <1>6, <1>12 DEF RateInv, RateRows, BlockKept, blocked
      <3> QED
        BY <2>1, <2>5, <3>1 DEF RateInv, BlocksHold
    <2>9. TwoWindows'
      BY <2>3 DEF TwoWindows
    <2> QED
      BY <1>10, <2>4, <2>6, <2>7, <2>8, <2>9 DEF RateInv
  <1> QED
    BY <1>11, <1>12

LEMMA RateInvStays ==
  ASSUME RateInv, [Rate!RateNext]_rateVars
  PROVE  RateInv'
  <1>1. CASE UNCHANGED rateVars
    BY <1>1 DEF rateVars, RateInv, RateRows, NothingPassed, WindowCounts, BlockKept, BlocksHold, TwoWindows
  <1> QED
    BY <1>1, RateChecks, RatePrunes, RateTicks DEF Rate!RateNext

LEMMA RateIsBounded ==
  ASSUME RateInv
  PROVE  RateBounded
  <1>1. \A t \in Times : passed[t] \in Nat
    BY RateAssumption DEF RateInv, RateRows
  <1>2. ASSUME NEW t \in Times
        PROVE  Rate!PassedWithin(t, t + Window) <= 2 * MaxPasses
    <2>1. IsFiniteSet(Span(t, t + Window)) /\ \A x \in Span(t, t + Window) : passed[x] \in Nat
      BY <1>1, SpanFinite
    <2>2. Rate!FoldFunctionOnSet(+, 0, passed, Span(t, t + Window)) = Within(passed, t, t + Window)
      BY <2>1, FoldIsTotal DEF Within
    <2>3. Rate!PassedWithin(t, t + Window) = Within(passed, t, t + Window)
      BY <2>2 DEF Rate!PassedWithin, Span, Times
    <2> QED
      BY <2>3 DEF RateInv, TwoWindows
  <1>3. Rate!TypeOK
    BY RateAssumption DEF RateInv, RateRows, Times, Rate!TypeOK
  <1> QED
    BY <1>2, <1>3 DEF RateInv, BlocksHold, RateBounded, Rate!RateBounded, Times

-----------------------------------------------------------------------------
(* The theorems. *)

AccessInv == StaffInv /\ CustomerInv /\ SignupInv /\ RateInv

LEMMA AccessInductive == AccessSpec => []AccessInv
  <1>1. AccessInit => AccessInv
    BY StaffInit, CustomerInit, SignupInit, RateInit DEF AccessInit, AccessInv
  <1>2. AccessInv /\ [AccessNext]_allVars => AccessInv'
    BY PartSteps, StaffInvStays, CustomerInvStays, SignupInvStays, RateInvStays
       DEF AccessInv
  <1> QED
    BY <1>1, <1>2, PTL DEF AccessSpec, allVars

\* Codes and refresh tokens work once, for staff and customers, and a sign-up
\* creates one account with the password it was asked for, whatever requests
\* overlap and however many there are.
THEOREM CodesAreGoodOnce == AccessSpec => []CodesWorkOnce
  <1>1. AccessInv => CodesWorkOnce
    BY StaffWorksOnce, CustomerWorksOnce, SignupAsAsked DEF AccessInv, CodesWorkOnce
  <1> QED
    BY <1>1, AccessInductive, PTL

\* No session of staff or customers, and no code of a customer, outlives a
\* change of the password.
THEOREM PasswordEndsAccess == AccessSpec => []AccessFollowsThePassword
  <1>1. AccessInv => AccessFollowsThePassword
    BY CustomerWorksOnce DEF AccessInv, StaffInv, SessionInv, AccessFollowsThePassword
  <1> QED
    BY <1>1, AccessInductive, PTL

\* An active administrator of the platform remains, however many requests
\* deactivate them at the same time.
THEOREM OneAdministrator == AccessSpec => []AdministratorRemains
  <1>1. AccessInv => AdministratorRemains
    BY DEF AccessInv, StaffInv, AuthorityInv, AdministratorRemains
  <1> QED
    BY <1>1, AccessInductive, PTL

\* A client that was told to wait gets nothing through before that time, and no
\* span of a window's length lets through more than two windows' worth, for
\* any window, limit and sequence of requests.
THEOREM LimitsHold == AccessSpec => []RateBounded
  <1>1. AccessInv => RateBounded
    BY RateIsBounded DEF AccessInv
  <1> QED
    BY <1>1, AccessInductive, PTL
=============================================================================
