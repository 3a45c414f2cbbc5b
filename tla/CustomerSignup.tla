---------------------------- MODULE CustomerSignup ----------------------------
(***************************************************************************)
(* Sign-up of a customer in an operator's app (customerauth/service.go):   *)
(* a request names a password and is mailed a code; a newer request or a   *)
(* resend replaces the code; the right code creates the account and its    *)
(* wallet.  One operator and one e-mail address; requests overlap.         *)
(***************************************************************************)
EXTENDS Integers, Sequences, FiniteSets

CONSTANTS
  SignupRequests,  \* requests handled at the same time
  Passwords,
  MaxGuesses,      \* wrong codes per challenge (5 in the code)
  MaxSignups       \* bound: challenges

VARIABLES
  signups,  \* customer_signup_challenges: state, attempts, hash; "chosen" is
            \* the password of the sign-up this code was mailed for
  account,  \* the customers row with its wallet, or NoAccount
  signing   \* signing[h]: what a request does, how far it is, what it read

signupVars == <<signups, account, signing>>

Gone == "gone"  \* password_hash is overwritten ("CONSUMED", "INVALIDATED")
NoAccount == [password |-> Gone, wallets |-> 0, signup |-> 0]
Waiting == [op |-> "none", step |-> "idle", arg |-> 0, password |-> Gone, read |-> <<>>]

SignupInit ==
  /\ signups = <<>>
  /\ account = NoAccount
  /\ signing = [h \in SignupRequests |-> Waiting]

\* Codes are checked before the transaction; 0 stands for no challenge.
BeginSignup(h, op, c, p) ==
  /\ signing[h] = Waiting
  /\ IF op = "START" THEN c = 0 ELSE c \in DOMAIN signups
  /\ signing' = [signing EXCEPT ![h] =
       [Waiting EXCEPT !.op = op, !.step = "begun", !.arg = c, !.password = p]]
  /\ UNCHANGED <<signups, account>>

Challenge(h) == IF signing[h].op = "START" THEN <<>> ELSE signups[signing[h].arg]

\* Mutant: the challenge is read without the lock of its identity.
ReadIdentity(h) ==
  /\ signing[h].step = "begun"
  /\ signing' = [signing EXCEPT ![h].step = "locked", ![h].read = Challenge(h)]
  /\ UNCHANGED <<signups, account>>

\* lockSignupIdentity, an advisory lock until the commit, then lockChallenge.
LockIdentity(h) ==
  /\ signing[h].step = "begun"
  /\ \A g \in SignupRequests : signing[g].step # "locked"
  /\ signing' = [signing EXCEPT ![h].step = "locked", ![h].read = Challenge(h)]
  /\ UNCHANGED <<signups, account>>

Open(challenge) == challenge.state = "open"
Invalid(challenge) == [challenge EXCEPT !.state = "invalidated", !.hash = Gone]

\* createChallenge: the current one of this identity is replaced.
Replaced(list, hash, chosen) ==
  Append([c \in DOMAIN list |-> IF Open(list[c]) THEN Invalid(list[c]) ELSE list[c]],
         [state |-> "open", attempts |-> 0, hash |-> hash, chosen |-> chosen,
          guesses |-> 0])

Start(h) ==
  LET p == signing[h].password IN
  /\ signing[h].op = "START" /\ signing[h].step = "locked"
  /\ Len(signups) < MaxSignups
  /\ signups' = Replaced(signups, p, p)
  /\ signing' = [signing EXCEPT ![h] = Waiting]
  /\ UNCHANGED account

ResendSignup(h) ==
  LET c == signing[h].arg
      r == signing[h].read IN
  /\ signing[h].op = "RESEND" /\ signing[h].step = "locked"
  /\ Open(r)
  /\ Len(signups) < MaxSignups
  /\ signups' = Replaced([signups EXCEPT ![c] = Invalid(@)], r.hash, r.chosen)
  /\ signing' = [signing EXCEPT ![h] = Waiting]
  /\ UNCHANGED account

WrongSignupCode(h) ==
  LET c == signing[h].arg
      n == signing[h].read.attempts + 1 IN
  /\ signing[h].op = "VERIFY" /\ signing[h].step = "locked"
  /\ Open(signing[h].read) /\ n <= MaxGuesses
  /\ LET counted == [signups[c] EXCEPT !.attempts = n, !.guesses = @ + 1] IN
     signups' = [signups EXCEPT ![c] = IF n >= MaxGuesses THEN Invalid(counted)
                                                          ELSE counted]
  /\ signing' = [signing EXCEPT ![h] = Waiting]
  /\ UNCHANGED account

\* The right code consumes the challenge; an identity that is registered
\* already is refused, and the challenge stays consumed.
VerifySignup(h) ==
  LET c == signing[h].arg
      r == signing[h].read IN
  /\ signing[h].op = "VERIFY" /\ signing[h].step = "locked"
  /\ Open(r) /\ r.attempts < MaxGuesses
  /\ signups' = [signups EXCEPT ![c].state = "consumed", ![c].hash = Gone]
  /\ account' = IF account = NoAccount
                THEN [password |-> r.hash, wallets |-> 1, signup |-> c]
                ELSE account
  /\ signing' = [signing EXCEPT ![h] = Waiting]

\* A check refuses the request, the code has expired, or the client goes away.
SignupEnds(h) ==
  /\ signing[h] # Waiting
  /\ signing' = [signing EXCEPT ![h] = Waiting]
  /\ UNCHANGED <<signups, account>>

SignupNext ==
  \E h \in SignupRequests :
    \/ \E p \in Passwords : BeginSignup(h, "START", 0, p)
    \/ \E op \in {"VERIFY", "RESEND"} : \E c \in DOMAIN signups :
         BeginSignup(h, op, c, Gone)
    \/ LockIdentity(h)
    \/ Start(h) \/ ResendSignup(h) \/ WrongSignupCode(h) \/ VerifySignup(h)
    \/ SignupEnds(h)

SignupSpec == SignupInit /\ [][SignupNext]_signupVars

-----------------------------------------------------------------------------
TypeOK ==
  /\ \A c \in DOMAIN signups :
        /\ signups[c].state \in {"open", "consumed", "invalidated"}
        /\ signups[c].attempts \in 0 .. MaxGuesses
        /\ signups[c].chosen \in Passwords
  /\ account \in [password : Passwords, wallets : {1}, signup : DOMAIN signups] \cup {NoAccount}
  /\ \A h \in SignupRequests : signing[h].step \in {"idle", "begun", "locked"}

\* However sign-ups, resends and codes of one address overlap: one code is
\* good at a time and takes MaxGuesses wrong answers; a password is kept only
\* as long as its code is good; the account has one wallet and the password of
\* the sign-up its code was mailed for, not of the one before or after it.
SignedUpAsAsked ==
  /\ TypeOK
  /\ \A c, d \in DOMAIN signups : Open(signups[c]) /\ Open(signups[d]) => c = d
  /\ \A c \in DOMAIN signups :
        /\ signups[c].guesses <= MaxGuesses
        /\ signups[c].hash = IF Open(signups[c]) THEN signups[c].chosen ELSE Gone
  /\ account # NoAccount =>
        /\ account.wallets = 1
        /\ signups[account.signup].state = "consumed"
        /\ account.password = signups[account.signup].chosen
=============================================================================
