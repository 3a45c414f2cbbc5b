------------------------------- MODULE MCAccess -------------------------------
(***************************************************************************)
(* The parts that let people in, side by side: an operator's staff         *)
(* (AdminAccess), an operator's customers (CustomerSignup, CustomerAccess) *)
(* and the rate limits of both (RateLimit).  They share no row, nor do the *)
(* platform's administrators with the staff, so a behaviour is one part's: *)
(* "part" says which.                                                      *)
(***************************************************************************)
EXTENDS AdminAccess, TLC

CONSTANTS Passwords, MaxCodes, Window, MaxPasses, Keep, Horizon

\* A window is positive and shorter than an idle row is kept: 15 minutes, if it
\* is not configured, and 7 days.
ASSUME RateAssumption ==
  /\ {Window, MaxPasses, Horizon} \subseteq Nat \ {0}
  /\ Keep \in Nat /\ Keep >= Window

VARIABLES part, signups, account, signing, customer, codes, opened, issued, serving,
          clock, limit, passed, blocks

Signup == INSTANCE CustomerSignup WITH
  SignupRequests <- Requests, MaxGuesses <- MaxAttempts, MaxSignups <- MaxChallenges + 1
Customer == INSTANCE CustomerAccess WITH
  CustomerRequests <- Requests, MaxWrong <- MaxAttempts, MaxFailed <- LoginMaxAttempts,
  MaxOpened <- MaxSessions, MaxIssued <- MaxTokens,
  MaxChanged <- MaxPassword
Rate == INSTANCE RateLimit WITH MaxPerTick <- MaxPasses + 1

signupVars == <<signups, account, signing>>
customerVars == <<customer, codes, opened, issued, serving>>
rateVars == <<clock, limit, passed, blocks>>

AccessInit ==
  /\ part \in {"staff", "platform", "sign-up", "customer", "rate"}
  /\ Init /\ Signup!SignupInit /\ Customer!AccessInit /\ Rate!RateInit

AccessNext ==
  /\ part' = part
  /\ \/ /\ part \in {"staff", "platform"} /\ Next
        /\ UNCHANGED <<signupVars, customerVars, rateVars>>
        /\ \A h \in Requests : request'[h].op = "none"
                              \/ (request'[h].op \in AuthorityOps) = (part = "platform")
     \/ /\ part = "sign-up" /\ Signup!SignupNext
        /\ UNCHANGED <<vars, customerVars, rateVars>>
     \/ /\ part = "customer" /\ Customer!AccessNext
        /\ UNCHANGED <<vars, signupVars, rateVars>>
     \/ /\ part = "rate" /\ Rate!RateNext
        /\ UNCHANGED <<vars, signupVars, customerVars>>

AccessSpec == AccessInit /\ [][AccessNext]_<<vars, signupVars, customerVars, rateVars, part>>

\* Requests are interchangeable.
Symmetry == Permutations(Requests)

-----------------------------------------------------------------------------
\* Codes and refresh tokens work once, for staff and for customers, and a
\* sign-up creates one account with the password it was asked for.
CodesWorkOnce == WorksOnce /\ Customer!CustomerCodesWorkOnce /\ Signup!SignedUpAsAsked

\* No session, and no code of a customer, outlives a change of the password.
AccessFollowsThePassword == SessionsFollowPassword /\ Customer!AccessFollowsPassword

\* A block holds until it ends, and a window's length lets through two windows' worth.
RateBounded == Rate!RateBounded
=============================================================================
