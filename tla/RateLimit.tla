------------------------------ MODULE RateLimit ------------------------------
(***************************************************************************)
(* Rate limits of sign-in flows (checkRateLimit of customerauth/service.go *)
(* and auth/service.go): one row per client and action, which one upsert   *)
(* counts in a fixed window and blocks.  Time is discrete.                 *)
(***************************************************************************)
EXTENDS Integers, FiniteSets, Functions

CONSTANTS
  Window,      \* RateLimitWindow: of counting, and of a block
  MaxPasses,   \* RateLimitMax
  Keep,        \* rows idle for longer are pruned (7 days)
  Horizon, MaxPerTick  \* bounds

VARIABLES
  clock,   \* service.now()
  limit,   \* the row of one client: start, count, blocked (0: NULL), updated
  passed,  \* history: requests let through at each instant
  blocks   \* history: <<at, until>> of the refusals

rateVars == <<clock, limit, passed, blocks>>

NoRow == [start |-> 0, count |-> 0, blocked |-> 0, updated |-> 0]

RateInit ==
  /\ clock = 1
  /\ limit = NoRow
  /\ passed = [t \in 1 .. Horizon |-> 0]
  /\ blocks = {}

\* Bound: the count matters up to the first request too many.
Saturated(n) == IF n > MaxPasses + 1 THEN MaxPasses + 1 ELSE n

\* Mutant: a window that starts anew also ends the block.
CountedWindowOnly ==
  LET renewed == limit = NoRow \/ limit.start <= clock - Window
      count == IF renewed THEN 1 ELSE Saturated(limit.count + 1) IN
  [start |-> IF renewed THEN clock ELSE limit.start,
   count |-> count,
   blocked |-> IF renewed THEN 0
               ELSE IF limit.blocked > clock THEN limit.blocked
               ELSE IF count > MaxPasses THEN clock + Window ELSE 0,
   updated |-> clock]

\* The upsert: window and count are renewed together; a block that has not
\* ended is kept, whatever the window does.
Counted ==
  LET renewed == limit = NoRow \/ limit.start <= clock - Window
      count == IF renewed THEN 1 ELSE Saturated(limit.count + 1) IN
  [start |-> IF renewed THEN clock ELSE limit.start,
   count |-> count,
   blocked |-> IF limit.blocked > clock THEN limit.blocked
               ELSE IF ~renewed /\ count > MaxPasses THEN clock + Window ELSE 0,
   updated |-> clock]

CheckRateLimit ==
  /\ passed[clock] < MaxPerTick
  /\ limit' = Counted
  /\ IF limit'.blocked > clock
     THEN blocks' = blocks \cup {<<clock, limit'.blocked>>} /\ UNCHANGED passed
     ELSE passed' = [passed EXCEPT ![clock] = @ + 1] /\ UNCHANGED blocks
  /\ UNCHANGED clock

\* The request of another client removes rows that have been idle.
Pruned ==
  /\ limit # NoRow
  /\ limit.updated < clock - Keep /\ limit.blocked < clock
  /\ limit' = NoRow
  /\ UNCHANGED <<clock, passed, blocks>>

Tick ==
  /\ clock < Horizon
  /\ clock' = clock + 1
  /\ UNCHANGED <<limit, passed, blocks>>

RateNext == CheckRateLimit \/ Pruned \/ Tick

RateSpec == RateInit /\ [][RateNext]_rateVars

-----------------------------------------------------------------------------
TypeOK ==
  /\ limit \in [start : 0 .. clock, count : 0 .. MaxPasses + 1,
               blocked : 0 .. Horizon + Window, updated : 0 .. clock]
  /\ passed \in [1 .. Horizon -> 0 .. MaxPerTick]
  /\ \A b \in blocks : b[1] < b[2]

PassedWithin(from, to) ==
  FoldFunctionOnSet(+, 0, passed, {t \in 1 .. Horizon : from <= t /\ t < to})

\* A client that was told to wait gets nothing through before the time it was
\* told, though it keeps trying and its window starts anew meanwhile; and no
\* span of a window's length lets through more than two windows' worth.
RateBounded ==
  /\ TypeOK
  /\ \A b \in blocks, t \in 1 .. Horizon :
        b[1] < t /\ t < b[2] => passed[t] = 0
  /\ \A t \in 1 .. Horizon : PassedWithin(t, t + Window) <= 2 * MaxPasses
=============================================================================
