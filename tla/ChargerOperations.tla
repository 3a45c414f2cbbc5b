------------------------- MODULE ChargerOperations -------------------------
(***************************************************************************)
(* Dispatching one durable charger operation to HAL and finding out what   *)
(* became of it: src/cpo/charger_operations_dispatch.go, with the request  *)
(* and the read of src/cpo/charger_operations.go.  Request handlers and    *)
(* the recovery workers of every CMS instance run the same code on the     *)
(* row; a database transaction is one action and takes no time.            *)
(*                                                                         *)
(* Time is kept in countdowns, as nothing depends on the date: the lease   *)
(* of a claim, the time until the row is due again, the budget of a call   *)
(* and the life of a request on the network.  Tick lets one unit pass.     *)
(* A worker selects due rows before it takes them up, but each operation   *)
(* decides again on the locked row, so the selection is left out.          *)
(***************************************************************************)
EXTENDS Integers

CONSTANTS
  Workers,     \* the recovery workers, one per CMS instance
  Handlers,    \* requests for this operation, with its key or its id
  NoActor,     \* no token
  Lease,       \* chargerOperationLease
  CallTimeout, \* chargerOperationCallTimeout
  RetryDelay,  \* chargerOperationRetryDelay
  Transit      \* how long a request may outlive its call on the network

Actors == Workers \cup Handlers

\* The call timeout of 15 s leaves 45 s of the retry delay to the network.
ASSUME OperationAssumption ==
  /\ NoActor \notin Actors
  /\ {Lease, CallTimeout, RetryDelay, Transit} \subseteq Nat \ {0}
  /\ CallTimeout + Transit <= RetryDelay

VARIABLES
  state,     \* charger_operations.state; none before the row exists
  valid,     \* its frozen request can be built
  attempted, \* delivery_attempted_at is set
  claim,     \* whose dispatch_claim_token it has
  recovery,  \* whose recovery_token it has
  lease,     \* the time until dispatch_claim_expires_at
  due,       \* the time until recovery_after
  at,        \* where an actor is
  result,    \* what HAL answered it
  budget,    \* what is left of the deadline of its call
  schedule,  \* what is left of the delay counted from its last answer
  flight,    \* how long its request may still reach HAL; 0 for none
  sends,     \* the requests sent for this operation
  hal        \* HAL's state of this operation

rowVars   == <<state, valid, attempted, claim, recovery, lease, due>>
actorVars == <<at, result, budget, schedule>>
wireVars  == <<flight, sends>>
vars      == <<rowVars, actorVars, wireVars, hal>>

Unattempted == {"PERSISTED", "DISPATCH_CLAIMED"}
Uncertain   == {"DELIVERY_ATTEMPTED", "HAL_ACCEPTED", "RECONCILIATION_REQUIRED"}
Terminal    == {"OCPP_CONFIRMED", "CONFIRMED_ABSENT"}
\* PERSISTED also stands for HAL's DELIVERY_ATTEMPTED and HAL_ACCEPTED: CMS
\* stores the three alike.
HALStates   == {"PERSISTED", "RECONCILIATION_REQUIRED", "OCPP_CONFIRMED"}
Results     == HALStates \cup {"none", "error", "absent"}
Steps       == {"idle", "claimed", "calling", "marked", "sent", "answered",
                "reserved", "read"}

TypeOK ==
  /\ state \in {"none"} \cup Unattempted \cup Uncertain \cup Terminal
  /\ valid \in BOOLEAN /\ attempted \in BOOLEAN
  /\ claim \in Actors \cup {NoActor}
  /\ recovery \in Actors \cup {NoActor}
  /\ lease \in Nat /\ due \in Nat /\ sends \in Nat
  /\ at \in [Actors -> Steps]
  /\ result \in [Actors -> Results]
  /\ budget \in [Actors -> 0 .. CallTimeout]
  /\ schedule \in [Actors -> 0 .. RetryDelay]
  /\ flight \in [Actors -> 0 .. CallTimeout + Transit]
  /\ hal \in HALStates \cup {"none"}

Init ==
  /\ state = "none" /\ valid = FALSE /\ attempted = FALSE
  /\ claim = NoActor /\ recovery = NoActor
  /\ lease = 0 /\ due = 0
  /\ at = [a \in Actors |-> "idle"]
  /\ result = [a \in Actors |-> "none"]
  /\ budget = [a \in Actors |-> 0]
  /\ schedule = [a \in Actors |-> 0]
  /\ flight = [a \in Actors |-> 0]
  /\ sends = 0
  /\ hal = "none"

Move(a, step) ==
  /\ at' = [at EXCEPT ![a] = step]
  /\ UNCHANGED <<result, budget, schedule>>

\* cancel() ends the deadline of the call; the clock is read at some time
\* after it, in a query of its own.
Hear(a, step, r) ==
  /\ at' = [at EXCEPT ![a] = step]
  /\ result' = [result EXCEPT ![a] = r]
  /\ budget' = [budget EXCEPT ![a] = 0]
  /\ schedule' = [schedule EXCEPT ![a] = IF step = "idle" THEN 0 ELSE RetryDelay]

Leave(a) == Hear(a, "idle", "none")

-----------------------------------------------------------------------------
\* The row is inserted once: whoever loses finds it by its key.
Admit ==
  /\ state = "none"
  /\ state' = "PERSISTED"
  /\ valid' \in BOOLEAN
  /\ UNCHANGED <<attempted, claim, recovery, lease, due>>
  /\ UNCHANGED <<actorVars, wireVars, hal>>

\* Mutant: the lease of a dead claimant never ends.
ClaimableOnce == ~attempted /\ due = 0 /\ state = "PERSISTED"

Claimable ==
  /\ ~attempted
  /\ due = 0
  /\ state = "PERSISTED" \/ (state = "DISPATCH_CLAIMED" /\ lease = 0)

Claim(a) ==
  /\ at[a] = "idle"
  /\ Claimable
  /\ state' = "DISPATCH_CLAIMED"
  /\ claim' = a
  /\ lease' = Lease
  /\ due' = Lease
  /\ Move(a, "claimed")
  /\ UNCHANGED <<valid, attempted, recovery, wireVars, hal>>

\* A worker moves a row whose dispatch failed behind others, if it can.
DeferRow(a) ==
  /\ \/ due' = due
     \/ /\ a \in Workers
        /\ ~attempted'
        /\ state' = "PERSISTED" \/ (state' = "DISPATCH_CLAIMED" /\ lease' = 0)
        /\ due' = RetryDelay
  /\ UNCHANGED <<valid, recovery>>

ClaimFails(a) ==
  /\ a \in Workers
  /\ at[a] = "idle"
  /\ Claimable
  /\ UNCHANGED <<state, attempted, claim, lease>>
  /\ DeferRow(a)
  /\ UNCHANGED <<actorVars, wireVars, hal>>

\* Nothing of an invalid request is sent; the row waits for its next turn.
ReleaseInvalid(a) ==
  /\ at[a] = "claimed"
  /\ ~valid
  /\ \/ /\ state = "DISPATCH_CLAIMED" /\ claim = a
        /\ state' = "PERSISTED"
        /\ claim' = NoActor
        /\ lease' = 0
        /\ due' = RetryDelay
        /\ UNCHANGED <<valid, attempted, recovery>>
     \/ /\ ~(state = "DISPATCH_CLAIMED" /\ claim = a)
        /\ UNCHANGED <<state, attempted, claim, lease>>
        /\ DeferRow(a)
  /\ Leave(a)
  /\ UNCHANGED <<wireVars, hal>>

\* The deadline of the call starts before the marker is written.
StartCall(a) ==
  /\ at[a] = "claimed"
  /\ valid
  /\ at' = [at EXCEPT ![a] = "calling"]
  /\ budget' = [budget EXCEPT ![a] = CallTimeout]
  /\ UNCHANGED <<rowVars, result, schedule, wireVars, hal>>

Markable(a) ==
  /\ state = "DISPATCH_CLAIMED"
  /\ claim = a
  /\ lease > 0
  /\ ~attempted

WriteMarker ==
  /\ state' = "DELIVERY_ATTEMPTED"
  /\ attempted' = TRUE
  /\ claim' = NoActor
  /\ lease' = 0
  /\ due' = RetryDelay
  /\ UNCHANGED <<valid, recovery>>

Mark(a) ==
  /\ at[a] = "calling"
  /\ budget[a] > 0
  /\ Markable(a)
  /\ WriteMarker
  /\ Move(a, "marked")
  /\ UNCHANGED <<wireVars, hal>>

\* Somebody else has the row, or the lease is over.
LoseClaim(a) ==
  /\ at[a] = "calling"
  /\ budget[a] > 0
  /\ ~Markable(a)
  /\ Leave(a)
  /\ UNCHANGED <<rowVars, wireVars, hal>>

\* Mutant: the request is sent although the marker may not be committed.
SendUnmarked(a) ==
  /\ at[a] = "calling"
  /\ budget[a] > 0
  /\ UNCHANGED <<rowVars, wireVars, hal>>
  /\ Move(a, "marked")

\* An error leaves open whether the marker was committed.
MarkFails(a) ==
  /\ at[a] = "calling"
  /\ budget[a] > 0
  /\ \/ Markable(a) /\ WriteMarker
     \/ UNCHANGED <<state, attempted, claim, lease>> /\ DeferRow(a)
  /\ Leave(a)
  /\ UNCHANGED <<wireVars, hal>>

MarkTooLate(a) ==
  /\ at[a] = "calling"
  /\ budget[a] = 0
  /\ UNCHANGED <<state, attempted, claim, lease>>
  /\ DeferRow(a)
  /\ Leave(a)
  /\ UNCHANGED <<wireVars, hal>>

\* Mutant: the deadline starts after the marker.
SendAfresh(a) ==
  /\ at[a] = "marked"
  /\ flight' = [flight EXCEPT ![a] = CallTimeout + Transit]
  /\ sends' = sends + 1
  /\ Move(a, "sent")
  /\ UNCHANGED <<rowVars, hal>>

\* The client may write until the deadline, the network deliver after it.
Send(a) ==
  /\ at[a] = "marked"
  /\ budget[a] > 0
  /\ flight' = [flight EXCEPT ![a] = budget[a] + Transit]
  /\ sends' = sends + 1
  /\ Move(a, "sent")
  /\ UNCHANGED <<rowVars, hal>>

SendTooLate(a) ==
  /\ at[a] = "marked"
  /\ budget[a] = 0
  /\ Hear(a, "answered", "error")
  /\ UNCHANGED <<rowVars, wireVars, hal>>

Answered(a) ==
  /\ at[a] = "sent"
  /\ budget[a] > 0
  /\ hal # "none"
  /\ Hear(a, "answered", hal)
  /\ UNCHANGED <<rowVars, wireVars, hal>>

CallFails(a) ==
  /\ at[a] = "sent"
  /\ Hear(a, "answered", "error")
  /\ UNCHANGED <<rowVars, wireVars, hal>>

-----------------------------------------------------------------------------
\* What HAL calls PERSISTED, CMS calls HAL_ACCEPTED.
Outcome(r) ==
  CASE r = "PERSISTED" -> "HAL_ACCEPTED"
    [] r = "absent"    -> "CONFIRMED_ABSENT"
    [] r = "error"     -> "RECONCILIATION_REQUIRED"
    [] OTHER           -> r

\* The delay is counted from the time that was read before the transaction.
WriteOutcome(a) ==
  /\ state' = Outcome(result[a])
  /\ recovery' = NoActor
  /\ due' \in schedule[a] .. RetryDelay
  /\ UNCHANGED <<valid, attempted, claim, lease>>

\* Mutant: an answer is recorded whatever was recorded before it.
RecordAlways(a) ==
  /\ at[a] = "answered"
  /\ WriteOutcome(a)
  /\ Leave(a)
  /\ UNCHANGED <<wireVars, hal>>

\* The answer to a call counts only if no lookup came before it.
Record(a) ==
  /\ at[a] = "answered"
  /\ \/ state = "DELIVERY_ATTEMPTED" /\ WriteOutcome(a)
     \/ state # "DELIVERY_ATTEMPTED" /\ UNCHANGED rowVars
  /\ Leave(a)
  /\ UNCHANGED <<wireVars, hal>>

Reservable == state \in Uncertain /\ due = 0

Reserve(a) ==
  /\ at[a] = "idle"
  /\ Reservable
  /\ recovery' = a
  /\ due' = RetryDelay
  /\ Move(a, "reserved")
  /\ UNCHANGED <<state, valid, attempted, claim, lease, wireVars, hal>>

Read(a) ==
  /\ at[a] = "reserved"
  /\ Hear(a, "read", IF hal = "none" THEN "absent" ELSE hal)
  /\ UNCHANGED <<rowVars, wireVars, hal>>

ReadFails(a) ==
  /\ at[a] = "reserved"
  /\ Hear(a, "read", "error")
  /\ UNCHANGED <<rowVars, wireVars, hal>>

\* A lookup counts only while its token is the row's.
RecordRead(a) ==
  /\ at[a] = "read"
  /\ \/ recovery = a /\ state \in Uncertain /\ WriteOutcome(a)
     \/ ~(recovery = a /\ state \in Uncertain) /\ UNCHANGED rowVars
  /\ Leave(a)
  /\ UNCHANGED <<wireVars, hal>>

\* A request is cancelled, a process dies, a write fails.
Abandon(a) ==
  /\ at[a] # "idle"
  /\ Leave(a)
  /\ UNCHANGED <<rowVars, wireVars, hal>>

-----------------------------------------------------------------------------
\* HAL keys its operations with CMS's id.
HALReceives(a) ==
  /\ flight[a] > 0
  /\ flight' = [flight EXCEPT ![a] = 0]
  /\ hal' = IF hal = "none" THEN "PERSISTED" ELSE hal
  /\ UNCHANGED <<rowVars, actorVars, sends>>

\* The network drops a request, or HAL refuses it.
Lost(a) ==
  /\ flight[a] > 0
  /\ flight' = [flight EXCEPT ![a] = 0]
  /\ UNCHANGED <<rowVars, actorVars, sends, hal>>

HALProgress ==
  /\ hal \in {"PERSISTED", "RECONCILIATION_REQUIRED"}
  /\ hal' \in {"RECONCILIATION_REQUIRED", "OCPP_CONFIRMED"} \ {hal}
  /\ UNCHANGED <<rowVars, actorVars, wireVars>>

Less(n) == IF n = 0 THEN 0 ELSE n - 1

Tick ==
  /\ lease' = Less(lease)
  /\ due' = Less(due)
  /\ budget' = [a \in Actors |-> Less(budget[a])]
  /\ schedule' = [a \in Actors |-> Less(schedule[a])]
  /\ flight' = [a \in Actors |-> Less(flight[a])]
  /\ UNCHANGED <<state, valid, attempted, claim, recovery>>
  /\ UNCHANGED <<at, result, sends, hal>>

-----------------------------------------------------------------------------
\* What an actor does when nothing goes wrong.
Proceed(a) ==
  \/ ReleaseInvalid(a) \/ StartCall(a) \/ Mark(a) \/ LoseClaim(a)
  \/ MarkTooLate(a) \/ Send(a) \/ SendTooLate(a) \/ Answered(a)
  \/ CallFails(a) \/ Record(a) \/ Read(a) \/ RecordRead(a)

TakeUp(a) == Claim(a) \/ Reserve(a)

Disturbed(a) == ClaimFails(a) \/ MarkFails(a) \/ ReadFails(a) \/ Abandon(a)

Environment ==
  Admit \/ HALProgress \/ (\E a \in Actors : HALReceives(a) \/ Lost(a))

Next ==
  \/ \E a \in Actors : Proceed(a) \/ TakeUp(a) \/ Disturbed(a)
  \/ Environment
  \/ Tick

Spec == Init /\ [][Next]_vars

-----------------------------------------------------------------------------
\* A row that may have been delivered is never in the dispatch queue, and a
\* row has a claim exactly while it is claimed: what the CHECK and the trigger
\* of migration 70 refuse, the code never asks for.
DispatchCheck ==
  /\ state \in Unattempted \cup {"none"} <=> ~attempted
  /\ state = "DISPATCH_CLAIMED" <=> claim # NoActor

\* A physical command is sent to HAL at most once, whatever expires, dies or
\* fails, and however many handlers and workers have the row.
OneSend == sends <= 1

\* An operation that was recorded as absent never shows up at HAL: the request
\* cannot still be sent or be on its way when HAL is asked for it.
AbsenceIsFinal == state = "CONFIRMED_ABSENT" => hal = "none"

\* A recorded outcome is final: no late answer, transport error, lookup or
\* claim replaces it.
TerminalStays ==
  [][(state \in Terminal) => state' = state]_vars

\* What the properties rest on.
Delivering == {"marked", "sent", "answered"}

Quiet ==
  /\ attempted
  /\ \A a \in Actors : flight[a] = 0 /\ ~(at[a] = "marked" /\ budget[a] > 0)

Delivery ==
  /\ \A a \in Actors : at[a] = "marked" => sends = 0
  /\ \A a, b \in Actors :
       at[a] \in Delivering /\ a # b => at[b] \notin Delivering /\ flight[b] = 0
  /\ attempted \/ ( /\ sends = 0 /\ hal = "none"
                    /\ \A a \in Actors : flight[a] = 0 /\ at[a] \notin Delivering)

\* A lookup starts only after the last moment a request can reach HAL.
Grace ==
  /\ \A a \in Actors : flight[a] <= due
  /\ \A a \in Actors :
       at[a] = "marked" /\ budget[a] > 0 => budget[a] + Transit <= due
  /\ \A a \in Actors : at[a] = "answered" => flight[a] <= schedule[a]

Lookups ==
  /\ \A a \in Actors : at[a] \in {"reserved", "read"} => Quiet
  /\ \A a \in Actors : at[a] \in {"answered", "read"} => result[a] # "none"
  /\ \A a \in Actors : result[a] = "absent" => at[a] = "read" /\ hal = "none"
  /\ state = "CONFIRMED_ABSENT" => Quiet

IInv ==
  /\ TypeOK
  /\ DispatchCheck
  /\ OneSend
  /\ AbsenceIsFinal
  /\ Delivery
  /\ Grace
  /\ Lookups
=============================================================================
