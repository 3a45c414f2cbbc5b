------------------------------ MODULE Charging ------------------------------
(***************************************************************************)
(* The money and the occupancy of a charging session, from the customer's  *)
(* StartCharging request to the settlement of the wallet hold:             *)
(*   - the request handler (src/customerauth/charging.go), whose database  *)
(*     transactions and HAL calls are separate steps;                      *)
(*   - the HAL fact projections (src/customerauth/charging_facts.go);      *)
(*   - the reconciler (src/halops/operations.go), whose reads of HAL and   *)
(*     writes to the database are separate steps;                          *)
(*   - the HAL service and the charger behind it, which are not in the     *)
(*     repository and are modelled from how the code uses them.            *)
(*                                                                         *)
(* One database transaction is one action.  A member of Intents is one     *)
(* StartCharging request together with the rows it creates, each of them   *)
(* unique per start intent in the schema: intent, START command, wallet    *)
(* hold, and later the charging session and its payment.  The stop side of *)
(* an open session is in SessionStop; here OPEN stands for ACTIVE,         *)
(* STOP_PENDING, and RECONCILIATION_REQUIRED without an end_time.          *)
(***************************************************************************)
EXTENDS Integers, FiniteSets, FiniteSetsExt

CONSTANTS
  Intents,        \* the StartCharging requests
  Connectors,     \* the connectors they are made for
  Wallets,        \* the wallets of the customers who make them
  NoIntent,       \* no intent: what an idle reconciler works on
  Reconcilers,    \* the reconciler workers, one per CMS instance
  ConnectorOf,    \* the connector a request names
  WalletOf,       \* the wallet of the customer who makes it
  Nominals,       \* what tariff and limit may price a start at
  Usages,         \* what a completed transaction may cost
  InitialBalance, \* of every wallet
  MinBalance,     \* settings.WalletMinBalance
  Buffer,         \* settings.WalletBufferMinBalance
  MaxTopUps,      \* bound: top-ups of one wallet
  ChargerReplies, \* bound: how a charger may answer RemoteStart
  ReportedStates  \* bound: the command states HAL sends facts about

ASSUME ChargingAssumption ==
  /\ ConnectorOf \in [Intents -> Connectors]
  /\ WalletOf \in [Intents -> Wallets]
  /\ Nominals \subseteq Nat /\ Usages \subseteq Nat
  /\ InitialBalance \in Nat /\ MinBalance \in Nat /\ Buffer \in Nat
  /\ MaxTopUps \in Nat
  /\ NoIntent \notin Intents
  /\ ChargerReplies \subseteq {"OCPP_ACCEPTED", "OCPP_REJECTED"}
  /\ ReportedStates \subseteq {"PERSISTED", "OCPP_ACCEPTED", "OCPP_REJECTED"}

VARIABLES
  req,        \* where the handler of a request is
  resp,       \* the command state HAL's answer to it carried
  intent,     \* charging_start_intents.status
  command,    \* hal_command_records.state of the START command
  hold,       \* wallet_holds.status
  holdAmount, \* wallet_holds.amount
  releasedAt, \* wallet_holds.released_at is set
  session,    \* charging_sessions.status of the session of the intent
  paid,       \* a payments row and its wallet debit exist
  balance,    \* wallets.balance
  topUps,     \* how often a wallet was credited
  wire,       \* the START request on its way to HAL
  halCommand, \* HAL's durable command
  halTx,      \* the charger's transaction
  usage,      \* the price of the transaction, once completed
  outbox,     \* HAL's facts that CMS has not answered with 2xx or 4xx
  look        \* the item a reconciler works on and what it has read

requestVars == <<req, resp>>
startVars   == <<intent, command>>
moneyVars   == <<hold, holdAmount, releasedAt, paid, balance, topUps>>
cmsVars     == <<startVars, moneyVars, session>>
halVars     == <<wire, halCommand, halTx, usage>>
vars        == <<requestVars, cmsVars, halVars, outbox, look>>

-----------------------------------------------------------------------------
(* States.  REJECTED also stands for EXPIRED: the two differ only in the   *)
(* clock at the time of terminalization, and no code tells them apart.     *)

\* HAL's PENDING_DELIVERY, DELIVERY_ATTEMPTED, AMBIGUOUS and SUPERSEDED are
\* treated by CMS as PERSISTED is: evidence that the command exists.
HALStates == {"PERSISTED", "OCPP_ACCEPTED", "OCPP_REJECTED", "MATERIALIZED"}

RequestSteps  == {"idle", "admitted", "sent", "answered", "failed", "done"}
IntentStates  == {"none", "REQUESTED", "ACCEPTED_FOR_DELIVERY",
                  "PROTOCOL_ACKNOWLEDGED", "RECONCILIATION_REQUIRED",
                  "ACTUALLY_STARTED", "REJECTED"}
CommandStates == HALStates \cup {"none", "RECONCILIATION_REQUIRED",
                  "CONFIRMED_ABSENT", "NOT_ATTEMPTED"}
HoldStates    == {"none", "HELD", "RELEASED", "CAPTURED",
                  "RECONCILIATION_REQUIRED"}
\* ENDED: end_time set, status and settlement_status RECONCILIATION_REQUIRED.
SessionStates == {"none", "OPEN", "ENDED", "COMPLETED"}

CommandFact(i, s) == [type |-> "command.updated", intent |-> i, state |-> s]
StartedFact(i)    == [type |-> "transaction.started", intent |-> i,
                      state |-> "MATERIALIZED"]
CompletedFact(i)  == [type |-> "transaction.completed", intent |-> i,
                      state |-> "MATERIALIZED"]
Facts == [type : {"command.updated", "transaction.started",
                  "transaction.completed"},
          intent : Intents, state : HALStates]

LookSteps == {"command", "command_read", "command_failed",
              "start", "transaction_found", "transaction_absent",
              "found_command", "absent_command", "materialize", "mark",
              "finalize"}
\* A worker between two items; a looked-up state of "none" is HAL's 404.
Idle == [step |-> "idle", item |-> NoIntent, state |-> "none"]
Working(s, i) == [step |-> s, item |-> i, state |-> "none"]
Looks == {Idle} \cup
         [step : LookSteps, item : Intents, state : HALStates \cup {"none"}]

TypeOK ==
  /\ req \in [Intents -> RequestSteps]
  /\ resp \in [Intents -> HALStates \cup {"none"}]
  /\ intent \in [Intents -> IntentStates]
  /\ command \in [Intents -> CommandStates]
  /\ hold \in [Intents -> HoldStates]
  /\ holdAmount \in [Intents -> Nat]
  /\ releasedAt \in [Intents -> BOOLEAN]
  /\ session \in [Intents -> SessionStates]
  /\ paid \in [Intents -> BOOLEAN]
  /\ balance \in [Wallets -> Nat]
  /\ topUps \in [Wallets -> 0..MaxTopUps]
  /\ wire \in [Intents -> {"none", "inflight", "gone"}]
  /\ halCommand \in [Intents -> HALStates \cup {"none"}]
  /\ halTx \in [Intents -> {"none", "running", "completed"}]
  /\ usage \in [Intents -> Nat]
  /\ outbox \subseteq Facts
  /\ look \in [Reconcilers -> Looks]

Init ==
  /\ req = [i \in Intents |-> "idle"]
  /\ resp = [i \in Intents |-> "none"]
  /\ intent = [i \in Intents |-> "none"]
  /\ command = [i \in Intents |-> "none"]
  /\ hold = [i \in Intents |-> "none"]
  /\ holdAmount = [i \in Intents |-> 0]
  /\ releasedAt = [i \in Intents |-> FALSE]
  /\ session = [i \in Intents |-> "none"]
  /\ paid = [i \in Intents |-> FALSE]
  /\ balance = [w \in Wallets |-> InitialBalance]
  /\ topUps = [w \in Wallets |-> 0]
  /\ wire = [i \in Intents |-> "none"]
  /\ halCommand = [i \in Intents |-> "none"]
  /\ halTx = [i \in Intents |-> "none"]
  /\ usage = [i \in Intents |-> 0]
  /\ outbox = {}
  /\ look = [r \in Reconcilers |-> Idle]

-----------------------------------------------------------------------------
(* What the transactions query under their row locks.                      *)

Rivals(i) == {j \in Intents \ {i} : ConnectorOf[j] = ConnectorOf[i]}

\* chargingStartActiveStatuses
OpenStatuses == {"REQUESTED", "ACCEPTED_FOR_DELIVERY",
                 "PROTOCOL_ACKNOWLEDGED", "RECONCILIATION_REQUIRED"}

\* activeChargingStartIntent: an open, unmaterialized intent
OpenIntent(i) == intent[i] \in OpenStatuses /\ session[i] = "none"

\* activeChargingSession: chargingSessionOccupancyStatuses
OpenSession(i) == session[i] \in {"OPEN", "ENDED"}

Occupies(i) == OpenIntent(i) \/ OpenSession(i)

\* Mutant: the admission transaction does not look for sessions again.
FreeOfIntents(i) == \A j \in Rivals(i) : ~OpenIntent(j)

ConnectorIsFree(i) == \A j \in Rivals(i) : ~OpenIntent(j) /\ ~OpenSession(j)

\* Mutant: a hold that awaits reconciliation no longer counts.
OutstandingHeld(w) == {i \in Intents : WalletOf[i] = w /\ hold[i] = "HELD"}

\* outstandingWalletHolds
Outstanding(w) == {i \in Intents : /\ WalletOf[i] = w
                                   /\ hold[i] \in {"HELD", "RECONCILIATION_REQUIRED"}}

Reserved(w) == MapThenSumSet(LAMBDA i : holdAmount[i], Outstanding(w))

\* chargingHoldAmount: metered prices carry the wallet buffer once
HoldFor(nominal, sessionPriced) ==
  IF nominal = 0 \/ sessionPriced THEN nominal ELSE nominal + Buffer

-----------------------------------------------------------------------------
(* The handler of StartCharging.                                           *)

\* The admission transaction: connector and wallet are locked, both kinds of
\* occupancy and the wallet policy are checked again, and intent, hold and
\* command are created together.  The unlocked reads before it only refuse
\* requests earlier.
Admit(i) ==
  LET w == WalletOf[i]
      free == balance[w] - Reserved(w)
  IN  /\ req[i] = "idle"
      /\ ConnectorIsFree(i)
      /\ free >= MinBalance
      /\ free - Buffer > 0
      /\ \E nominal \in Nominals, sessionPriced \in BOOLEAN :
           /\ nominal <= free - Buffer
           /\ holdAmount' = [holdAmount EXCEPT ![i] = HoldFor(nominal, sessionPriced)]
      /\ intent' = [intent EXCEPT ![i] = "REQUESTED"]
      /\ command' = [command EXCEPT ![i] = "PERSISTED"]
      /\ hold' = [hold EXCEPT ![i] = "HELD"]
      /\ req' = [req EXCEPT ![i] = "admitted"]
      /\ UNCHANGED <<resp, releasedAt, session, paid, balance, topUps,
                     halVars, outbox, look>>

\* Mutant: the hold is released, the intent is left open.
ReleaseHoldOnly(i, terminal) ==
  /\ hold' = [hold EXCEPT ![i] = "RELEASED"]
  /\ command' = [command EXCEPT ![i] = terminal]
  /\ UNCHANGED <<intent, releasedAt, holdAmount, session, paid, balance, topUps>>

\* terminalizeStartCommand once its checks of command and intent passed
ReleaseHold(i, terminal) ==
  /\ hold' = [hold EXCEPT ![i] = "RELEASED"]
  /\ releasedAt' = [releasedAt EXCEPT ![i] = TRUE]
  /\ command' = [command EXCEPT ![i] = terminal]
  /\ intent' = [intent EXCEPT ![i] = "REJECTED"]
  /\ UNCHANGED <<holdAmount, session, paid, balance, topUps>>

\* The mapping is confirmed again after the commit; on failure the command
\* that was never sent is terminalized.
MappingFails(i) ==
  /\ req[i] = "admitted"
  /\ command[i] = "PERSISTED" /\ intent[i] = "REQUESTED"
  /\ session[i] = "none" /\ hold[i] = "HELD"
  /\ ReleaseHold(i, "NOT_ATTEMPTED")
  /\ req' = [req EXCEPT ![i] = "done"]
  /\ UNCHANGED <<resp, halVars, outbox, look>>

\* The mapping holds, RequestStart puts the request on the wire.
SendStart(i) ==
  /\ req[i] = "admitted"
  /\ req' = [req EXCEPT ![i] = "sent"]
  /\ wire' = [wire EXCEPT ![i] = "inflight"]
  /\ UNCHANGED <<resp, cmsVars, halCommand, halTx, usage, outbox, look>>

\* HAL's answer is in memory, not yet in the database.
StartAnswered(i) ==
  /\ req[i] = "sent"
  /\ halCommand[i] # "none"
  /\ req' = [req EXCEPT ![i] = "answered"]
  /\ resp' = [resp EXCEPT ![i] = halCommand[i]]
  /\ UNCHANGED <<cmsVars, halVars, outbox, look>>

\* A timeout, a transport error or an HTTP error: the outcome is unknown.
StartUnanswered(i) ==
  /\ req[i] = "sent"
  /\ req' = [req EXCEPT ![i] = "failed"]
  /\ UNCHANGED <<resp, cmsVars, halVars, outbox, look>>

\* The transaction that stores HAL's answer leaves a started, terminal or
\* reconciliation-required start alone.
AnswerIsStale(i) ==
  \/ intent[i] \in {"ACTUALLY_STARTED", "REJECTED", "RECONCILIATION_REQUIRED"}
  \/ session[i] # "none"
  \/ command[i] = "MATERIALIZED"

RecordAnswer(i) ==
  /\ req[i] = "answered"
  /\ IF AnswerIsStale(i)
     THEN UNCHANGED startVars
     ELSE /\ command' = [command EXCEPT ![i] = resp[i]]
          /\ intent' = [intent EXCEPT ![i] = IF resp[i] = "OCPP_ACCEPTED"
                                             THEN "PROTOCOL_ACKNOWLEDGED"
                                             ELSE "ACCEPTED_FOR_DELIVERY"]
  /\ req' = [req EXCEPT ![i] = "done"]
  /\ resp' = [resp EXCEPT ![i] = "none"]
  /\ UNCHANGED <<moneyVars, session, halVars, outbox, look>>

\* markHALStartCommandFailure looks at neither command nor intent state.
RecordFailure(i) ==
  /\ req[i] = "failed"
  /\ command' = [command EXCEPT ![i] = "RECONCILIATION_REQUIRED"]
  /\ intent' = [intent EXCEPT ![i] = "RECONCILIATION_REQUIRED"]
  /\ req' = [req EXCEPT ![i] = "done"]
  /\ UNCHANGED <<resp, moneyVars, session, halVars, outbox, look>>

\* The process dies, the transaction fails, or the client goes away: the
\* handler works on the request's context, so its next call is not made.
Abandon(i) ==
  /\ req[i] \in {"admitted", "sent", "answered", "failed"}
  /\ req' = [req EXCEPT ![i] = "done"]
  /\ resp' = [resp EXCEPT ![i] = "none"]
  /\ UNCHANGED <<cmsVars, halVars, outbox, look>>

\* A recharge credits the wallet.
TopUp(w) ==
  /\ topUps[w] < MaxTopUps
  /\ topUps' = [topUps EXCEPT ![w] = @ + 1]
  /\ balance' = [balance EXCEPT ![w] = @ + 1]
  /\ UNCHANGED <<requestVars, startVars, hold, holdAmount, releasedAt, paid,
                 session, halVars, outbox, look>>

-----------------------------------------------------------------------------
(* HAL and the charger, from how CMS uses them.                            *)

Publish(f) == outbox' = outbox \cup {f}
PublishCommand(i, s) ==
  IF s \in ReportedStates THEN Publish(CommandFact(i, s)) ELSE UNCHANGED outbox

HALReceivesStart(i) ==
  /\ wire[i] = "inflight"
  /\ wire' = [wire EXCEPT ![i] = "gone"]
  /\ halCommand' = [halCommand EXCEPT ![i] = "PERSISTED"]
  /\ PublishCommand(i, "PERSISTED")
  /\ UNCHANGED <<requestVars, cmsVars, halTx, usage, look>>

StartLost(i) ==
  /\ wire[i] = "inflight"
  /\ wire' = [wire EXCEPT ![i] = "gone"]
  /\ UNCHANGED <<requestVars, cmsVars, halCommand, halTx, usage, outbox, look>>

ChargerAnswers(i) ==
  /\ halCommand[i] = "PERSISTED"
  /\ \E s \in ChargerReplies :
       /\ halCommand' = [halCommand EXCEPT ![i] = s]
       /\ PublishCommand(i, s)
  /\ UNCHANGED <<requestVars, cmsVars, wire, halTx, usage, look>>

\* One transaction runs on a connector at a time.
TransactionStarts(i) ==
  /\ halCommand[i] \in {"PERSISTED", "OCPP_ACCEPTED"}
  /\ \A j \in Rivals(i) : halTx[j] # "running"
  /\ halTx' = [halTx EXCEPT ![i] = "running"]
  /\ halCommand' = [halCommand EXCEPT ![i] = "MATERIALIZED"]
  /\ Publish(StartedFact(i))
  /\ UNCHANGED <<requestVars, cmsVars, wire, usage, look>>

TransactionCompletes(i) ==
  /\ halTx[i] = "running"
  /\ halTx' = [halTx EXCEPT ![i] = "completed"]
  /\ \E u \in Usages : usage' = [usage EXCEPT ![i] = u]
  /\ Publish(CompletedFact(i))
  /\ UNCHANGED <<requestVars, cmsVars, wire, halCommand, look>>

-----------------------------------------------------------------------------
(* Transactions shared by the fact ingress and the reconciler.             *)

\* materializeAuthoritativeStart.  A start that CMS has terminalized is only
\* marked for reconciliation: its hold stays released.  The unique index on
\* open intents of a connector can refuse that.
LateStart(i) ==
  /\ intent[i] = "REJECTED"
  /\ \A j \in Rivals(i) : ~OpenIntent(j)
  /\ command' = [command EXCEPT ![i] = "RECONCILIATION_REQUIRED"]
  /\ intent' = [intent EXCEPT ![i] = "RECONCILIATION_REQUIRED"]
  /\ UNCHANGED session

AlreadyStarted(i) ==
  /\ session[i] # "none"
  /\ UNCHANGED <<startVars, session>>

\* The unique index on occupying sessions of a connector can refuse it.
StartSession(i) ==
  /\ OpenIntent(i)
  /\ \A j \in Rivals(i) : ~OpenSession(j)
  /\ session' = [session EXCEPT ![i] = "OPEN"]
  /\ command' = [command EXCEPT ![i] = "MATERIALIZED"]
  /\ intent' = [intent EXCEPT ![i] = "ACTUALLY_STARTED"]

MaterializeStart(i) == LateStart(i) \/ AlreadyStarted(i) \/ StartSession(i)

\* A unique violation rolls the transaction back.
StartBlocked(i) ==
  \/ intent[i] = "REJECTED" /\ \E j \in Rivals(i) : OpenIntent(j)
  \/ OpenIntent(i) /\ \E j \in Rivals(i) : OpenSession(j)

\* Mutant: a debit is checked against the balance alone.
OverBalance(i) == ~paid[i] /\ usage[i] > balance[WalletOf[i]]

\* settleCompletedSession: a debit needs to fit the hold and the balance;
\* what is already paid, or cost nothing, completes without one.
NeedsReconciliation(i) ==
  /\ ~paid[i]
  /\ usage[i] > holdAmount[i] \/ usage[i] > balance[WalletOf[i]]

Settle(i) ==
  IF NeedsReconciliation(i)
  THEN /\ hold' = [hold EXCEPT ![i] = "RECONCILIATION_REQUIRED"]
       /\ session' = [session EXCEPT ![i] = "ENDED"]
       /\ UNCHANGED <<paid, balance>>
  ELSE /\ hold' = [hold EXCEPT ![i] = "CAPTURED"]
       /\ session' = [session EXCEPT ![i] = "COMPLETED"]
       /\ paid' = [paid EXCEPT ![i] = @ \/ usage[i] > 0]
       /\ balance' = IF paid[i] THEN balance
                     ELSE [balance EXCEPT ![WalletOf[i]] = @ - usage[i]]

\* finalizeAuthoritativeCompletion: a COMPLETED session is left alone, any
\* other is ended and settled in the same transaction.
Finalize(i) ==
  /\ IF session[i] = "COMPLETED"
     THEN UNCHANGED <<hold, session, paid, balance>>
     ELSE Settle(i)
  /\ UNCHANGED <<startVars, holdAmount, releasedAt, topUps>>

-----------------------------------------------------------------------------
(* HAL facts.  Each is delivered in any order or never.  A fact leaves the *)
(* outbox with the transaction that stores its receipt, or with a 4xx; a   *)
(* rolled back transaction answers 500 and leaves it there.                *)

Receipt(f) == outbox' = outbox \ {f}

ApplyCommandFact(i, s) ==
  /\ CommandFact(i, s) \in outbox
  /\ command' = [command EXCEPT ![i] = IF @ = "MATERIALIZED" THEN @ ELSE s]
  /\ Receipt(CommandFact(i, s))
  /\ UNCHANGED <<requestVars, intent, moneyVars, session, halVars, look>>

ApplyStartedFact(i) ==
  /\ StartedFact(i) \in outbox
  /\ MaterializeStart(i)
  /\ Receipt(StartedFact(i))
  /\ UNCHANGED <<requestVars, moneyVars, halVars, look>>

\* Without a session the fact is refused with a 400 and not sent again.
ApplyCompletedFact(i) ==
  /\ CompletedFact(i) \in outbox
  /\ IF session[i] = "none" THEN UNCHANGED cmsVars ELSE Finalize(i)
  /\ Receipt(CompletedFact(i))
  /\ UNCHANGED <<requestVars, halVars, look>>

-----------------------------------------------------------------------------
(* The reconciler.  It lists rows, asks HAL, and writes: three steps, with *)
(* everything else in between.  An error returned ends its pass.           *)

At(r, step) == look[r].step = step
Goto(r, step)    == look' = [look EXCEPT ![r].step = step]
GoIdle(r)        == look' = [look EXCEPT ![r] = Idle]

ListCommand(r, i) ==
  /\ At(r, "idle")
  /\ command[i] = "RECONCILIATION_REQUIRED"
  /\ look' = [look EXCEPT ![r] = Working("command", i)]
  /\ UNCHANGED <<requestVars, cmsVars, halVars, outbox>>

\* GetCommand: what HAL has under the CMS command id, or its 404
ReadCommand(r) ==
  /\ At(r, "command")
  /\ look' = [look EXCEPT ![r].step = "command_read",
                          ![r].state = halCommand[look[r].item]]
  /\ UNCHANGED <<requestVars, cmsVars, halVars, outbox>>

CommandLookupFails(r) ==
  /\ At(r, "command")
  /\ Goto(r, "command_failed")
  /\ UNCHANGED <<requestVars, cmsVars, halVars, outbox>>

\* The update of ReconcileCommand names the command and nothing else.
WriteCommand(r) ==
  /\ At(r, "command_read") /\ look[r].state # "none"
  /\ command' = [command EXCEPT ![look[r].item] = look[r].state]
  /\ GoIdle(r)
  /\ UNCHANGED <<requestVars, intent, moneyVars, session, halVars, outbox>>

RecordLookupFailure(r) ==
  /\ At(r, "command_failed")
  /\ command' = [command EXCEPT ![look[r].item] = "RECONCILIATION_REQUIRED"]
  /\ GoIdle(r)
  /\ UNCHANGED <<requestVars, intent, moneyVars, session, halVars, outbox>>

\* Mutant: whatever HAL does not know is terminalized.
AnyAdmitted(i) == intent[i] # "none"

\* The checks of terminalizeStartCommand before it touches the hold
Unmaterialized(i) ==
  /\ command[i] = "RECONCILIATION_REQUIRED"
  /\ intent[i] = "RECONCILIATION_REQUIRED"
  /\ session[i] = "none"

\* ReconcileConfirmedAbsentStartCommand: only a HELD hold is released; a
\* RELEASED one means there is nothing left to do.
HandleAbsent(r) ==
  LET i == look[r].item
  IN  /\ At(r, "command_read") /\ look[r].state = "none"
      /\ IF Unmaterialized(i) /\ hold[i] = "HELD"
         THEN ReleaseHold(i, "CONFIRMED_ABSENT")
         ELSE UNCHANGED cmsVars
      /\ GoIdle(r)
      /\ UNCHANGED <<requestVars, halVars, outbox>>

StrandedStatuses == OpenStatuses \ {"REQUESTED"}

\* reconcileStrandedStarts; the age of the intent is not modelled
ListStranded(r, i) ==
  /\ At(r, "idle")
  /\ intent[i] \in StrandedStatuses /\ session[i] = "none"
  /\ look' = [look EXCEPT ![r] = Working("start", i)]
  /\ UNCHANGED <<requestVars, cmsVars, halVars, outbox>>

\* GetTransactionByStartIntent
ReadTransaction(r) ==
  /\ At(r, "start")
  /\ Goto(r, IF halTx[look[r].item] = "none" THEN "transaction_absent"
                                             ELSE "transaction_found")
  /\ UNCHANGED <<requestVars, cmsVars, halVars, outbox>>

\* Mutant: a command HAL knows is taken for a transaction.
StartIsKnown(r) == "found_command"

StepAfterCommand(r) ==
  IF At(r, "transaction_found") THEN "found_command" ELSE "absent_command"

\* The GetCommand that follows; HAL's 404 is an error here, and an error
\* marks the intent.
ReadItsCommand(r) ==
  LET known == halCommand[look[r].item]
  IN  /\ look[r].step \in {"transaction_found", "transaction_absent"}
      /\ IF known = "none"
         THEN Goto(r, "mark")
         ELSE look' = [look EXCEPT ![r].step = StepAfterCommand(r),
                                 ![r].state = known]
      /\ UNCHANGED <<requestVars, cmsVars, halVars, outbox>>

StrandedLookupFails(r) ==
  /\ look[r].step \in {"start", "transaction_found", "transaction_absent"}
  /\ Goto(r, "mark")
  /\ UNCHANGED <<requestVars, cmsVars, halVars, outbox>>

WriteItsCommand(r) ==
  /\ look[r].step \in {"found_command", "absent_command"}
  /\ command' = [command EXCEPT ![look[r].item] = look[r].state]
  /\ Goto(r, IF At(r, "found_command") THEN "materialize" ELSE "mark")
  /\ UNCHANGED <<requestVars, intent, moneyVars, session, halVars, outbox>>

ReconcileStart(r) ==
  LET i == look[r].item
  IN  /\ At(r, "materialize")
      /\ \/ MaterializeStart(i)
         \/ StartBlocked(i) /\ UNCHANGED <<startVars, session>>
      /\ GoIdle(r)
      /\ UNCHANGED <<requestVars, moneyVars, halVars, outbox>>

\* markStartReconciliation
MarkStart(r) ==
  LET i == look[r].item
  IN  /\ At(r, "mark")
      /\ command' = [command EXCEPT ![i] =
                       IF @ = "MATERIALIZED" THEN @ ELSE "RECONCILIATION_REQUIRED"]
      /\ intent' = [intent EXCEPT ![i] =
                      IF @ \in StrandedStatuses /\ session[i] = "none"
                      THEN "RECONCILIATION_REQUIRED" ELSE @]
      /\ GoIdle(r)
      /\ UNCHANGED <<requestVars, moneyVars, session, halVars, outbox>>

\* Mutant: only sessions whose START command is recorded as materialized.
ReadMaterialized(r, i) ==
  /\ At(r, "idle")
  /\ session[i] = "OPEN" /\ halTx[i] = "completed"
  /\ command[i] = "MATERIALIZED"
  /\ look' = [look EXCEPT ![r] = Working("finalize", i)]
  /\ UNCHANGED <<requestVars, cmsVars, halVars, outbox>>

\* reconcileMaterializedSessions: an exact read that shows completion
ReadCompletion(r, i) ==
  /\ At(r, "idle")
  /\ session[i] = "OPEN" /\ halTx[i] = "completed"
  /\ look' = [look EXCEPT ![r] = Working("finalize", i)]
  /\ UNCHANGED <<requestVars, cmsVars, halVars, outbox>>

MaterializeCompletion(r) ==
  /\ At(r, "finalize")
  /\ Finalize(look[r].item)
  /\ GoIdle(r)
  /\ UNCHANGED <<requestVars, halVars, outbox>>

\* ReconcileCompletedSettlements: it locks the session and checks again
ReconcileSettlement(r, i) ==
  /\ At(r, "idle")
  /\ session[i] = "ENDED"
  /\ Settle(i)
  /\ UNCHANGED <<requestVars, startVars, holdAmount, releasedAt, topUps,
                 halVars, outbox, look>>

\* The process stops between two steps, or an error ends the pass.
ReconcilerStops(r) ==
  /\ ~At(r, "idle")
  /\ GoIdle(r)
  /\ UNCHANGED <<requestVars, cmsVars, halVars, outbox>>

-----------------------------------------------------------------------------
Handler(i) ==
  \/ Admit(i) \/ MappingFails(i) \/ SendStart(i) \/ StartAnswered(i)
  \/ StartUnanswered(i) \/ RecordAnswer(i) \/ RecordFailure(i) \/ Abandon(i)

HAL(i) ==
  \/ HALReceivesStart(i) \/ StartLost(i) \/ ChargerAnswers(i)
  \/ TransactionStarts(i) \/ TransactionCompletes(i)

FactIngress(i) ==
  \/ \E s \in ReportedStates : ApplyCommandFact(i, s)
  \/ ApplyStartedFact(i) \/ ApplyCompletedFact(i)

WorkOn(r) ==
  \/ ReadCommand(r) \/ WriteCommand(r) \/ RecordLookupFailure(r)
  \/ HandleAbsent(r) \/ ReadTransaction(r) \/ ReadItsCommand(r)
  \/ WriteItsCommand(r) \/ ReconcileStart(r) \/ MarkStart(r)
  \/ MaterializeCompletion(r)

Disturbed(r) ==
  CommandLookupFails(r) \/ StrandedLookupFails(r) \/ ReconcilerStops(r)

Reconcile(r) ==
  \/ \E i \in Intents : \/ ListCommand(r, i) \/ ListStranded(r, i)
                        \/ ReadCompletion(r, i) \/ ReconcileSettlement(r, i)
  \/ WorkOn(r)

Work ==
  \/ \E i \in Intents : Handler(i) \/ HAL(i) \/ FactIngress(i)
  \/ \E r \in Reconcilers : Reconcile(r)
  \/ \E w \in Wallets : TopUp(w)

Next == Work \/ \E r \in Reconcilers : Disturbed(r)

Spec == Init /\ [][Next]_vars

-----------------------------------------------------------------------------
(* Safety.                                                                 *)

\* Two starts whose holds were never given back do not both occupy a
\* connector, be it with an open intent or with an unsettled session: the
\* admission re-check under the connector lock and every later transition
\* keep it, whatever the handlers, the facts and the reconciler interleave.
\* A start that HAL carried out after CMS released its hold is left out: the
\* code itself lets it join another one.
SingleOccupant ==
  \A i \in Intents : \A j \in Rivals(i) :
    Occupies(i) /\ Occupies(j) => releasedAt[i] \/ releasedAt[j]

\* Money is reserved exactly as long as the start it is reserved for holds
\* its connector: no hold leaks when a start is rejected or settled, and no
\* start proceeds without one unless its hold had been released before HAL
\* reported it (terminalizeStartCommand, settleCompletedSession).
HoldTracksOccupancy ==
  \A i \in Intents :
    /\ hold[i] \in {"HELD", "RECONCILIATION_REQUIRED"} => Occupies(i)
    /\ Occupies(i) /\ ~releasedAt[i] =>
         hold[i] \in {"HELD", "RECONCILIATION_REQUIRED"}

\* CMS invents neither a session nor its end: a session exists only for a
\* transaction of the charger, and is ended only when that completed, though
\* both may be learnt from reads of HAL that are stale when they are used.
NoFabricatedSession ==
  \A i \in Intents :
    /\ session[i] # "none" => halTx[i] # "none"
    /\ session[i] \in {"ENDED", "COMPLETED"} => halTx[i] = "completed"

\* The reservations of a wallet never exceed its balance by more than what
\* was debited for starts whose reservation had already been given back.
FundsCovered ==
  \A w \in Wallets :
    LET ours == {i \in Intents : WalletOf[i] = w}
        late == {i \in ours : releasedAt[i] /\ paid[i]}
    IN  MapThenSumSet(LAMBDA i : holdAmount[i],
                      {i \in ours : hold[i] \in {"HELD", "RECONCILIATION_REQUIRED"}
                                     /\ ~releasedAt[i]})
          <= balance[w] + MapThenSumSet(LAMBDA i : usage[i], late)

\* A hold is given back only to a start that has no session and that CMS
\* terminalizes in the same transaction, whatever HAL did since the lookup
\* that reported it absent.
ReleasedOnlyUnstarted ==
  [][\A i \in Intents :
       hold[i] # "RELEASED" /\ hold'[i] = "RELEASED" =>
         session'[i] = "none" /\ intent'[i] = "REJECTED"]_vars

-----------------------------------------------------------------------------
(* The wallet ledger this implements: a start is billed when its session   *)
(* completes, and released reservations stay open to a late start.         *)

Bills ==
  [i \in Intents |-> IF session[i] = "COMPLETED" THEN "settled"
                     ELSE IF intent[i] = "none" THEN "none" ELSE "open"]
Charges == [i \in Intents |-> IF paid[i] THEN usage[i] ELSE 0]

Ledger == INSTANCE WalletLedger WITH
  funds <- balance, credits <- topUps, cap <- holdAmount,
  bill <- Bills, charged <- Charges

\* Every start is billed at most once, when its session completes, within
\* the amount it was admitted with and the balance: facts, recovery reads
\* and settlement retries of one session debit the wallet once.
ImplementsLedger == Ledger!Spec

=============================================================================
