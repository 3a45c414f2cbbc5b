# Verification of the EV CMS backend

TLA+ models of the protocols in this repository that several actors carry out
together: the CMS (this Go code, its PostgreSQL transactions, its workers), the
HAL (the service that talks OCPP to the chargers; not in the repository), the
chargers, the payment provider, the mail server, the staff of operators and
their customers. TLC checks the models on small instances, TLAPS proves the
theorems listed in section 6 for every instance.

Paths below are relative to `src/src/`, unless they begin with `docs/` or `db/`.

## 1. The system

| Component | State it keeps | Operations | What is hard | Correct when |
|---|---|---|---|---|
| Charging start, hold, settlement (`customerauth/charging.go`, `charging_facts.go`, `halops/operations.go`) | `charging_start_intents`, `hal_command_records`, `wallet_holds`, `charging_sessions`, `payments`, `wallets` | StartCharging, facts, four passes of the reconciler | handler, facts and reconcilers interleave; reads of HAL are stale when used; facts are lost or reordered | one occupant per connector; holds live as long as occupancy; one debit per session within hold and balance; stranded work is recovered |
| Stop commands (`charging.go`, `charging_stop_reconciliation.go`) | STOP command record, session status | StopCharging, 404 and failure reconciliation | a stop races the completion it causes | a stop never ends or revives a session |
| HAL fact ingress (`halops/facts.go`) | `hal_fact_receipts` | Accept | duplicates, concurrent deliveries, altered content | one effect per fact; a fact that is delivered again and again is accepted |
| Reconciliation pass (`halops/operations.go`) | `charging_reconciliation_cursors` | ReconcilePending and its parts | an error ends a pass; several instances share the cursor | every row is reached |
| Live state (`charging_facts.go`, `liveops/live.go`) | `hal_charger_runtimes`, `hal_connector_runtimes`, readings of the session | connection, connector, meter and SoC facts, projection | out-of-order observations, staleness | readings of a session never go back; what is shown is what the rows say |
| Operational events, SSE (`operationalrealtime`) | `operational_events` | emit, list, poll, heartbeat | a cursor over ids of concurrent transactions | a change is shown or will be told |
| Price and limits (`tariff_calculation.go`, `charging.go`, `commercial/session_amount.go`) | none | pure functions | rounding | what is held pays for a session up to its limits |
| Wallet recharge (`razorpay.go`) | `wallet_recharge_orders`, `_payments`, `wallet_transactions` | create order, verify | crash between provider and database, retries with one key | one order per key, one credit per payment |
| Charger operations (`cpo/charger_operations*.go`) | `charger_operations` with lease and attempt | request, dispatch, reconcile, recover | lease expiry and crashes around the marker, late answers | sent at most once, absence and outcome are final, every operation ends |
| Mail outbox (`mail/outbox.go`, `superadmin/mail.go`) | `mail_outbox` with status and lease | enqueue, claim, send, complete, fail, retry, cancel, reconcile | crash and slow workers | SENT means accepted; a duplicate needs a fault; a job ends |
| Subscriptions (`subscriptions`) | plans, `cpo_subscriptions`, history, lifecycle events | transitions, renewals, worker, admission of customers | workers, administrators and retries race | the history explains the status, one notice per threshold |
| Operator authentication (`auth`, `superadmin`) | users, challenges, sessions, refresh tokens | login, codes, refresh, logout, reset, change, administrators | requests on one account overlap | codes and tokens work once; no session outlives a password; an administrator remains |
| Customer authentication (`customerauth/service.go`, `authentication.go`, `sessions.go`, `password.go`) | customers, their challenges, sessions, tokens | the same, and sign-up | the same, with other lock orders | the same; an account has the password that was asked for |
| Rate limits (both) | one row per client and action | one upsert | window and block end at different times | a block holds; two windows' worth at most |
| Invoices (`invoice/service.go`) | invoices, number sequence, files, deliveries | discover, issue, generate, publish, deliver, recover | crashes and slow workers between file, row and mail | consecutive numbers, READY is published, one mail per delivery queued |
| Hubs, chargers, tariffs, tax profiles (`cpo/service.go`, `commercial/`) | the rows of the same names | create, change, assign, publish, delete | each request is valid alone; locks of many rows | what customers see can be sold at one price; few requests can deadlock |
| Operators and staff (`cpo/service.go`, `auth/cpo_access.go`) | operators, identities, memberships | provision, replace the primary administrator, suspend, delegate | unlocked reads before a transaction | one primary administrator, one identity per person |
| Lists (everywhere) | none | pages with keyset cursors | rows change while a reader reads | no row that stayed is missed or shown twice |
| Support tickets (`support`) | tickets, messages, events, notices | create, reply, set status | both sides and retries at once | status, history and notices tell one story |
| Charging traces (`chargingtrace`, `*/charging_trace.go`) | trace roots, events | ingest, append, open, follow, classify | events out of order, sequence numbers before commits | a trace that is followed is whole; its verdict is true |
| Platform operations, integrations, the rest of administration, routers, schemas, configuration | rows of their own | single validated transactions, CRUD, I/O | little | - |

The parts talk through the database (row locks, unique indexes), through calls
to HAL (start, stop, mapping, exact reads by id) and through HAL's fact
deliveries. HAL delivers a fact until CMS answers 2xx or 4xx; order is not
promised. A call of CMS to HAL may be lost, may arrive late, and its answer may
be lost. Every CMS instance runs the workers, so each of them exists several
times.

## 2. Modules

| Module | Models | Used by |
|---|---|---|
| `Charging` | a start from request to settlement | everything on charging |
| `ChargingRecovery` | `Charging` plus an outage that ends | liveness |
| `WalletLedger` | the abstract promise: one bill per start, within what it was admitted with | `Charging` refines it |
| `ReconcilePass` | the order of a reconciler's pass, its batches and its cursor | `MCChargingRecovery` |
| `Pricing` | bounds, hold and bill of one session | `MCAdministration` |
| `SessionStop`, `SessionStopRecovery` | the stop commands of one session, and the completion they race; with an outage that ends | liveness |
| `WalletRecharge`, `WalletRechargeRecovery` | order and verification of recharges with the payment provider; with an outage that ends | liveness |
| `RechargeLedger` | the abstract promise: captured money, one amount for a key, is credited at most once | `WalletRecharge` refines it |
| `ChargerOperations`, `ChargerOperationsRecovery` | dispatch and lookup of one durable operation, with its lease and deadlines; with an outage that ends | liveness |
| `LiveState` | facts, receipts, rows, events and one live stream | `MCLiveState` |
| `MailOutbox` | mail jobs, workers and the administrator's commands | `MCCommunications` |
| `Subscriptions` | plans, subscriptions, lifecycle workers, admission | `MCSubscriptions` |
| `AdminAccess` | login, sessions and authority of staff and platform administrators | `MCAccess` |
| `CustomerSignup`, `CustomerAccess` | the same for customers | `MCAccess` |
| `RateLimit` | the rate limit of one client and action | `MCAccess` |
| `Invoicing` | the invoice worker's three phases | - |
| `HubConfiguration` | what an operator sells, lock by lock | `MCAdministration` |
| `Tenancy` | operators, their staff, delegation, lock by lock | `MCAdministration` |
| `Paging` | the lists and their cursors | `MCCommunications` |
| `Support` | one ticket between its raiser and a desk | `MCCommunications` |
| `ChargingTrace` | the events of one trace and a reader who follows it | `MCCommunications` |
| `Charging_proofs`, `WalletRecharge_proofs`, `ChargerOperations_proofs`, `Communications_proofs`, `Billing_proofs`, `LiveState_proofs`, `Access_proofs`, `Administration_proofs` | theorems (of `SessionStop` in `ChargerOperations_proofs`, of `Invoicing` and `Subscriptions` in `Billing_proofs`) | TLAPS |
| `MC*` | instances for TLC | runs |

Three MC modules put parts side by side that share no row (`MCAccess`,
`MCAdministration`, `MCCommunications`), and one puts the pass beside the item
(`MCChargingRecovery`). A behaviour is one part's, as `part` says from the
initial state on: the state spaces add up and do not multiply, and each part is
a module of its own with its own specification. Components that do share state
are one module: `Charging` has the wallet, the handler, the facts and the
reconciler; `LiveState` has ingress, projection, events and stream; `Invoicing`
has numbers, files and mail.

A definition whose comment begins with "Mutant" is a plausible bug that the
definition below it does not have; no specification uses it. A variable called a
history is not in the code and no guard reads it.

### Charging

One member of `Intents` is one StartCharging request together with the rows it
creates; the schema makes each of them unique per start intent. One database
transaction is one action, because every transaction of this code locks the
rows it reads (`FOR UPDATE`) before it decides; calls to HAL and everything the
code does between two transactions are separate steps. So a handler is
`Admit` (the admission transaction, charging.go:403-513), `MappingFails` or
`SendStart`, `StartAnswered` or `StartUnanswered` (the answer is in memory),
`RecordAnswer` or `RecordFailure` (the second transaction), with `Abandon`
wherever the request context can be cancelled. The reconciler's variable `look`
holds the row a worker took up and what it read from HAL, so that everything
else happens between the list, the read and the write.

HAL and charger are external: they store the command, carry it out at any time
or never, and publish facts; a fact leaves `outbox` when CMS accepted or
refused it. Facts and requests need not arrive: no action of HAL is fair.

Abstractions: prices are chosen from `Nominals` and `Usages`; ids, credentials,
tariffs, traces and operational events are left out; EXPIRED is REJECTED; HAL's
undelivered command states are PERSISTED, as the code treats them. `OPEN` is
ACTIVE, STOP_PENDING or RECONCILIATION_REQUIRED without an end; `ENDED` is a
session with an end that is not settled.

### ReconcilePass

`ChargingRecovery` assumes that a row which stays listed is worked on in the
end; `ReconcilePass` shows it of the code's passes. `pass[w]` is the phase of a
worker's pass and the rest of its batch: stranded starts oldest first
(`ListStarts`), then a batch of open sessions behind the durable cursor that
all instances share (`ClaimSessions`, one transaction, which moves the cursor
past the whole batch), then the settlements that failed (`ListEnded`). `Batch`
is the circular selection of nextMaterializedSessionReconciliationIDs.
`StartWithTransaction` has the error that ends a pass: another session holds the
connector. `LookupFails` is noted and the pass goes on; `PassEnds` is every
error that ends it and every worker that dies with its batch.

What a step does to an item is in `Charging`; the race between reading HAL and
storing is there, so that here they are one step. The phases of mappings and
commands are one step that can end the pass. The two minutes a start must be
old, and the times of `updated_at`, are the order of the queues. `Contested`
starts and `Unfunded` sessions are fixed, and their trouble ends once.

### Pricing

One session from admission to settlement: `StartCharging` derives the bounds of
energy and time from the balance, the customer's limit and the tariff, and the
hold from the bounds; `CompleteSession` bills what was used and settles it if
the hold covers it. Arithmetic is in integers, with the roundings of the code:
amounts to hundredths, and the two quotients that do not come out even (minutes,
and budget by price) to `Precision` (16 digits). The loop of `AffordableBound` only
goes down from the quotient, so that a bound may be one unit less than the
budget pays: 19 s at 3.0000 a minute for 1.00, which pays 20 s. Rates of tax are
whole percents.
Idle fees are 0 (nothing sets them), and the legacy snapshot forms that
admission does not write are left out. In the instance a price is for 12 units, half
a hundredth of money is its unit and a quotient has 2 digits, so that the same
roundings occur at small numbers, the short bound among them (60 units at price 1
with 18 percent for 3, which pays 61).

### SessionStop

A member of `Stops` is a StopCharging call that found the session ACTIVE, with
the command it creates: `ReadActive`, `CreateStop` (the transaction of
charging.go:1023-1053), `SendStop`, the answer or its failure, `StoreAnswer` and
`ApplyAnswer`, which are two transactions. A call that finds the session
STOP_PENDING does not create a command but looks the newest one up; it has the
same steps as a reconciler that lists a RECONCILIATION_REQUIRED command, so
both are workers with a `look`: read HAL, `WriteCommand`, `ApplyState`, or on a
404 `ApplyAbsence`. They differ in the failure of the read: for a customer it
also writes the session.

The charger completes its transaction when it likes, asked or not; `EndSession`
is the settlement of `Charging`, reduced to the end of the session.

### ChargerOperations

One row, and any number of request handlers and recovery workers that run the
same code on it. A dispatch is `Claim` (the lease), `ReleaseInvalid` or
`StartCall` (the deadline starts), `Mark` (the marker is committed), `Send`, the
answer or its failure, and `Record`; a lookup is `Reserve`, `Read` and
`RecordRead`. `LoseClaim`, `MarkTooLate`, `SendTooLate`, `MarkFails` (the commit
may or may not have happened), `ClaimFails`, `ReadFails` and `Abandon` are the
ways out. Time is counted down by `Tick`: lease, delay, deadlines and requests on
the network end. The worker's selection of due rows is left out, as each
operation decides again on the locked row. `Transit`, how long the network may
deliver a request after its call ended, is external: the code chooses a retry
delay of a minute for a call of 15 s and so leaves 45 s to it.

### WalletRecharge

A member of `Requests` is one call of CreateWalletRechargeOrder: `AskForOrder`
(the row of its key is read, and decides), `InsertOrder` (the unique index
decides again), `CallProvider`, then `OrderAnswered`, `StoreOrder`, `TellOrder`,
or `OrderFails` and `MarkFailed`. A verification is `LoadOrder`, `FetchPayment`
and one transaction, `CreditCaptured` or `StoreUncaptured`; what was loaded and
fetched is stale by then. Signatures, credentials and snapshots are left out:
`payment` has only payments the provider signed.

The provider is external. It may create an order whose answer is lost, and it
captures at most one payment for an order, as orders with `partial_payment`
false are paid in full. The properties need that: CMS credits one payment of an
order, whatever it is told of others.

### LiveState

One charger, one connector and one session, and what one user sees of them. A
fact is a position in one of four streams of observations. A request of HAL is
`Deliver` (the receipt is looked up), `ReadRow`, `WriteRow` and `Commit`, since
another request can come between two of these statements: the runtime rows are
read without a lock, the session `FOR UPDATE`. `InsertFails` and `ReceiptTaken`
are the unique keys that undo the second of two. An event gets its id in
`WriteRow` and is seen after `Commit`, so that ids become visible out of order;
what a rollback takes out of the log is the one event its handler has in it
(`OwnEvent`).

The stream is `Open` (the watermark), `Show` (the snapshot, or a refresh),
`Poll` and `Heartbeat`. `Projection` is liveops/live.go: connection, connector
and session with what is derived from their age. `aged` stands for the clock:
observations up to a position have become stale. Events nobody will read any
more are forgotten by the model (`UpdateLog`), as retention does later. The
session exists from the start, and projecting is one step although it reads two
tables. HAL is external: it delivers what it likes, in any order, with any
content. Two more checks by which the code skips a fact are left out: a SoC observed
no later than the stored one (charging_facts.go:495) and a meter below the start
of the session (:461).

### MailOutbox

`Claim` is the selecting update of processOne, `Send` hands the mail to the SMTP
server (which takes it or not, and tells so or not), `MarkSent` and `FailJob`
are the updates that follow, each guarded by the status only: the code has no
fencing token. `Ripen` is the time that has to pass, of `retryDelay` for a job
that waits and of `staleJobAge` for one that is claimed. `Crash` takes a worker
away wherever it is. The administrator's `RetryMailJob`, `CancelMailJob` and
`ReconcileMailJobs` lock the row they change and are one step each.

### Subscriptions

Plans with their versions, the subscriptions of operators, the commands with
their idempotency keys, and the lifecycle worker. A command is `Begin` (the key
and the subscription are selected), `Read` (the row lock; PostgreSQL evaluates
the condition again) and `CommitChange`; `Issue` is `FindVersion` and
`CommitIssue`. ChangePlan reads its version after the lock; that read is merged
with the commit. A worker's pass lists what is due at a time it remembers, by the
end of the period and with ties in any order, then `Warn`, `Pass` or `ExpiryFails`
for each. `Admits` is the gate customers meet.
The instance has 6 of the 9 commands: ISSUE, RENEW, PAUSE, EXPIRE, CANCEL and
CHANGE_PLAN; ACTIVATE, RESUME and MARK_PAST_DUE differ from PAUSE in the
statuses they start from and lead to.

### AdminAccess, CustomerSignup, CustomerAccess, RateLimit

A request is a transaction that takes row locks one after another and sees what
was committed before each. The modules follow the locks of the code: staff lock
the identity, then the sessions, then their tokens; a customer's revocation of
all sessions goes from the tokens to the sessions; a refresh goes from the token
to its session in both; a sign-up holds an advisory lock. A deadlock is resolved
by the database: one of the requests is undone. `Abort` and `GivesUp` are that
and every other way a request ends without an effect, among them the expiry of a
code or a session, so that no clock is needed. Passwords are their versions,
codes are right or wrong. `AdminAccess` also has the platform's administrators,
who are an identity with an advisory lock of their own. The last updates of a
suspension, and of a revocation of all of a customer's sessions, are merged with
the commit.

Rate limits stand in front of each of these requests and share no row with them:
`RateLimit` has the upsert as one action, and the time. In the composition
`MCAccess` they are parts next to each other.

### Invoicing

A worker's pass is three batches one after another, begun by `Discover`,
`ClaimGeneration` and `ClaimDelivery`. Issuing is a transaction under two locks, the
session's and then the sequence's, and is split there. Generation is `LookForObject`,
`Publish` (the file is renamed into place) and `MarkReady` (the row), delivery is
`OpenArtifact`, `Submit` and `RecordDelivery`: each commits by itself and a
worker may die between. A claim is lost by age (`InvoiceStale`,
`DeliveryStale`). The CPO's `RecoverDelivery` and a reader's `Download` are one
step each.

Rendering is deterministic, as the code requires of it: "pdf" is the bytes every
renderer makes of an invoice, "other" is any other. Retry delays are any wait,
the order of claims is any, the sender is configured, and one CPO and one
financial year are modelled. `overrun` is a history: the lock time of a claim
ran out under a worker that was still at it.

### HubConfiguration

A request on a hub, charger, tariff or tax profile is one transaction with a
list of locks, in the order of the handler: rows, the advisory lock of a tariff
target, the advisory lock of pricing. `Begin` reads what the code reads without a
lock, `Lock` takes the next lock, `Commit` validates what it sees and writes.
A new tariff gets an id that no request in flight refers to, as UUIDs are drawn.
Rows that one statement locks are taken together. The triggers of migration
000044, which check again at the end of the transaction under the same lock, are
one with the check in the commit. `ValidTopology` and `Resolve` are
commercial/tariff_temporal.go: a root, open-ended fallbacks from a date on, and
bounded overrides that must nest or be disjoint. Values are chosen at the
commit, as no lock depends on them. Profiles with a rate of zero and the
tariffs of chargers and user groups, which take the same path without the hub's
row, are left out.

### Tenancy

The same form for operators and staff: provisioning (`Create`), replacement of
the primary administrator, activation, suspension, resending of the mail, and
staff created and changed by staff, with what they may delegate. One
capability, to manage staff, stands for all that a role bundles and an override can allow or
deny. What may be delegated is evaluated with the commit. Names, application ids and the mails without a password are left out.

### Paging

A list is its order, whether its key can change, be null, or leave its filter,
and whether the cursor is the last row as it was read; `Lists` gives that of
every list of the API, and a behaviour reads one of them. `ReadPage` is the
statement: rows after the cursor in order, one more than the limit. ORDER BY and
WHERE are written apart in the code, and are here. Rows are created, changed and
removed between pages. Cursors that are computed again after the page (`ReadCursorAgain`)
are part of the model and of the exception the property makes (section 4). What a
page showed is kept as the set of its rows that stayed as they were; within a page
the rows are in order by the statement. One reader suffices: it writes nothing.

### Support

One ticket of either channel, from its raiser to a desk. A request is `AskFor`,
`LockTicket` and then `Reply`, which looks up its idempotency key under the lock,
or `SetStatus`; `LeaveAsIs` is every refusal. Events, messages and notices are
written with it. Bodies are not
modelled; `MaxEvents` bounds a behaviour.

### ChargingTrace

The events of one trace come from HAL, at least once and in any order, and from
transactions of the CMS; each adopts the root (`AdoptRoot` takes the row's lock
or inserts it), takes a number and commits. The reader gets a first page,
follows the replay from its cursor, and is told whether the charger did what a
TriggerMessage asked for (`Classify`). HAL is assumed to tell the truth about the
charger. One event per transaction of CMS, one TriggerMessage per trace. The
root's identities, and the filters of `Classify` by identity, connector and
deadline, are left out; NOT_APPLICABLE, which is told before the charger
accepts, counts as PENDING.

## 3. Runs

| Run | Instance | Properties |
|---|---|---|
| `charging_connector` | 2 starts, 1 connector, 1 wallet, 1 reconciler, prices {0, 2, 4} for a hold of 2, rejected-command facts | `SingleOccupant`, `HoldTracksOccupancy`, `NoFabricatedSession`, `ReleasedOnlyUnstarted` |
| `charging_wallet` | 2 starts of one wallet on 2 connectors, one top-up, prices 4 and 5 for a hold of 3 and a balance of 7 | `FundsCovered`, refinement of `WalletLedger` (`ImplementsLedger`) |
| `charging_recovery` | 1 start, 2 reconcilers, an outage; and the passes of 2 workers over 2 items in batches of 1, one start contested, one session unfunded | `LostWorkRecovered`, `ReachedInTurn` |
| `session_stop` | 1 stop call, 1 customer who calls again, 1 reconciler, a charger that refuses, an outage | `EndedStaysEnded`, `ReactivatedOnVerdict`, `StopsAreResolved` |
| `wallet_recharge` | 2 calls with 1 key and amounts 3 and 5, 2 payments, 2 verifications, an outage | `OneProviderOrder`, refinement of `RechargeLedger` (`ImplementsLedger`), `CapturedIsCredited` |
| `charger_operation` | 1 worker, 1 handler; in units of 15 s a lease of 2, a call of 1, a retry delay of 4 and 3 on the network; an outage | `OneSend`, `AbsenceIsFinal`, `TerminalStays`, `OperationsConclude` |
| `live_state` | 2 requests of HAL, 1 fact of the connection, 2 of the meter, the first with altered content too, polls of 1 event, an outage, the connection may age | `ChangeIsAnnounced`, `FactsTakeEffectOnce`, `FactAccepted`, `StreamCatchesUp` |
| `subscriptions` | 1 operator, 2 subscriptions, 3 keys, 2 requests, 1 lifecycle worker, a period of 3 with warnings 1 and 2 before its end | `HistoryTellsTheStatus`, `ReactivationOpens` |
| `access` | 2 requests, 2 administrators, 2 guesses per code, 1 session, 2 tokens and codes, 2 passwords; 8 instants of a rate limit of 2 in a window of 2 | `CodesWorkOnce`, `AccessFollowsThePassword`, `AdministratorRemains`, `RateBounded` |
| `invoicing` | 2 sessions, one before the introduction and not issuable, 2 workers, 2 attempts, 1 crash, 1 damaged file, 1 recovery | `NumbersAreConsecutive`, `IssuedGoesOutOnce`, `InvoiceEnds` |
| `administration` | 2 requests; 1 hub, 1 charger, 1 profile, 2 states, 2 tariffs of 4 schedules; 2 operators and 2 people; 4 prices, 2 taxes, 5 balances | `ShownCanBeSold`, `OnlyTariffsDeadlock`, `TenantStands`, `HoldCoversTheLimit` |
| `communications` | 1 mail, 2 workers, 3 attempts, 2 crashes, 1 retry; 2 requests on a ticket with 2 keys; 3 rows on pages of 1; 3 events of a trace, 2 writers | `DeliveryHonest`, `JobEnds`, `TicketTellsItsStory`, `ReadOnceAndWhole`, `EvidenceIsWhole` |

What they show, beyond section 1:

- The charging runs are about what the database cannot enforce. A connector is
  kept by an intent until its session is settled; the money of a wallet is
  promised at most once; a start without a recorded outcome, a lost completion
  and an absent start come to their end although every fact may be lost; the
  passes come to every item, and to every open session within one turn of the
  cursor.
- `live_state`: however facts are delivered, each has one effect, and a session
  never goes back. What a user sees is current or there is an event that will
  say so, except where an event got its id early and committed late; a heartbeat
  makes up for that.
- `subscriptions`: the history explains every status; a key acts once; nobody is
  warned twice. A renewal that reactivates opens the platform to customers,
  whatever older expired rows the operator has.
- `access`: codes, and refresh tokens, work once however requests overlap. No
  session outlives a password, and for a customer no open code does. Two
  administrators cannot remove each other. A rate limit lets at most two
  windows' worth through in a window's length and its blocks last.
- `invoicing`: a serial taken by a transaction that fails is not lost; READY
  means the bytes are at their path (unless damaged later); SMTP is handed a
  delivery once for each time it was queued; a settled session that can be
  invoiced gets its invoice and its mail comes to an end, whoever dies.
- `administration`: requests that are each valid alone do not add up to a hub on
  display without exactly one price or with a tax that contradicts its state;
  only changes to tariffs of one target can wait for each other in a circle.
  An operator has one active primary administrator. What is held for a session
  pays what it costs up to its limits, whatever was rounded on the way.
- `communications`: SENT mails were accepted by the server, and a second
  submission needs a crash or a slow worker. A ticket's status, history and
  notices agree. A reader of a list sees every row that stayed once. A trace
  that is followed is whole.

### Why the bounds suffice

Two starts suffice for what the charging properties say of pairs, and the second
one plays every rival an occupied connector or a drained wallet can have. Prices
below, at and above hold and balance make every branch of the settlement
happen. One worker holds one stale read; a second one only matters where two
could starve each other, which the recovery run has. `MaxTopUps`,
`ChargerReplies` and `ReportedStates` are bounds: without top-ups, refusals or
command facts a run is smaller, and the run next to it has them.

`session_stop` and `wallet_recharge` are small because they check liveness too.
That two or more stops which race one another, and calls with several keys, keep
the safety properties is what the theorems of section 6 say; two calls with one
key are the smallest case in which the key matters. In `charger_operation` the
delays have the proportions of the code, and two actors are a sender and a
lookup, a claimant and its successor, or a slow lookup and a newer one; three
and more are the theorems' case.

Everywhere else the hazards are pairs: two transactions that read what the other
writes, a worker and its successor, a writer and a reader. Two of each are what
the runs have, and attempts and crashes enough that the last attempt is reached
both by failure and by a crash. Where a run has one of something (one hub, one
account, one ticket, one wallet in a sale), the properties are about one. Some
parts were also checked alone with more: three mail workers (438,558 states),
pages of 2 on 4 rows (478,683), passes of 1 worker over 3 items with any of them
contested or unfunded (205,680), and, since two issuable sessions with mail
exceed what an invoicing run can hold, two of them without it under 2 faults
(93,401).

Symmetry is declared for ids the specification does not tell apart (requests,
tariffs, keys), and only in runs without liveness. A mutant of the code is named
for every property of every run in PROJECT.json, and breaks it.

No run checks for deadlock but `charger_operation`, whose clock always ticks:
when every start is settled and nothing is left to do, the other systems stop,
and rightly so. Deadlocks of the database are what `OnlyTariffsDeadlock` is
about.

## 4. Where the code and its documents differ

Met while modelling. The models do what the code does; none of the properties
asserts what a document says and the code does not do. Each was read in the code,
and those about interleavings were found, or confirmed, by a run.

Charging:

- charging.go:551-553 promises that only the fact materializer moves a start to
  or from ACTUALLY_STARTED. The transaction that stores HAL's answer keeps that;
  the one that stores its *failure* (`markHALStartCommandFailure`, :878) does
  not look. The intent of a running session reads RECONCILIATION_REQUIRED from
  then on. The session is not affected.
- A command state read before the start and written after it
  (`ReconcileCommand`, operations.go:324) replaces MATERIALIZED
  (charging_facts.go:270-271).
- A start the charger refused stays RECONCILIATION_REQUIRED
  (operations.go:756): nothing releases its hold or its connector, though the
  state is documented as an unknown outcome
  (docs/integrations/ocpp-hal-boundary.md:175).
- ocpp-hal-boundary.md:221-223 says that late evidence for a rejected start only
  asks for reconciliation. The stranded-start pass (operations.go:707) then
  picks that intent up and materializes it, with its hold released. The usage is
  still billed only if hold amount and balance allow it (`ImplementsLedger`).
- The 404 of HAL that charging_stop_reconciliation.go:49-51 takes as proof of
  absence can precede the arrival of the request it asks about. (Charger
  operations do not have this problem: `AbsenceIsFinal`.)
- charging_stop_reconciliation.go:16-17 says that a delivery-ambiguous stop stays
  STOP_PENDING. A verdict on an older command that is applied late makes the
  session ACTIVE although a newer stop is out: no transaction compares its
  command with the newest.
- ocpp-hal-boundary.md:232-234 says that a missing STOP leaves its command
  reconciliation-required; the code (and
  cpo-hal-operational-capability-manual.md:894) records CONFIRMED_ABSENT and
  returns the session to ACTIVE.
- A start whose materialization keeps being refused (its connector is held by
  another session, or its evidence conflicts) is not touched, stays at the head
  of its batch and ends every pass before the sessions and the settlements
  (operations.go:727), although operations.go:556-558 says that a fixed
  unresolved head cannot starve the rest. `ReachedInTurn` assumes that the
  conflict ends. Likewise, when a batch holds all open sessions it always has
  the same order, and a session whose visit keeps ending the pass starves those
  behind it.
- A metered hold whose nominal amount rounds to 0.00 gets no buffer
  (charging.go:809), though :804-807 says that metered modes reserve it.

Recharge and charger operations:

- `storeUncapturedRechargePayment` (razorpay.go:366) looks neither at the order
  nor at the payment: a verification that fetched the payment before its capture
  sets a PAID, credited order back to PAYMENT_PENDING
  (docs/contracts/api/administrative-http-api.md:1106-1109). The wallet
  transaction keeps it from being credited twice, and `AlreadyCredited` then
  returns without restoring PAID.
- The app is told that a recharge key that got a 502 is durably terminal; the
  update that makes it so may fail unnoticed, and the key then answers 409
  `recharge_order_pending` for ever.
- The state diagram of charger-operation-recovery.md has no way from
  HAL_ACCEPTED but to OCPP_CONFIRMED; a failed lookup or HAL's own uncertainty
  takes the row to RECONCILIATION_REQUIRED.

Live state, mail and traces:

- ocpp-hal-boundary.md:100-102: a delayed fact never replaces a newer row. Two
  requests that read the runtime row at once (charging_facts.go:193-206, no
  lock) can leave the older observation in it, until the next one.
- cpo/router.go:1570-1572 and customerauth/router.go:338-339 say that taking the
  watermark first means no event can be skipped. An event whose id was allocated
  before the watermark and committed after it is skipped; the next heartbeat
  shows its effect.
- docs on SMTP delivery (smtp-mail-delivery.md:60-61, :114-115) have a stale
  claim reclaimed. The claim requires `attempts < max_attempts` (outbox.go:251),
  so that one lost on its last attempt stays PROCESSING; `ReconcileMailJobs`
  makes it PENDING without resetting the attempts, and it stays that.
- Two first events of a trace that arrive together: the second gets a 409
  `hal_trace_root_conflict` though their identities agree; duplicates that arrive
  together get a 500, and are acknowledged when HAL repeats them. `adoptRoot`
  stores an identity trimmed and compares it untrimmed; its loop that fills in
  missing identities (ingress.go:147-154) compares nil pointers inside an `any`
  with nil, so that it never fills one in.

Subscriptions:

- The lifecycle worker records an expiry with `uuid.Nil` as its actor
  (subscriptions/worker.go:20, :80). The foreign key of the history to `users`
  (migration 000007:164-165) refuses it: the transaction is undone, the error
  ends the pass, and no subscription is ever expired by the worker (ADR 0014
  says it is). Customers are refused all the same, as admission looks at the end
  of the period.
- A renewal may select an old EXPIRED row that ends later than the current one
  and then fail with a 409; one that is backdated may leave an ACTIVE
  subscription whose period is over; warnings are not repeated for the renewed
  period.
- The time of a history row is taken before the lock (service.go:417, :556), and
  the history is read back by it (:469): of two commands that overlap the later
  one may be listed first. `HistoryTellsTheStatus` is about the order in which
  they took effect, in which `history` is kept.

Access:

- A refresh locks the token, then its session; revoking one session locks it the
  other way round: the database resolves the deadlock, one request gets a 500
  (staff and customers).
- `Verify` reads the membership without a lock: a session may be created while a
  suspension commits (docs/AUTHENTICATION.md:247-249). `ValidateAccess` refuses
  it, as long as the suspension lasts.
- A code that was mailed to a member of staff before a change of the password may
  still be verified after it; only a customer's open codes end with the password.
- When all sessions of a customer are revoked, a refresh may add a token between
  the update of the tokens and that of the sessions (sessions.go:254-263). It is
  never marked revoked; its session is, so that it does not work.

Invoices:

- A worker slower than its claim whose generation then fails makes an invoice of
  another worker's last claim PENDING with all attempts used: nothing claims or
  sweeps it (work item WI-20260911:18-20 promises an end). Likewise a stale
  worker's failure before SMTP returns another's SENDING claim to PENDING.
  `InvoiceEnds` excepts claims that were overrun.
- Discovery (service.go:253) has no cursor: as many unissuable sessions as a
  batch holds keep all later ones from being invoiced.
- A delivery that comes before READY uses up an attempt each time.

Administration and support:

- Changes of tariffs lock their own row first, then the hub, the advisory lock
  and the other rows: two of them for one target can deadlock (500).
- `CreateHub` and `AddMemberToUserGroup` check membership without a lock and
  then update by id. `UnassignChargerFromHub` says "Lock the hub first" and locks
  the charger.
- `CreateStaff` and `SetPrimaryAdmin` can deadlock on identity and operator.
  `CreateStaff` checks what it may delegate before its transaction;
  `TransitionStaff` does not check again; `SetPrimaryAdmin` keeps a DENY override
  of the person it promotes.
- Charger lists sorted by rating compute the cursor from the row as it is after
  the page was read (customerauth/network.go:330-350, cpo/service.go:5586-5601)
  and may skip or repeat rows that did not change. The geographic search returns
  a `next_before` that validation then refuses; `/chargers/locations` never says
  that more follow; `before` without an id skips ties; the charger's transactions
  join rows that may repeat one.
- A ticket's `updated_at` is taken before its lock and may go back; so do the
  times by which its messages and its events are read back (service.go:205-209,
  :232, :311; customer.go:212, :243, :324), so that of two overlapping changes the
  later may be listed first. `TicketTellsItsStory` is about the order in which
  they took effect. Its idempotency keys are the
  ticket's, not the author's. A staff member suspended between the two reads of
  `customerSupportRecipients` makes a customer's reply fail with a 500.

Chargers (not modelled): `UpdateCharger` that only adds a connector gets a 400;
it does not mark HAL's mapping pending; a slow mapping sync may overwrite a newer
one (StartCharging repeats it, charging.go:392, :525); `DeleteCharger` does not
tell HAL.

## 5. Fairness

`ChargingRecovery` assumes that an outage ends, that a worker which began an
item finishes it, and that a row that stays listed is taken up again and again.
Strong fairness is needed for taking a row up because it is enabled only while
the worker is idle. Nothing is assumed of handlers, of HAL, of the charger, or of
fact delivery: the property says that the reconciler alone suffices.

That a listed row is taken up is what `ReconcilePass` shows of the code, from
less: RunReconciler repeats its passes on a ticker for as long as the process
lives (weak fairness of a worker's steps), failing lookups, ended passes and
dying workers stop some time, and so does what refuses a start.

`SessionStopRecovery` assumes the same of its workers, and in addition that a
customer whose session is not stopped calls again. That part cannot be dropped:
a command that stays PERSISTED because its call died is not listed by any pass,
and a refusal that was stored but not applied is no longer listed. Only the
customer's next call resolves them.

`WalletRechargeRecovery` assumes that a customer who paid verifies again, as
USERAPP_FE_HANDOFF.md:889-890 asks of the app, and that a verification comes to
its end once the outage is over. There is no webhook and no worker that would
find the payment otherwise.

`ChargerOperationsRecovery` assumes that time passes, that a worker takes a row
up that is due again and again (RunChargerOperationRecovery polls every 5 s,
oldest first), and that, once the outage is over, it is done with the row before
the next unit of time: a worker that always takes longer than its own lease
never dispatches anything. Handlers need not be prompt and may interfere for ever.

`LiveState` assumes that a request that began runs to its end, that failures of
the database stop, and that a stream's ticker goes on. That HAL delivers a fact
again until it is acknowledged is not assumed of `Spec` but is the premise of
`FactAccepted`, as a stream that stays open is of `StreamCatchesUp`.

`MailOutbox` and `Invoicing` assume that the loops of the workers keep running (a
process that dies is started again) and that time passes, so that waits and
claims end. Nothing is assumed of the mail server. The claims of `JobEnds` and
`InvoiceEnds` therefore hold for jobs nobody touches: an administrator who
retries for ever is bounded by `MaxRetries`.

## 6. Proofs

`Charging_proofs` proves, for any sets of starts, connectors, wallets and
reconcilers and any prices (assumption `ChargingAssumption`: the types of the
constants):

| Theorem | Says |
|---|---|
| `TypeCorrect` | `Spec => []TypeOK` |
| `Inductive` | `Spec => []IInv` |
| `OneOccupant` | `Spec => []SingleOccupant` |
| `FundsAreCovered` | `Spec => []FundsCovered` |
| `HoldsFollowOccupancy` | `Spec => []HoldTracksOccupancy` |
| `SessionsAreReal` | `Spec => []NoFabricatedSession` |
| `ReleasesAreFinal` | `Spec => ReleasedOnlyUnstarted` |
| `LedgerImplemented` | `Spec => ImplementsLedger` |

None of the properties is inductive alone. `IInv` adds `Coherent` (which hold,
session, payment and release go with an intent's status, what each step of the
handler implies about the intent), `Evidence` (what sessions, facts and a
worker's memory imply about HAL's transaction) and `Delivered` (a command HAL
has was sent). `HoldTracksOccupancy` follows from `Coherent`,
`NoFabricatedSession` from `Evidence`: the reads of HAL are stale, but a
transaction never ceases to exist or to be completed. `SingleOccupant` is
itself part of `IInv` and needs the rest to know that only an open intent, whose
connector is already its own, becomes a session. One lemma per action shows
that it preserves `IInv`; TLC checked `IInv` before it was proved.

`FundsCovered` sums holds and charges over sets. What a fold returns is proved
without induction over data: `Sum` counts marks, `a[x]` of them for each `x`, so
that the laws of sums are laws of `Cardinality`; it satisfies the equation of the
library's fold, and a smallest set on which another function that satisfies it
could differ does not exist (`FoldsOnce`). `FundsInv` adds to the property that
only finitely many holds were ever made, and has one lemma for each of the five
things a step may do to money (`MoneySteps`): nothing, admit, release, settle,
top up. A settlement takes no more than its hold or is left to reconciliation;
what was taken although its hold had been released was not reserved, and the
property adds it back to the balance.

`TypeOK` is only proved, no run lists it.

`WalletRecharge_proofs` proves of `WalletRecharge`, for all calls, keys, amounts
and payments (assumption `RechargeAssumption`):

| Theorem | Says |
|---|---|
| `RechargeInductive` | `Spec => []IInv` |
| `RechargeTypes` | `Spec => []TypeOK` |
| `OneOrderPerKey` | `Spec => []OneProviderOrder` |
| `MoneyIsKnown` | `Spec => []CapturedIsKnown` |
| `RechargeLedgerImplemented` | `Spec => ImplementsLedger` |

Its `IInv` says that at most one call has `Placed` the order of a key. An order
row, a payment, what a verification fetched and a credit are then all about that
call, so that amounts agree although no step compares them again.

`ChargerOperations_proofs` proves of `ChargerOperations`, for any workers,
handlers and lease (assumption `OperationAssumption`: the retry delay covers a
call and the network's delay):

| Theorem | Says |
|---|---|
| `OperationInductive` | `Spec => []IInv` |
| `OperationTypes` | `Spec => []TypeOK` |
| `RowsStayLegal` | `Spec => []DispatchCheck` |
| `SentAtMostOnce` | `Spec => []OneSend` |
| `AbsentForGood` | `Spec => []AbsenceIsFinal` |
| `OutcomesAreFinal` | `Spec => TerminalStays` |

Its `IInv` relates the clocks: a deadline or a request that is out ends before
the row is due (`Grace`), so that whoever looks an operation up finds it `Quiet`,
with nothing that could still reach HAL.

The same module proves of `SessionStop`, the other commands to chargers, for any
number of calls, customers and reconcilers (assumption `StopAssumption`: nobody
is both a customer and a reconciler, "no command" is not a command, and the
charger accepts or rejects):

| Theorem | Says |
|---|---|
| `StopTypes` | `StopSpec => []StopTypeOK` |
| `EndsAreFinal` | `StopSpec => EndedStaysEnded` |
| `VerdictsReactivate` | `StopSpec => ReactivatedOnVerdict` |

The last one needs `Refusals`: whoever holds a refusal in memory (a call, a
worker, a fact) holds one that HAL still has, because an answered command is
never answered again.

`Communications_proofs` proves of `MailOutbox`, and of `MCCommunications`, where
it stands beside the other parts, for any jobs, workers, attempts, requests, rows,
keys, events and sizes of pages (assumptions `OutboxAssumption`: finitely many workers,
at least one attempt; `ListAssumption`: finitely many rows, ids and keys that can
be compared, at least one row on a page; `TraceAssumption`: finitely many events,
at least one on a page):

| Theorem | Says |
|---|---|
| `OutboxInductive` | `Spec => []IInv` |
| `OutboxIsHonest` | `Spec => []DeliveryHonest` |
| `CommunicationsInductive` | `CommunicationsSpec => [](IInv /\ TicketInv /\ ListInv /\ TraceInv)` |
| `MailsStayHonest` | `CommunicationsSpec => []DeliveryHonest` |
| `TicketsTellTheirStory` | `CommunicationsSpec => []TicketTellsItsStory` |
| `ListsAreReadWhole` | `CommunicationsSpec => []ReadOnceAndWhole` |
| `EvidenceStaysWhole` | `CommunicationsSpec => []EvidenceIsWhole` |

Its `IInv` says of a job without a fault that one worker holds its claim, under
a lease that has not run out (`Undisturbed`), and of any job that a counted
attempt is a mail submitted or a worker that may still submit it
(`AttemptsCount`). The latter bounds submissions although a worker that lost its
lease may still submit and record over the claim of another.

`TicketInv` says that who has read a ticket under its lock still knows it
(`KnowsTicket`), and that events, notices and status are one `Tale`. A commit adds
one or two events, each with its notices, and what a tale says it says after one
more event (`TaleGoesOn`): it has its place among the events that call for a
notice, and its notice the same place among the notices of that side
(`GrowTogether`).

`ListInv` says that the cursor divides the rows that stayed as they were: those
that were shown are not beyond it, the others are (`Place`). It rests on two
facts about the lists. ORDER BY and WHERE, which the code writes apart, are the
same total order, null keys and ties included (`OrderedRows`, `ContinuedRows`,
`ComesIsTotal`, `ComesIsTransitive`); and the rows that a statement with a LIMIT
returns are the first of those it found, and some if more follow (`PageBegins`).
A list of the API that took up another order, or a cursor without the id, would
lose the first.

`TraceInv` says that who has a number that is not committed holds the lock of
the root (`Writes`), and that this number is beyond all that are stored and
beyond the cursor (`NumberIsNext`): numbers are taken before the commit, and
still become visible in their order. Then nothing can appear behind a cursor,
and whatever was shown with a page includes all that comes before it
(`FewerBefore`).

`Billing_proofs` proves of `Invoicing`, for any
sessions, workers and limits (assumption `InvoicingAssumption`: finitely many
workers, and the types of the constants):

| Theorem | Says |
|---|---|
| `InvoicingInductive` | `Spec => []IInv` |
| `ConsecutiveNumbers` | `Spec => []NumbersAreConsecutive` |
| `DeliveryInductive` | `Spec => []DInv` |
| `IssuedOnce` | `Spec => []IssuedGoesOutOnce` |

`IInv` says who holds the locks of the rows (`Locks`) and that the one open
transaction that drew a number has the next one (`Numbers`), so that a rollback
leaves no gap. `DInv` accounts for every delivery that was queued: it waits, is
with a worker that has not submitted it (`Unsent`), or was submitted. A worker
whose claim was overrun carries its own, wherever it is recorded in the end,
which is why a recovery that queues another one does not let it go out twice.

The same module proves of `Subscriptions`, for any operators, administrators,
lifecycle workers, periods and thresholds (assumption `PeriodsAssumption`: a
period is longer than every warning, and there is a warning):

| Theorem | Says |
|---|---|
| `HistoriesTell` | `SubscriptionsSpec => []HistoryTellsTheStatus` |
| `RenewalsOpen` | `SubscriptionsSpec => ReactivationOpens` |

`SubInv` says that who holds a row lock is alone (`OneReader`) and that what it read
under the lock is still the row (`Running`); without the first a change could
append a history line that starts from a status the row has left. The rest is what a
transaction keeps (`RowSaved`): each history is a chain (`Chained`), a key that is
unused stands nowhere (`KeysOnce`), the unique index leaves one current
subscription (`OneCurrent`). A renewal opens the platform because its period
starts when the command did, because a command takes less than two ticks and a
period more than one, and because the row it reactivates is then the only
current one. TLC checked `SubInv` on the instance of the run (1,248,523 states)
before it was proved.

`LiveState_proofs` proves of `LiveState`, for any workers, contents of the four
streams and lengths of logs (assumption `BoundsAssumption`: the types of the
constants, and that no worker is called "committed", as committed events are):

| Theorem | Says |
|---|---|
| `Invariant` | `Spec => []IInv` |
| `AnnouncedAlways` | `Spec => []ChangeIsAnnounced` |
| `OnceAndInTurn` | `Spec => FactsTakeEffectOnce` |

`IInv` is `WInv`, about the handlers, and `LInv`, about the stream. `WInv`: a
handler that read the session FOR UPDATE has the row alone and still knows it
(`Alone`, `KnowsTheSession`); of the rows that are read without a lock it knows
nothing, and the guard of the write is what keeps them in turn. `LInv`: a handler
that is going to commit a change has exactly one event in the log, its own, and a
stream that waits and does not show the present has a committed event ahead of
its cursor, unless one became visible behind it (`missed`). Ids become visible
out of order, so that a commit, a rollback and the forgetting of old entries each
move the positions the others rely on; the lemmas of `LogKeeps` are about that.

`Access_proofs` proves of `MCAccess`, the parts side by side, for any number of
requests, administrators, codes, sessions, tokens, windows and limits
(assumptions `LimitsAssumption`: the limits are positive and the administrators
finitely many, at least one; `RateAssumption`: an idle row is kept for at least
the window, 7 days against 15 minutes unless `AUTH_RATE_LIMIT_WINDOW` is set, a
setting the code does not compare with the 7 days):

| Theorem | Says |
|---|---|
| `CodesAreGoodOnce` | `AccessSpec => []CodesWorkOnce` |
| `PasswordEndsAccess` | `AccessSpec => []AccessFollowsThePassword` |
| `OneAdministrator` | `AccessSpec => []AdministratorRemains` |
| `LimitsHold` | `AccessSpec => []RateBounded` |

A step of the composition is a step of one part and of none of the others
(`PartSteps`), so that `AccessInv` has an inductive invariant for each part. They
follow one idea: what a request read under a lock is still what the row says
(`KnowsChallenge`, `KnowsToken`, `KnowsCode`, `KnowsIssued`, `KnowsSignup`), and
nobody else holds that lock (`UserAlone`, `TokensAlone`, `HeldAlone`,
`IssuedAlone`). `SessionInv` also says that a request that is about to change the
password has every live session among those it revokes: a login that would add
one needs the lock of the identity, and a refresh does not create any.
`RateInv` says of a row that what got through in its window is among what it
counted, that what got through in a window's length before it began is within
the limit, and that it knows every block that has not ended. A row may be removed because nothing got through
for as long as it was idle. The sums are those of `Charging_proofs`, again for
the fold of the instance: tlapm takes the library's operators of an instance for
operators of their own.

`Administration_proofs` proves of `MCAdministration`, the parts side by side, for
any number of requests, hubs, chargers, tariffs, schedules, operators, people,
prices, taxes and balances. The assumptions are `HubAssumption` (finitely many
tariffs; dates are integers; the value for "no row" is not a row),
`TenancyAssumption` (the same for the rows of operators and members; the first
operator and its founder exist) and `PricingAssumption` (prices, rates, balances
and buffers are not negative and each has a greatest, as columns of a fixed
precision have):

| Theorem | Says |
|---|---|
| `HubsAreSound` | `Spec => []HubInv`, of `HubConfiguration` alone |
| `AdministrationIsSound` | `AdministrationSpec => [](HubInv /\ TenantInv /\ SaleInv)` |
| `ShownIsSold` | `AdministrationSpec => []ShownCanBeSold` |
| `TariffsAloneDeadlock` | `AdministrationSpec => []OnlyTariffsDeadlock` |
| `TenantsStand` | `AdministrationSpec => []TenantStands` |
| `HoldsPay` | `AdministrationSpec => []HoldCoversTheLimit` |

`HubInv` says of the locks that a request holds the first of its list, each on
what it is for (`InOrder`), and that no two hold the same (`OneHolder`); a change of a
tariff in flight knows the target of its tariff or the tariff is gone
(`ChangesKnow`). Under these locks a commit sees what it validates, so that the
rows keep what every write checks: `FloorHolds`, `TaxFits`, `ChargersPlaced` and
`TopologyHolds`. Two results rest on it.

- The price. `Resolve` keeps the better of two rows in a loop, in an order the
  database does not fix. Where the topology is valid one row of a kind that
  applies replaces all others and none replaces it (`RootPrevails`, `OpenPrevails`,
  `BoundedPrevails`: among nested overrides the innermost), and a loop keeps that
  row in whatever order it comes (`KeptPrevails`). The loop is a recursive function; what it
  returns is proved for its turns one by one, with the least turn at which
  something could differ (`KeptIsLoop`), not by induction over data.
- Deadlocks. The kinds of locks have an order that every request follows except
  one that changes a tariff, which comes back to tariffs after the topology. In a
  circle of waiting requests, of any size, somebody must wait downwards, and that
  is a change that waits for a tariff of its own target. The proof found a
  premise: ids of tariffs must not be reused while a change that names one is in
  flight, or changes of different targets could wait for each other.

`TenantInv` says of requests on operators and staff that what they locked is as
they saw it (`Taken`), that what they are about to change is still in its place
(`InPlace`), and that conflicting locks have one holder (`Apart`); of the rows that
each operator has exactly one primary administrator, who is active (`Primaries`). `SaleInv` ties
limits and bill to the terms (`Priced`, `BilledAsUsed`). `HoldCoversTheLimit` is then
arithmetic: quotients and `Rounded` are monotone (`RoundedMonotone`), so that an
amount up to the limit costs no more than the hold.

`CapturedIsKnown` and `DispatchCheck` are proved and not checked by a run.

All liveness properties (`LostWorkRecovered`, `ReachedInTurn`,
`StopsAreResolved`, `CapturedIsCredited`, `OperationsConclude`, `FactAccepted`,
`StreamCatchesUp`, `JobEnds`, `InvoiceEnds`) are model-checked only, as the prover
does not treat fairness. Every invariant and every other property of a run is also
proved.

## 7. Not modelled, and the plan

Not modelled, in the order in which it would be worth it:

- The inventory of chargers: `CreateCharger`, `UpdateCharger`, `DeleteCharger`
  and the synchronization of their mapping with HAL. Two syncs of one charger may
  overlap, and the last one to be recorded wins; a start repeats the sync, so
  that it is exposed to it only briefly.
- Platform operations (announcements, audit, platform events), integrations and
  the rest of the administration: one validated transaction each, no worker and
  no call outside between two of them.
- Routers, schemas, configuration, templates, PDF layout: I/O and wording.

Everything outside `src/`, and HAL, chargers, the payment provider and the mail
server, is modelled by what this code relies on.

Two hazards are in the list of PROJECT.json without a property, as the code does
not resolve them: a start the charger refused (section 4), and a start whose
handler died between admission and the recorded outcome when HAL never got the
request.
