--------------------------- MODULE WalletRecharge ---------------------------
(***************************************************************************)
(* Recharging one customer's wallet through the payment provider:          *)
(* CreateWalletRechargeOrder and VerifyWalletRecharge of                   *)
(* src/customerauth/razorpay.go.  A statement or transaction is one        *)
(* action; what a call has read from the database or from the provider is  *)
(* used later, stale or not.                                               *)
(*                                                                         *)
(* A member of Requests is one call that asks for an order.  A call places *)
(* at most one order with the provider, which therefore has its name.      *)
(***************************************************************************)
EXTENDS Integers

CONSTANTS
  Requests,  \* bound: calls of CreateWalletRechargeOrder
  Keys,      \* idempotency keys
  Amounts,   \* amounts in minor units
  Payments,  \* bound: payments the customer makes in the checkout
  Verifiers, \* concurrent calls of VerifyWalletRecharge
  NoRequest, NoKey, NoPayment

ASSUME RechargeAssumption ==
  /\ Amounts \subseteq Nat \ {0}
  /\ NoRequest \notin Requests /\ NoKey \notin Keys /\ NoPayment \notin Payments

VARIABLES
  request,       \* what a call asks for, and where it is
  order,         \* wallet_recharge_orders, one row for each key
  row,           \* wallet_recharge_payments.status of each payment
  creditOf,      \* the wallet transaction of each order, 0 if there is none
  balance,       \* wallets.balance
  providerOrder, \* the provider's orders
  payment,       \* the provider's payments
  known,         \* the provider orders the customer was told of
  verify         \* what a verification is about, and what it fetched

providerVars == <<providerOrder, payment>>
walletVars   == <<row, creditOf, balance>>
vars == <<request, order, walletVars, providerVars, known, verify>>

RequestSteps  == {"idle", "new", "inserted", "called", "answered", "stored",
                  "failed", "refused", "done"}
OrderStatuses == {"PROVIDER_PENDING", "PAYMENT_PENDING", "PAID", "FAILED"}
RowStatuses   == {"AUTHORIZED", "CAPTURED", "FAILED"}
ProviderStates == {"authorized", "captured", "refunded"}

NoOrder   == [status |-> "none", amount |-> 0, provider |-> NoRequest]
NotMade   == [order |-> NoRequest, state |-> "none"]
Idle      == [step |-> "idle", payment |-> NoPayment, state |-> "none"]

Calls  == [step : RequestSteps, key : Keys \cup {NoKey}, amount : Amounts \cup {0}]
Orders == [status : OrderStatuses \cup {"none"}, amount : Amounts \cup {0},
           provider : Requests \cup {NoRequest}]
Money  == [order : Requests \cup {NoRequest}, state : ProviderStates \cup {"none"}]
Checks == [step : {"idle", "loaded", "fetched"}, payment : Payments \cup {NoPayment},
           state : ProviderStates \cup {"none"}]

TypeOK ==
  /\ request \in [Requests -> Calls]
  /\ order \in [Keys -> Orders]
  /\ row \in [Payments -> RowStatuses \cup {"none"}]
  /\ creditOf \in [Keys -> Amounts \cup {0}]
  /\ balance \in Nat
  /\ providerOrder \in [Requests -> {"none", "requested", "created"}]
  /\ payment \in [Payments -> Money]
  /\ known \subseteq Requests
  /\ verify \in [Verifiers -> Checks]

Init ==
  /\ request = [r \in Requests |-> [step |-> "idle", key |-> NoKey, amount |-> 0]]
  /\ order = [k \in Keys |-> NoOrder]
  /\ row = [p \in Payments |-> "none"]
  /\ creditOf = [k \in Keys |-> 0]
  /\ balance = 0
  /\ providerOrder = [r \in Requests |-> "none"]
  /\ payment = [p \in Payments |-> NotMade]
  /\ known = {}
  /\ verify = [v \in Verifiers |-> Idle]

-----------------------------------------------------------------------------
(* CreateWalletRechargeOrder                                               *)

Step(r, from, to) ==
  /\ request[r].step = from
  /\ request' = [request EXCEPT ![r].step = to]

\* The row of the key, read before anything is decided.  An order without a
\* provider order is refused, whatever the amount; another amount is a
\* conflict; else the customer is told of the order that exists.
AskForOrder(r, k, a) ==
  /\ request[r].step = "idle"
  /\ request' = [request EXCEPT
       ![r] = [step |-> IF order[k] = NoOrder THEN "new" ELSE "done",
               key |-> k, amount |-> a]]
  /\ known' = IF order[k].provider # NoRequest /\ order[k].amount = a
              THEN known \cup {order[k].provider} ELSE known
  /\ UNCHANGED <<order, walletVars, providerVars, verify>>

\* Mutant: the key is not unique.
InsertAnyway(r) ==
  /\ Step(r, "new", "inserted")
  /\ order' = [order EXCEPT ![request[r].key] =
       [status |-> "PROVIDER_PENDING", amount |-> request[r].amount,
        provider |-> NoRequest]]
  /\ UNCHANGED <<walletVars, providerVars, known, verify>>

\* The unique index over the key refuses the row of a call that comes second.
InsertOrder(r) ==
  LET k == request[r].key
      free == order[k] = NoOrder
  IN  /\ request[r].step = "new"
      /\ Step(r, "new", IF free THEN "inserted" ELSE "done")
      /\ order' = IF free
                  THEN [order EXCEPT ![k] =
                         [status |-> "PROVIDER_PENDING", amount |-> request[r].amount,
                          provider |-> NoRequest]]
                  ELSE order
      /\ UNCHANGED <<walletVars, providerVars, known, verify>>

CallProvider(r) ==
  /\ Step(r, "inserted", "called")
  /\ providerOrder' = [providerOrder EXCEPT ![r] = "requested"]
  /\ UNCHANGED <<order, walletVars, payment, known, verify>>

OrderAnswered(r) ==
  /\ providerOrder[r] = "created"
  /\ Step(r, "called", "answered")
  /\ UNCHANGED <<order, walletVars, providerVars, known, verify>>

\* A refusal, a timeout, or an answer without an id or with other data
OrderFails(r) ==
  /\ Step(r, "called", "failed")
  /\ UNCHANGED <<order, walletVars, providerVars, known, verify>>

StoreOrder(r) ==
  /\ Step(r, "answered", "stored")
  /\ order' = [order EXCEPT ![request[r].key].status = "PAYMENT_PENDING",
                            ![request[r].key].provider = r]
  /\ UNCHANGED <<walletVars, providerVars, known, verify>>

TellOrder(r) ==
  /\ Step(r, "stored", "done")
  /\ known' = known \cup {r}
  /\ UNCHANGED <<order, walletVars, providerVars, verify>>

\* markRechargeOrderFailed ignores the error of its own update.  The call
\* answers 502.
MarkFailed(r) ==
  LET k == request[r].key
  IN  /\ Step(r, "failed", "refused")
      /\ \/ order' = [order EXCEPT ![k].status =
              IF order[k].provider = NoRequest THEN "FAILED" ELSE @]
         \/ UNCHANGED order
      /\ UNCHANGED <<walletVars, providerVars, known, verify>>

\* A check or a statement fails, the process dies, or the response is lost.
Abandon(r) ==
  /\ request[r].step \in {"new", "inserted", "called", "answered", "stored", "failed"}
  /\ Step(r, request[r].step, "done")
  /\ UNCHANGED <<order, walletVars, providerVars, known, verify>>

-----------------------------------------------------------------------------
(* VerifyWalletRecharge, for a payment the checkout has signed             *)

KeyOfPayment(p) == request[payment[p].order].key

\* The order is found by its provider id; a PAID one answers at once.
LoadOrder(v, p) ==
  LET k == KeyOfPayment(p)
  IN  /\ verify[v].step = "idle"
      /\ payment[p].state # "none"
      /\ order[k].provider = payment[p].order
      /\ order[k].status # "PAID"
      /\ verify' = [verify EXCEPT ![v] =
           [step |-> "loaded", payment |-> p, state |-> "none"]]
      /\ UNCHANGED <<request, order, walletVars, providerVars, known>>

FetchPayment(v) ==
  /\ verify[v].step = "loaded"
  /\ verify' = [verify EXCEPT ![v].step = "fetched",
                              ![v].state = payment[verify[v].payment].state]
  /\ UNCHANGED <<request, order, walletVars, providerVars, known>>

\* rechargePaymentStatus
PaymentStatus(state) ==
  CASE state = "captured"   -> "CAPTURED"
    [] state = "authorized" -> "AUTHORIZED"
    [] OTHER                -> "FAILED"

IsCaptured(v) == PaymentStatus(verify[v].state) = "CAPTURED"

\* Mutant: a payment is stored once and never updated.
InsertPayment(v) ==
  /\ row[verify[v].payment] = "none"
  /\ row' = [row EXCEPT ![verify[v].payment] = PaymentStatus(verify[v].state)]

\* upsertRechargePayment; a payment belongs to one order with the provider
StorePayment(v) ==
  row' = [row EXCEPT ![verify[v].payment] = PaymentStatus(verify[v].state)]

Verified(v) == verify' = [verify EXCEPT ![v] = Idle]

\* storeUncapturedRechargePayment: neither the order nor the payment is
\* looked at before they are written.
StoreUncaptured(v) ==
  /\ verify[v].step = "fetched" /\ ~IsCaptured(v)
  /\ StorePayment(v)
  /\ order' = [order EXCEPT ![KeyOfPayment(verify[v].payment)].status = "PAYMENT_PENDING"]
  /\ Verified(v)
  /\ UNCHANGED <<request, creditOf, balance, providerVars, known>>

\* Mutant: the status alone says whether the order was credited.
PaidAlone(k) == order[k].status = "PAID"

AlreadyCredited(k) == order[k].status = "PAID" \/ creditOf[k] # 0

\* creditCapturedRecharge
CreditCaptured(v) ==
  LET p == verify[v].payment
      k == KeyOfPayment(p)
  IN  /\ verify[v].step = "fetched" /\ IsCaptured(v)
      /\ IF AlreadyCredited(k)
         THEN UNCHANGED <<order, row, creditOf, balance>>
         ELSE /\ StorePayment(v)
              /\ creditOf' = [creditOf EXCEPT ![k] = order[k].amount]
              /\ balance' = balance + order[k].amount
              /\ order' = [order EXCEPT ![k].status = "PAID"]
      /\ Verified(v)
      /\ UNCHANGED <<request, providerVars, known>>

\* The provider cannot be reached, a statement fails, the process dies.
VerifyStops(v) ==
  /\ verify[v].step # "idle"
  /\ Verified(v)
  /\ UNCHANGED <<request, order, walletVars, providerVars, known>>

-----------------------------------------------------------------------------
(* The provider, from how CMS uses it.  An order is paid in full, by one   *)
(* payment that is captured (partial_payment is false).                    *)

CreateOrder(r) ==
  /\ providerOrder[r] = "requested"
  /\ providerOrder' = [providerOrder EXCEPT ![r] = "created"]
  /\ UNCHANGED <<request, order, walletVars, payment, known, verify>>

IsPaid(r) == \E p \in Payments : payment[p] = [order |-> r, state |-> "captured"]

MakePayment(p, r) ==
  /\ payment[p] = NotMade
  /\ r \in known /\ ~IsPaid(r)
  /\ payment' = [payment EXCEPT ![p] = [order |-> r, state |-> "authorized"]]
  /\ UNCHANGED <<request, order, walletVars, providerOrder, known, verify>>

\* An authorized payment is captured, unless its order is paid, or given back.
SettlePayment(p, state) ==
  /\ payment[p].state = "authorized"
  /\ state = "captured" => ~IsPaid(payment[p].order)
  /\ payment' = [payment EXCEPT ![p].state = state]
  /\ UNCHANGED <<request, order, walletVars, providerOrder, known, verify>>

-----------------------------------------------------------------------------
Request(r) ==
  \/ \E k \in Keys, a \in Amounts : AskForOrder(r, k, a)
  \/ InsertOrder(r) \/ CallProvider(r) \/ OrderAnswered(r) \/ OrderFails(r)
  \/ StoreOrder(r) \/ TellOrder(r) \/ MarkFailed(r) \/ Abandon(r)

Resolve(v) == FetchPayment(v) \/ StoreUncaptured(v) \/ CreditCaptured(v)

Work ==
  \/ \E r \in Requests : Request(r) \/ CreateOrder(r)
  \/ \E v \in Verifiers, p \in Payments : LoadOrder(v, p)
  \/ \E v \in Verifiers : Resolve(v)
  \/ \E p \in Payments, r \in Requests : MakePayment(p, r)
  \/ \E p \in Payments, s \in {"captured", "refunded"} : SettlePayment(p, s)

Next == Work \/ \E v \in Verifiers : VerifyStops(v)

Spec == Init /\ [][Next]_vars

-----------------------------------------------------------------------------
\* A key has one order with the provider, whoever asked for it how often
\* (administrative-http-api.md:1081: no "uncontrolled duplicate provider order").
OneProviderOrder ==
  \A r, s \in Requests :
    providerOrder[r] # "none" /\ providerOrder[s] # "none"
      /\ request[r].key = request[s].key => r = s

\* Money that was captured can be verified: CMS has the order under the
\* provider's id, with the amount that was paid.
CapturedIsKnown ==
  \A p \in Payments : payment[p].state = "captured" =>
    LET r == payment[p].order IN
      /\ order[request[r].key].provider = r
      /\ order[request[r].key].amount = request[r].amount
      /\ order[request[r].key].status \in {"PAYMENT_PENDING", "PAID"}

\* The protocol keeps the promise of RechargeLedger: one amount for each key,
\* captured before it is credited, and credited once.
Ledger == INSTANCE RechargeLedger WITH
  captured <- {[key |-> request[r].key, amount |-> request[r].amount] :
                 r \in {s \in Requests : IsPaid(s)}},
  credited <- {[key |-> k, amount |-> creditOf[k]] :
                 k \in {l \in Keys : creditOf[l] # 0}}

ImplementsLedger == Ledger!LedgerSpec
=============================================================================
