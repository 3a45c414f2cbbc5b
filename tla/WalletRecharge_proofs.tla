----------------------- MODULE WalletRecharge_proofs -----------------------
(***************************************************************************)
(* Proofs about WalletRecharge, for all sets of calls, keys, amounts and   *)
(* payments: its types, that captured money is known to CMS, and that the  *)
(* protocol implements RechargeLedger.                                     *)
(*                                                                         *)
(* The unique index over the keys carries the argument: at most one call   *)
(* has placed a key's order, so that whatever is stored, paid or credited  *)
(* under the key is about that call.                                       *)
(***************************************************************************)
EXTENDS WalletRecharge, TLAPS

Placing == {"inserted", "called", "answered", "stored", "failed", "refused"}

\* The call whose row is the key's order
Placed(r) == request[r].step \in Placing \/ providerOrder[r] # "none"

\* Its row exists, and is about the provider order as soon as that is stored.
Asked(r) ==
  /\ request[r].step # "idle" => request[r].key \in Keys /\ request[r].amount \in Amounts
  /\ request[r].step = "idle" => request[r].key = NoKey
  /\ Placed(r) => /\ request[r].step \notin {"idle", "new"}
                  /\ request[r].key \in Keys
                  /\ order[request[r].key].status # "none"
                  /\ order[request[r].key].amount = request[r].amount
  /\ request[r].step \in {"answered", "stored"} => providerOrder[r] = "created"
  /\ request[r].step = "inserted" => providerOrder[r] = "none"
  /\ request[r].step = "stored" \/ r \in known =>
       request[r].key \in Keys /\ order[request[r].key].provider = r

OrderRow(k) ==
  /\ order[k].status = "none" => order[k] = NoOrder
  /\ order[k].status # "none" => order[k].amount \in Amounts
  /\ order[k].provider # NoRequest =>
       /\ request[order[k].provider].key = k
       /\ providerOrder[order[k].provider] = "created"
       /\ order[k].status \in {"PAYMENT_PENDING", "PAID"}

\* Money is taken for orders the customer was told of, and credited when taken.
Paid(p) == payment[p].state # "none" => payment[p].order \in known

Fetched(v) ==
  verify[v].step # "idle" =>
    /\ verify[v].payment \in Payments
    /\ payment[verify[v].payment].state # "none"
    /\ verify[v].step = "fetched" /\ verify[v].state = "captured"
         => payment[verify[v].payment].state = "captured"

CreditRow(k) ==
  creditOf[k] # 0 =>
    \E r \in Requests :
      IsPaid(r) /\ request[r].key = k /\ request[r].amount = creditOf[k]

IInv ==
  /\ TypeOK
  /\ \A r \in Requests : Asked(r)
  /\ \A r, s \in Requests :
       Placed(r) /\ Placed(s) /\ request[r].key = request[s].key => r = s
  /\ \A k \in Keys : OrderRow(k) /\ CreditRow(k)
  /\ \A p \in Payments : Paid(p)
  /\ \A v \in Verifiers : Fetched(v)

-----------------------------------------------------------------------------
(* The calls that ask for an order.                                        *)

\* A step of a call changes its step and nothing else of any call.
LEMMA StepFacts ==
  ASSUME TypeOK, NEW r \in Requests, NEW from, NEW to \in RequestSteps,
         Step(r, from, to)
  PROVE  /\ request' \in [Requests -> Calls]
         /\ request[r].step = from /\ request'[r].step = to
         /\ \A s \in Requests : /\ request'[s].key = request[s].key
                                /\ request'[s].amount = request[s].amount
                                /\ s # r => request'[s].step = request[s].step
  <1>1. request' = [request EXCEPT ![r] = [request[r] EXCEPT !.step = to]]
    BY DEF Step, TypeOK
  <1>2. request[r] \in Calls
    BY DEF TypeOK
  <1>3. [request[r] EXCEPT !.step = to] \in Calls
    BY <1>2 DEF Calls
  <1> QED
    BY <1>1, <1>2, <1>3 DEF Step, TypeOK, Calls

\* What is paid and credited stays so when only calls and orders change.
LEMMA PaidFrame ==
  ASSUME IInv, UNCHANGED <<payment, verify, creditOf>>, known \subseteq known',
         \A s \in Requests : s \in known => /\ request'[s].key = request[s].key
                                            /\ request'[s].amount = request[s].amount
  PROVE  /\ \A p \in Payments : Paid(p)'
         /\ \A v \in Verifiers : Fetched(v)'
         /\ \A k \in Keys : CreditRow(k)'
  <1> USE DEF IInv
  <1>1. \A p \in Payments : Paid(p)'
    BY DEF Paid
  <1>2. \A v \in Verifiers : Fetched(v)'
    BY DEF Fetched
  <1>3. \A s \in Requests : IsPaid(s) => IsPaid(s)' /\ s \in known
    BY DEF IsPaid, Paid
  <1>4. ASSUME NEW k \in Keys
        PROVE  CreditRow(k)'
    BY <1>3 DEF CreditRow
  <1> QED
    BY <1>1, <1>2, <1>4

LEMMA AskPreserves ==
  ASSUME IInv, NEW r \in Requests, NEW k \in Keys, NEW a \in Amounts,
         AskForOrder(r, k, a)
  PROVE  IInv'
  <1> USE RechargeAssumption DEF IInv, walletVars, providerVars
  <1> DEFINE new == [step |-> IF order[k] = NoOrder THEN "new" ELSE "done",
                     key |-> k, amount |-> a]
  <1>1. /\ request' = [request EXCEPT ![r] = new]
        /\ request[r].step = "idle"
        /\ new \in Calls
        /\ new.step \in {"new", "done"} /\ new.key = k /\ new.amount = a
    BY DEF AskForOrder, Calls, RequestSteps
  <1> HIDE DEF new
  <1>2. TypeOK'
    BY <1>1 DEF AskForOrder, TypeOK, Orders
  <1>3. /\ request'[r] = new
        /\ \A s \in Requests : s # r => request'[s] = request[s]
        /\ ~Placed(r) /\ ~Placed(r)'
        /\ r \notin known
    BY <1>1 DEF TypeOK, Placed, Placing, Asked, AskForOrder
  <1>4. ASSUME NEW s \in Requests
        PROVE  Asked(s)'
    <2>1. CASE s \in known
      BY <1>1, <1>3, <2>1 DEF AskForOrder, Asked, Placed, Placing
    <2>2. CASE s \notin known
      BY <1>1, <1>3, <2>2 DEF AskForOrder, Asked, Placed, Placing, OrderRow
    <2> QED
      BY <2>1, <2>2
  <1>5. \A s, t \in Requests :
          Placed(s)' /\ Placed(t)' /\ request'[s].key = request'[t].key => s = t
    BY <1>3 DEF Placed, AskForOrder
  <1>6. ASSUME NEW l \in Keys
        PROVE  OrderRow(l)'
    BY <1>3 DEF OrderRow, AskForOrder, TypeOK, Orders, Placed
  <1>7. known \subseteq known' /\ UNCHANGED <<payment, verify, creditOf>>
    BY DEF AskForOrder
  <1> QED
    BY <1>2, <1>3, <1>4, <1>5, <1>6, <1>7, PaidFrame

LEMMA InsertPreserves ==
  ASSUME IInv, NEW r \in Requests, InsertOrder(r)
  PROVE  IInv'
  <1> USE RechargeAssumption DEF IInv, walletVars, providerVars
  <1> DEFINE k == request[r].key
  <1>1. /\ request' \in [Requests -> Calls]
        /\ request[r].step = "new"
        /\ request'[r].step = IF order[k] = NoOrder THEN "inserted" ELSE "done"
        /\ \A s \in Requests : /\ request'[s].key = request[s].key
                               /\ request'[s].amount = request[s].amount
                               /\ s # r => request'[s].step = request[s].step
    BY StepFacts DEF InsertOrder, RequestSteps
  <1>2. k \in Keys /\ request[r].amount \in Amounts /\ ~Placed(r)
        /\ providerOrder[r] = "none"
    BY <1>1 DEF Asked, Placed
  <1>3. r \notin known
    BY <1>2 DEF Asked, OrderRow
  <1> DEFINE new == [status |-> "PROVIDER_PENDING", amount |-> request[r].amount,
                     provider |-> NoRequest]
  <1>5. /\ new \in Orders /\ new # NoOrder
        /\ new.status = "PROVIDER_PENDING" /\ new.amount = request[r].amount
        /\ new.provider = NoRequest
        /\ order' = IF order[k] = NoOrder THEN [order EXCEPT ![k] = new] ELSE order
    BY <1>2 DEF InsertOrder, Orders, OrderStatuses, NoOrder
  <1> HIDE DEF new
  <1>6. TypeOK'
    BY <1>1, <1>2, <1>5 DEF InsertOrder, TypeOK
  <1>7. \A s \in Requests : Placed(s) => request[s].key # k \/ order[k] # NoOrder
    BY DEF Asked, NoOrder
  <1>8. \A s \in Requests : s # r => (Placed(s)' <=> Placed(s))
    BY <1>1 DEF Placed, InsertOrder
  <1>9. ASSUME NEW s \in Requests
        PROVE  Asked(s)'
    <2>1. CASE s = r
      BY <1>1, <1>2, <1>3, <1>5, <2>1 DEF InsertOrder, Asked, Placed, Placing, TypeOK
    <2>2. CASE s # r
      BY <1>1, <1>2, <1>5, <1>7, <1>8, <2>2 DEF InsertOrder, Asked, TypeOK, OrderRow, NoOrder
    <2> QED
      BY <2>1, <2>2
  <1>10. \A s, t \in Requests :
          Placed(s)' /\ Placed(t)' /\ request'[s].key = request'[t].key => s = t
    BY <1>1, <1>2, <1>7, <1>8 DEF Placed, Placing, InsertOrder
  <1>11. ASSUME NEW l \in Keys
        PROVE  OrderRow(l)'
    BY <1>1, <1>2, <1>5 DEF OrderRow, InsertOrder, TypeOK, Orders
  <1> QED
    BY <1>1, <1>6, <1>9, <1>10, <1>11, PaidFrame DEF InsertOrder

\* The steps of a call that leave the rows alone: it remains about its order.
LEMMA QuietPreserves ==
  ASSUME IInv, NEW r \in Requests,
         CallProvider(r) \/ OrderAnswered(r) \/ OrderFails(r) \/ Abandon(r) \/ TellOrder(r)
  PROVE  IInv'
  <1> USE RechargeAssumption DEF IInv, walletVars, providerVars
  <1>1. \E to \in {"called", "answered", "failed", "done"} :
             /\ Step(r, request[r].step, to)
             /\ request[r].step \notin {"idle", "refused", "done"}
             /\ to # "done" => Placed(r) /\ request[r].step # "new"
             /\ to = "answered" => providerOrder[r] = "created"
             /\ IF to = "called"
                THEN /\ request[r].step = "inserted"
                     /\ providerOrder' = [providerOrder EXCEPT ![r] = "requested"]
                ELSE UNCHANGED providerOrder
    BY DEF CallProvider, OrderAnswered, OrderFails, Abandon, TellOrder, Placed, Placing, Step
  <1>2. PICK to \in {"called", "answered", "failed", "done"} :
             /\ Step(r, request[r].step, to)
             /\ request[r].step \notin {"idle", "refused", "done"}
             /\ to # "done" => Placed(r) /\ request[r].step # "new"
             /\ to = "answered" => providerOrder[r] = "created"
             /\ IF to = "called"
                THEN /\ request[r].step = "inserted"
                     /\ providerOrder' = [providerOrder EXCEPT ![r] = "requested"]
                ELSE UNCHANGED providerOrder
    BY <1>1
  <1>3. /\ request' \in [Requests -> Calls]
        /\ request'[r].step = to
        /\ \A s \in Requests : /\ request'[s].key = request[s].key
                               /\ request'[s].amount = request[s].amount
                               /\ s # r => request'[s].step = request[s].step
    BY <1>2, StepFacts DEF RequestSteps
  <1>4. /\ UNCHANGED <<order, row, creditOf, balance, payment, verify>>
        /\ known \subseteq known' /\ known' \subseteq known \cup {r}
        /\ known' # known => request[r].step = "stored"
    BY DEF CallProvider, OrderAnswered, OrderFails, Abandon, TellOrder, TypeOK, Step
  <1>5. TypeOK'
    BY <1>2, <1>3, <1>4 DEF TypeOK
  <1>6. \A s \in Requests : Placed(s)' => Placed(s)
    BY <1>2, <1>3 DEF Placed, Placing, TypeOK
  <1>7. \A s \in Requests : providerOrder[s] = "created" => providerOrder'[s] = "created"
    BY <1>2 DEF TypeOK, Asked
  <1>8. ASSUME NEW s \in Requests
        PROVE  Asked(s)'
    <2>1. CASE s = r
      BY <1>2, <1>3, <1>4, <1>6, <1>7, <2>1 DEF Asked, TypeOK
    <2>2. CASE s # r
      BY <1>2, <1>3, <1>4, <1>6, <1>7, <2>2 DEF Asked, TypeOK
    <2> QED
      BY <2>1, <2>2
  <1>9. ASSUME NEW l \in Keys
        PROVE  OrderRow(l)'
    BY <1>3, <1>4, <1>7 DEF OrderRow, TypeOK, Orders
  <1> QED
    BY <1>3, <1>4, <1>5, <1>6, <1>8, <1>9, PaidFrame

LEMMA StorePreserves ==
  ASSUME IInv, NEW r \in Requests, StoreOrder(r)
  PROVE  IInv'
  <1> USE RechargeAssumption DEF IInv, walletVars, providerVars
  <1> DEFINE k == request[r].key
             new == [order[k] EXCEPT !.status = "PAYMENT_PENDING", !.provider = r]
  <1>1. /\ request' \in [Requests -> Calls]
        /\ request[r].step = "answered" /\ request'[r].step = "stored"
        /\ \A s \in Requests : /\ request'[s].key = request[s].key
                               /\ request'[s].amount = request[s].amount
                               /\ s # r => request'[s].step = request[s].step
    BY StepFacts DEF StoreOrder, RequestSteps
  <1>2. /\ Placed(r) /\ k \in Keys /\ providerOrder[r] = "created"
        /\ order[k].status # "none" /\ order[k].amount = request[r].amount
    BY <1>1 DEF Asked, Placed, Placing
  <1>3. order[k] \in Orders
    BY <1>2 DEF TypeOK
  <1>4. /\ new \in Orders /\ new.status = "PAYMENT_PENDING" /\ new.provider = r
        /\ new.amount = order[k].amount
        /\ order' = [order EXCEPT ![k] = new]
    BY <1>2, <1>3 DEF StoreOrder, Orders, OrderStatuses, TypeOK
  <1> HIDE DEF new
  <1>5. TypeOK'
    BY <1>1, <1>2, <1>4 DEF StoreOrder, TypeOK
  <1>6. \A s \in Requests : Placed(s)' <=> Placed(s)
    BY <1>1, <1>2 DEF Placed, Placing, StoreOrder
  <1>7. \A s \in Requests : order[k].provider = s => s = r
    BY <1>2 DEF OrderRow, Placed
  <1>8. ASSUME NEW s \in Requests
        PROVE  Asked(s)'
    <2>1. CASE s = r
      BY <1>1, <1>2, <1>4, <1>6, <2>1 DEF StoreOrder, Asked, TypeOK
    <2>2. CASE s # r
      BY <1>1, <1>2, <1>4, <1>6, <1>7, <2>2 DEF StoreOrder, Asked, TypeOK
    <2> QED
      BY <2>1, <2>2
  <1>9. ASSUME NEW l \in Keys
        PROVE  OrderRow(l)'
    BY <1>1, <1>2, <1>4 DEF OrderRow, StoreOrder, TypeOK, Orders
  <1> QED
    BY <1>1, <1>5, <1>6, <1>8, <1>9, PaidFrame DEF StoreOrder

LEMMA MarkFailedPreserves ==
  ASSUME IInv, NEW r \in Requests, MarkFailed(r)
  PROVE  IInv'
  <1> USE RechargeAssumption DEF IInv, walletVars, providerVars
  <1> DEFINE k == request[r].key
             new == [order[k] EXCEPT !.status =
                       IF order[k].provider = NoRequest THEN "FAILED" ELSE @]
  <1>1. /\ request' \in [Requests -> Calls]
        /\ request[r].step = "failed" /\ request'[r].step = "refused"
        /\ \A s \in Requests : /\ request'[s].key = request[s].key
                               /\ request'[s].amount = request[s].amount
                               /\ s # r => request'[s].step = request[s].step
    BY StepFacts DEF MarkFailed, RequestSteps
  <1>2. Placed(r) /\ k \in Keys /\ order[k].status # "none"
    BY <1>1 DEF Asked, Placed, Placing
  <1>3. order[k] \in Orders
    BY <1>2 DEF TypeOK
  <1>4. /\ new \in Orders /\ new.provider = order[k].provider
        /\ new.amount = order[k].amount /\ new.status # "none"
        /\ new.provider # NoRequest => new.status = order[k].status
    BY <1>2, <1>3 DEF Orders, OrderStatuses
  <1>5. order' = [order EXCEPT ![k] = new] \/ order' = order
    BY <1>2 DEF MarkFailed, TypeOK
  <1> HIDE DEF new
  <1>6. TypeOK'
    BY <1>1, <1>2, <1>4, <1>5 DEF MarkFailed, TypeOK
  <1>7. \A s \in Requests : Placed(s)' <=> Placed(s)
    BY <1>1, <1>2 DEF Placed, Placing, MarkFailed
  <1>8. \A l \in Keys : /\ order'[l].provider = order[l].provider
                        /\ order'[l].amount = order[l].amount
                        /\ order'[l].status = "none" <=> order[l].status = "none"
                        /\ order'[l].provider # NoRequest => order'[l].status = order[l].status
                        /\ order'[l].status = "none" => order'[l] = order[l]
    BY <1>2, <1>4, <1>5 DEF TypeOK
  <1>9. ASSUME NEW s \in Requests
        PROVE  Asked(s)'
    BY <1>1, <1>2, <1>7, <1>8 DEF MarkFailed, Asked
  <1>10. ASSUME NEW l \in Keys
         PROVE  OrderRow(l)'
    BY <1>1, <1>8 DEF OrderRow, MarkFailed, TypeOK, Orders
  <1> QED
    BY <1>1, <1>6, <1>7, <1>9, <1>10, PaidFrame DEF MarkFailed

-----------------------------------------------------------------------------
(* The provider.                                                           *)

LEMMA CreateOrderPreserves ==
  ASSUME IInv, NEW r \in Requests, CreateOrder(r)
  PROVE  IInv'
  <1> USE RechargeAssumption DEF IInv, walletVars, providerVars
  <1>1. TypeOK'
    BY DEF CreateOrder, TypeOK
  <1>2. \A s \in Requests : Placed(s)' <=> Placed(s)
    BY DEF CreateOrder, Placed, TypeOK
  <1>3. \A s \in Requests : providerOrder[s] = "created" => providerOrder'[s] = "created"
    BY DEF CreateOrder, TypeOK
  <1>4. \A s \in Requests : Asked(s)'
    BY <1>2, <1>3 DEF CreateOrder, Asked, TypeOK
  <1>5. \A k \in Keys : OrderRow(k)'
    BY <1>3 DEF CreateOrder, OrderRow, TypeOK, Orders
  <1> QED
    BY <1>1, <1>2, <1>4, <1>5, PaidFrame DEF CreateOrder

\* A payment that exists keeps its order, and a captured one is captured.
LEMMA PaymentFrame ==
  ASSUME IInv, TypeOK', UNCHANGED <<request, order, creditOf, providerOrder, known, verify>>,
         \A p \in Payments :
           /\ payment[p].state # "none" => payment'[p].order = payment[p].order
                                           /\ payment'[p].state # "none"
           /\ payment[p].state = "captured" => payment'[p] = payment[p]
           /\ payment'[p].state # "none" => payment'[p].order \in known
  PROVE  IInv'
  <1> USE DEF IInv
  <1>1. \A r \in Requests : Asked(r)' /\ (Placed(r)' <=> Placed(r))
    BY DEF Asked, Placed
  <1>2. \A k \in Keys : OrderRow(k)'
    BY DEF OrderRow
  <1>3. \A r \in Requests : IsPaid(r) => IsPaid(r)'
    BY DEF IsPaid
  <1>4. \A k \in Keys : CreditRow(k)'
    BY <1>3 DEF CreditRow
  <1>5. \A p \in Payments : Paid(p)'
    BY DEF Paid
  <1>6. \A v \in Verifiers : Fetched(v)'
    BY DEF Fetched
  <1> QED
    BY <1>1, <1>2, <1>4, <1>5, <1>6

LEMMA MakePaymentPreserves ==
  ASSUME IInv, NEW p \in Payments, NEW r \in Requests, MakePayment(p, r)
  PROVE  IInv'
  <1>1. [order |-> r, state |-> "authorized"] \in Money
    BY DEF Money, ProviderStates
  <1>2. TypeOK'
    BY <1>1 DEF IInv, MakePayment, TypeOK, walletVars
  <1> QED
    BY <1>2, PaymentFrame DEF MakePayment, NotMade, IInv, TypeOK, Paid, walletVars

LEMMA SettlePaymentPreserves ==
  ASSUME IInv, NEW p \in Payments, NEW s \in {"captured", "refunded"}, SettlePayment(p, s)
  PROVE  IInv'
  <1> DEFINE new == [payment[p] EXCEPT !.state = s]
  <1>1. payment[p] \in Money /\ payment[p].state = "authorized"
    BY DEF IInv, TypeOK, SettlePayment
  <1>2. /\ new \in Money /\ new.order = payment[p].order /\ new.state = s
        /\ payment' = [payment EXCEPT ![p] = new]
    BY <1>1 DEF SettlePayment, Money, ProviderStates, IInv, TypeOK
  <1> HIDE DEF new
  <1>3. TypeOK'
    BY <1>2 DEF IInv, SettlePayment, TypeOK, walletVars
  <1> QED
    BY <1>1, <1>2, <1>3, PaymentFrame DEF SettlePayment, IInv, TypeOK, Paid, walletVars

-----------------------------------------------------------------------------
(* The verifications.                                                      *)

\* A payment that was made belongs to an order that CMS has stored.
LEMMA PaidOrder ==
  ASSUME IInv, NEW p \in Payments, payment[p].state # "none"
  PROVE  /\ payment[p].order \in Requests
         /\ payment[p].order \in known
         /\ KeyOfPayment(p) \in Keys
         /\ order[KeyOfPayment(p)] \in Orders
         /\ order[KeyOfPayment(p)].provider = payment[p].order
         /\ order[KeyOfPayment(p)].status \in {"PAYMENT_PENDING", "PAID"}
         /\ order[KeyOfPayment(p)].amount = request[payment[p].order].amount
         /\ order[KeyOfPayment(p)].amount \in Amounts
         /\ Placed(payment[p].order)
  <1> USE RechargeAssumption DEF IInv
  <1>1. payment[p].order \in known /\ payment[p].order \in Requests
    BY DEF Paid, TypeOK
  <1>2. /\ KeyOfPayment(p) \in Keys
        /\ order[KeyOfPayment(p)].provider = payment[p].order
    BY <1>1 DEF Asked, KeyOfPayment
  <1>3. OrderRow(KeyOfPayment(p)) /\ order[KeyOfPayment(p)] \in Orders
    BY <1>2 DEF TypeOK
  <1>4. Placed(payment[p].order)
    BY <1>1, <1>2, <1>3 DEF OrderRow, Placed
  <1> QED
    BY <1>1, <1>2, <1>3, <1>4 DEF OrderRow, Asked, KeyOfPayment

\* Only the statuses of orders change, only from a stored one to a stored one.
LEMMA StatusFrame ==
  ASSUME IInv, TypeOK', UNCHANGED <<request, providerOrder, payment, known>>,
         \A k \in Keys : /\ order'[k].provider = order[k].provider
                         /\ order'[k].amount = order[k].amount
                         /\ \/ order'[k] = order[k]
                            \/ /\ order[k].provider # NoRequest
                               /\ order'[k].status \in {"PAYMENT_PENDING", "PAID"}
                               /\ order[k].status # "none",
         \A k \in Keys : CreditRow(k)',
         \A v \in Verifiers : Fetched(v)'
  PROVE  IInv'
  <1> USE DEF IInv
  <1>1. \A r \in Requests : Asked(r)' /\ (Placed(r)' <=> Placed(r))
    BY DEF Asked, Placed
  <1>2. \A k \in Keys : OrderRow(k)'
    BY DEF OrderRow
  <1>3. \A p \in Payments : Paid(p)'
    BY DEF Paid
  <1> QED
    BY <1>1, <1>2, <1>3

LEMMA LoadPreserves ==
  ASSUME IInv, NEW v \in Verifiers, NEW p \in Payments, LoadOrder(v, p)
  PROVE  IInv'
  <1> USE DEF LoadOrder, walletVars, providerVars
  <1>1. [step |-> "loaded", payment |-> p, state |-> "none"] \in Checks
    BY DEF Checks
  <1>2. TypeOK'
    BY <1>1 DEF IInv, TypeOK
  <1>3. \A u \in Verifiers : Fetched(u)'
    BY DEF IInv, TypeOK, Fetched
  <1>4. \A k \in Keys : CreditRow(k)'
    BY DEF IInv, CreditRow, IsPaid
  <1> QED
    BY <1>2, <1>3, <1>4, StatusFrame

LEMMA FetchPreserves ==
  ASSUME IInv, NEW v \in Verifiers, FetchPayment(v)
  PROVE  IInv'
  <1> USE DEF FetchPayment, walletVars, providerVars
  <1> DEFINE p == verify[v].payment
             new == [verify[v] EXCEPT !.step = "fetched", !.state = payment[p].state]
  <1>1. verify[v] \in Checks /\ verify[v].step = "loaded"
    BY DEF IInv, TypeOK
  <1>2. p \in Payments /\ payment[p].state # "none"
    BY <1>1 DEF IInv, Fetched
  <1>3. payment[p].state \in ProviderStates \cup {"none"}
    BY <1>2 DEF IInv, TypeOK, Money
  <1>4. /\ verify' = [verify EXCEPT ![v] = new]
        /\ new \in Checks /\ new.step = "fetched" /\ new.payment = p
        /\ new.state = payment[p].state
    BY <1>1, <1>3 DEF Checks, IInv, TypeOK
  <1> HIDE DEF new
  <1>5. TypeOK'
    BY <1>4 DEF IInv, TypeOK
  <1>6. \A u \in Verifiers : Fetched(u)'
    BY <1>2, <1>4 DEF IInv, TypeOK, Fetched
  <1>7. \A k \in Keys : CreditRow(k)'
    BY DEF IInv, CreditRow, IsPaid
  <1> QED
    BY <1>5, <1>6, <1>7, StatusFrame

\* A verification that is over leaves nothing to say of itself.
LEMMA VerifiedFacts ==
  ASSUME IInv, NEW v \in Verifiers, Verified(v), UNCHANGED payment
  PROVE  /\ verify' \in [Verifiers -> Checks]
         /\ \A u \in Verifiers : Fetched(u)'
  <1>1. Idle \in Checks /\ Idle.step = "idle"
    BY DEF Idle, Checks
  <1>2. verify' \in [Verifiers -> Checks]
    BY <1>1 DEF Verified, IInv, TypeOK
  <1>3. \A u \in Verifiers : Fetched(u)'
    BY <1>1 DEF Verified, IInv, TypeOK, Fetched
  <1> QED
    BY <1>2, <1>3

LEMMA StopPreserves ==
  ASSUME IInv, NEW v \in Verifiers, VerifyStops(v)
  PROVE  IInv'
  <1> USE DEF VerifyStops, walletVars, providerVars
  <1>1. /\ verify' \in [Verifiers -> Checks]
        /\ \A u \in Verifiers : Fetched(u)'
    BY VerifiedFacts
  <1>2. TypeOK'
    BY <1>1 DEF IInv, TypeOK
  <1>3. \A k \in Keys : CreditRow(k)'
    BY DEF IInv, CreditRow, IsPaid
  <1> QED
    BY <1>1, <1>2, <1>3, StatusFrame

\* What a verification stores of its payment
LEMMA StoredRow ==
  ASSUME IInv, NEW v \in Verifiers, verify[v].step = "fetched", StorePayment(v)
  PROVE  row' \in [Payments -> RowStatuses \cup {"none"}]
  <1>1. PaymentStatus(verify[v].state) \in RowStatuses
    BY DEF PaymentStatus, RowStatuses
  <1> QED
    BY <1>1 DEF StorePayment, IInv, TypeOK

LEMMA UncapturedPreserves ==
  ASSUME IInv, NEW v \in Verifiers, StoreUncaptured(v)
  PROVE  IInv'
  <1> USE DEF StoreUncaptured, walletVars, providerVars
  <1> DEFINE p == verify[v].payment
             k == KeyOfPayment(p)
             new == [order[k] EXCEPT !.status = "PAYMENT_PENDING"]
  <1>1. p \in Payments /\ payment[p].state # "none"
    BY DEF IInv, Fetched
  <1>2. /\ k \in Keys /\ order[k] \in Orders
        /\ order[k].provider \in Requests
        /\ order[k].status \in {"PAYMENT_PENDING", "PAID"}
    BY <1>1, PaidOrder
  <1>3. /\ new \in Orders /\ new.status = "PAYMENT_PENDING"
        /\ new.amount = order[k].amount /\ new.provider = order[k].provider
        /\ order' = [order EXCEPT ![k] = new]
    BY <1>2 DEF Orders, OrderStatuses, IInv, TypeOK
  <1> HIDE DEF new
  <1>4. /\ verify' \in [Verifiers -> Checks]
        /\ \A u \in Verifiers : Fetched(u)'
    BY VerifiedFacts
  <1>5. TypeOK'
    BY <1>2, <1>3, <1>4, StoredRow DEF IInv, TypeOK
  <1>6. \A l \in Keys : CreditRow(l)'
    BY DEF IInv, CreditRow, IsPaid
  <1> QED
    BY <1>2, <1>3, <1>4, <1>5, <1>6, StatusFrame, RechargeAssumption DEF IInv, TypeOK

\* The credit of a captured payment: what it adds, and on what evidence
LEMMA CreditFacts ==
  ASSUME IInv, NEW v \in Verifiers, CreditCaptured(v),
         ~AlreadyCredited(KeyOfPayment(verify[v].payment))
  PROVE  LET r == payment[verify[v].payment].order
             k == request[r].key
         IN  /\ r \in Requests /\ k \in Keys /\ IsPaid(r)
             /\ request[r].amount \in Amounts /\ creditOf[k] = 0
             /\ creditOf' = [creditOf EXCEPT ![k] = request[r].amount]
             /\ balance' = balance + request[r].amount
  <1> DEFINE p == verify[v].payment
  <1>1. verify[v].state = "captured" /\ verify[v].step = "fetched"
    BY DEF CreditCaptured, IsCaptured, PaymentStatus
  <1>2. p \in Payments /\ payment[p].state = "captured"
    BY <1>1 DEF IInv, Fetched
  <1>3. payment[p] \in Money
    BY <1>2 DEF IInv, TypeOK
  <1>4. payment[p] = [order |-> payment[p].order, state |-> "captured"]
    BY <1>2, <1>3 DEF Money
  <1>5. IsPaid(payment[p].order)
    BY <1>2, <1>4 DEF IsPaid
  <1>6. /\ payment[p].order \in Requests
        /\ KeyOfPayment(p) \in Keys
        /\ order[KeyOfPayment(p)].amount = request[payment[p].order].amount
        /\ order[KeyOfPayment(p)].amount \in Amounts
    BY <1>2, PaidOrder
  <1> QED
    BY <1>5, <1>6 DEF CreditCaptured, AlreadyCredited, KeyOfPayment

LEMMA CreditPreserves ==
  ASSUME IInv, NEW v \in Verifiers, CreditCaptured(v)
  PROVE  IInv'
  <1> USE DEF CreditCaptured, walletVars, providerVars
  <1> DEFINE p == verify[v].payment
             k == KeyOfPayment(p)
             r == payment[p].order
             new == [order[k] EXCEPT !.status = "PAID"]
  <1>1. /\ verify' \in [Verifiers -> Checks]
        /\ \A u \in Verifiers : Fetched(u)'
    BY VerifiedFacts
  <1>2. CASE AlreadyCredited(k)
    <2>1. UNCHANGED <<order, row, creditOf, balance>>
      BY <1>2
    <2>2. TypeOK'
      BY <1>1, <2>1 DEF IInv, TypeOK
    <2>3. \A l \in Keys : CreditRow(l)'
      BY <2>1 DEF IInv, CreditRow, IsPaid
    <2> QED
      BY <1>1, <2>1, <2>2, <2>3, StatusFrame
  <1>3. CASE ~AlreadyCredited(k)
    <2>1. p \in Payments /\ payment[p].state # "none"
      BY DEF IInv, Fetched
    <2>2. /\ k \in Keys /\ order[k] \in Orders
          /\ order[k].provider \in Requests
          /\ order[k].status \in {"PAYMENT_PENDING", "PAID"}
      BY <2>1, PaidOrder
    <2>3. /\ new \in Orders /\ new.status = "PAID"
          /\ new.amount = order[k].amount /\ new.provider = order[k].provider
          /\ order' = [order EXCEPT ![k] = new]
      BY <1>3, <2>2 DEF Orders, OrderStatuses, IInv, TypeOK
    <2> HIDE DEF new
    <2>4. /\ r \in Requests /\ request[r].key = k /\ IsPaid(r)
          /\ request[r].amount \in Amounts /\ creditOf[k] = 0
          /\ creditOf' = [creditOf EXCEPT ![k] = request[r].amount]
          /\ balance' = balance + request[r].amount
      BY <1>3, CreditFacts DEF KeyOfPayment
    <2>5. balance' \in Nat
      BY <2>4, RechargeAssumption DEF IInv, TypeOK
    <2>6. TypeOK'
      BY <1>1, <1>3, <2>2, <2>3, <2>4, <2>5, StoredRow DEF IInv, TypeOK
    <2>7. \A s \in Requests : IsPaid(s)' <=> IsPaid(s)
      BY DEF IsPaid
    <2>8. \A l \in Keys : CreditRow(l)'
      BY <2>4, <2>7 DEF IInv, TypeOK, CreditRow
    <2> QED
      BY <1>1, <2>2, <2>3, <2>6, <2>8, StatusFrame, RechargeAssumption DEF IInv, TypeOK
  <1> QED
    BY <1>2, <1>3

-----------------------------------------------------------------------------
(* The theorems.                                                           *)

LEMMA InitIInv == Init => IInv
  <1> SUFFICES ASSUME Init PROVE IInv
    OBVIOUS
  <1>1. TypeOK
    BY DEF Init, TypeOK, Calls, Orders, Money, Checks, RequestSteps, NoOrder, NotMade, Idle
  <1>2. \A r \in Requests : Asked(r) /\ ~Placed(r)
    BY DEF Init, Asked, Placed, Placing
  <1>3. \A k \in Keys : OrderRow(k) /\ CreditRow(k)
    BY DEF Init, OrderRow, CreditRow, NoOrder
  <1>4. \A p \in Payments : Paid(p)
    BY DEF Init, Paid, NotMade
  <1>5. \A v \in Verifiers : Fetched(v)
    BY DEF Init, Fetched, Idle
  <1> QED
    BY <1>1, <1>2, <1>3, <1>4, <1>5 DEF IInv

LEMMA StepIInv == IInv /\ [Next]_vars => IInv'
  <1> SUFFICES ASSUME IInv, [Next]_vars PROVE IInv'
    OBVIOUS
  <1>1. ASSUME NEW r \in Requests, Request(r)
        PROVE  IInv'
    BY <1>1, AskPreserves, InsertPreserves, QuietPreserves, StorePreserves,
       MarkFailedPreserves DEF Request
  <1>2. ASSUME NEW r \in Requests, CreateOrder(r)
        PROVE  IInv'
    BY <1>2, CreateOrderPreserves
  <1>3. ASSUME NEW v \in Verifiers, NEW p \in Payments, LoadOrder(v, p)
        PROVE  IInv'
    BY <1>3, LoadPreserves
  <1>4. ASSUME NEW v \in Verifiers, Resolve(v)
        PROVE  IInv'
    BY <1>4, FetchPreserves, UncapturedPreserves, CreditPreserves DEF Resolve
  <1>5. ASSUME NEW p \in Payments, NEW r \in Requests, MakePayment(p, r)
        PROVE  IInv'
    BY <1>5, MakePaymentPreserves
  <1>6. ASSUME NEW p \in Payments, NEW s \in {"captured", "refunded"}, SettlePayment(p, s)
        PROVE  IInv'
    BY <1>6, SettlePaymentPreserves
  <1>7. ASSUME NEW v \in Verifiers, VerifyStops(v)
        PROVE  IInv'
    BY <1>7, StopPreserves
  <1>8. CASE UNCHANGED vars
    <2> USE <1>8 DEF vars, walletVars, providerVars
    <2>1. \A r \in Requests : (IsPaid(r)' <=> IsPaid(r)) /\ (Placed(r)' <=> Placed(r))
      BY DEF IsPaid, Placed
    <2>2. \A k \in Keys : CreditRow(k)' /\ OrderRow(k)'
      BY <2>1 DEF CreditRow, OrderRow, IInv
    <2>3. \A r \in Requests : Asked(r)'
      BY <2>1 DEF Asked, IInv
    <2>4. TypeOK' /\ (\A p \in Payments : Paid(p)') /\ (\A v \in Verifiers : Fetched(v)')
      BY DEF TypeOK, Paid, Fetched, IInv
    <2> QED
      BY <2>1, <2>2, <2>3, <2>4 DEF IInv
  <1> QED
    BY <1>1, <1>2, <1>3, <1>4, <1>5, <1>6, <1>7, <1>8 DEF Next, Work

\* The strengthening of the properties below: a key's order is placed by one
\* call, and what was stored, paid, fetched and credited is about that call.
THEOREM RechargeInductive == Spec => []IInv
  <1> QED
    BY InitIInv, StepIInv, PTL DEF Spec

\* The types hold.
THEOREM RechargeTypes == Spec => []TypeOK
  <1>1. IInv => TypeOK
    BY DEF IInv
  <1> QED
    BY <1>1, RechargeInductive, PTL

\* However often a key is used, one order is placed with the provider.
THEOREM OneOrderPerKey == Spec => []OneProviderOrder
  <1>1. IInv => OneProviderOrder
    BY DEF IInv, OneProviderOrder, Placed
  <1> QED
    BY <1>1, RechargeInductive, PTL

\* CMS finds the order of captured money, with the amount that was paid.
THEOREM MoneyIsKnown == Spec => []CapturedIsKnown
  <1>1. IInv => CapturedIsKnown
    BY PaidOrder DEF CapturedIsKnown, KeyOfPayment
  <1> QED
    BY <1>1, RechargeInductive, PTL

-----------------------------------------------------------------------------
(* The protocol implements the ledger.                                     *)

Taken == {[key |-> request[r].key, amount |-> request[r].amount] :
             r \in {s \in Requests : IsPaid(s)}}
Given == {[key |-> k, amount |-> creditOf[k]] : k \in {l \in Keys : creditOf[l] # 0}}

LEMMA PaidHasKey ==
  ASSUME IInv, NEW r \in Requests, IsPaid(r)
  PROVE  /\ request[r].key \in Keys /\ request[r].amount \in Amounts
         /\ Placed(r) /\ request[r].step # "idle"
  <1>1. PICK p \in Payments : payment[p] = [order |-> r, state |-> "captured"]
    BY DEF IsPaid
  <1>2. payment[p].state # "none" /\ payment[p].order = r
    BY <1>1
  <1> QED
    BY <1>2, PaidOrder DEF KeyOfPayment, IInv, Asked

\* A step of a call changes nothing of a recharge that is paid.
LEMMA CallsKeepPaid ==
  ASSUME IInv, NEW r \in Requests, Request(r)
  PROVE  /\ Taken' = Taken
         /\ UNCHANGED <<creditOf, balance>>
  <1>1. UNCHANGED <<creditOf, balance, payment>>
    BY DEF Request, AskForOrder, InsertOrder, CallProvider, OrderAnswered, OrderFails,
           StoreOrder, TellOrder, MarkFailed, Abandon, walletVars, providerVars
  <1>2. \A s \in Requests : IsPaid(s)' <=> IsPaid(s)
    BY <1>1 DEF IsPaid
  <1>3. ASSUME NEW s \in Requests, IsPaid(s)
        PROVE  request'[s].key = request[s].key /\ request'[s].amount = request[s].amount
    <2>1. CASE \E k \in Keys, a \in Amounts : AskForOrder(r, k, a)
      <3>1. request[r].step = "idle" /\ \A t \in Requests : t # r => request'[t] = request[t]
        BY <2>1 DEF AskForOrder, IInv, TypeOK
      <3> QED
        BY <1>3, <3>1, PaidHasKey
    <2>2. CASE \E from, to \in RequestSteps : Step(r, from, to)
      BY <2>2, StepFacts DEF IInv
    <2>3. InsertOrder(r) => \E from, to \in RequestSteps : Step(r, from, to)
      BY DEF InsertOrder, RequestSteps
    <2>4. (CallProvider(r) \/ OrderAnswered(r) \/ OrderFails(r) \/ StoreOrder(r))
             => \E from, to \in RequestSteps : Step(r, from, to)
      BY DEF CallProvider, OrderAnswered, OrderFails, StoreOrder, RequestSteps
    <2>5. (TellOrder(r) \/ MarkFailed(r) \/ Abandon(r))
             => \E from, to \in RequestSteps : Step(r, from, to)
      BY DEF TellOrder, MarkFailed, Abandon, RequestSteps
    <2> QED
      BY <2>1, <2>2, <2>3, <2>4, <2>5 DEF Request
  <1>4. Taken' = Taken
    BY <1>2, <1>3 DEF Taken
  <1> QED
    BY <1>1, <1>4

\* Capturing a payment takes money for a key nothing was taken for.
LEMMA CaptureTakes ==
  ASSUME IInv, NEW p \in Payments, SettlePayment(p, "captured")
  PROVE  \E g \in [key : Keys, amount : Amounts] :
           /\ \A h \in Taken : h.key # g.key
           /\ Taken' = Taken \cup {g}
  <1> DEFINE r == payment[p].order
             g == [key |-> request[r].key, amount |-> request[r].amount]
  <1>1. payment[p].state = "authorized" /\ ~IsPaid(r)
    BY DEF SettlePayment
  <1>2. /\ r \in Requests /\ request[r].key \in Keys /\ request[r].amount \in Amounts
        /\ Placed(r)
    BY <1>1, PaidOrder DEF KeyOfPayment
  <1>3. \A s \in Requests : IsPaid(s) => request[s].key # request[r].key
    BY <1>1, <1>2, PaidHasKey DEF IInv
  <1>4. payment[p] \in Money
    BY DEF IInv, TypeOK
  <1>5. /\ payment'[p] = [order |-> r, state |-> "captured"]
        /\ \A q \in Payments : q # p => payment'[q] = payment[q]
    BY <1>4 DEF SettlePayment, IInv, TypeOK, Money
  <1>6. \A s \in Requests : IsPaid(s)' <=> IsPaid(s) \/ s = r
    <2>1. \A q \in Payments, s \in Requests :
            payment'[q] = [order |-> s, state |-> "captured"]
              <=> \/ q # p /\ payment[q] = [order |-> s, state |-> "captured"]
                  \/ q = p /\ s = r
      BY <1>5
    <2>2. \A s \in Requests : payment[p] # [order |-> s, state |-> "captured"]
      BY <1>1
    <2> QED
      BY <2>1, <2>2 DEF IsPaid
  <1>7. UNCHANGED request
    BY DEF SettlePayment
  <1>8. Taken' = Taken \cup {g}
    BY <1>2, <1>6, <1>7 DEF Taken
  <1>9. \A h \in Taken : h.key # g.key
    BY <1>3 DEF Taken
  <1> QED
    BY <1>2, <1>8, <1>9

\* A credit is one of money that was taken, and was not credited before.
LEMMA CreditGives ==
  ASSUME IInv, NEW v \in Verifiers, CreditCaptured(v),
         ~AlreadyCredited(KeyOfPayment(verify[v].payment))
  PROVE  \E g \in [key : Keys, amount : Amounts] :
           /\ g \in Taken \ Given
           /\ Given' = Given \cup {g}
           /\ balance' = balance + g.amount
  <1> DEFINE r == payment[verify[v].payment].order
             k == request[r].key
             g == [key |-> k, amount |-> request[r].amount]
  <1>1. /\ r \in Requests /\ k \in Keys /\ IsPaid(r)
        /\ request[r].amount \in Amounts /\ creditOf[k] = 0
        /\ creditOf' = [creditOf EXCEPT ![k] = request[r].amount]
        /\ balance' = balance + request[r].amount
    BY CreditFacts
  <1>2. g \in Taken
    BY <1>1 DEF Taken
  <1>3. g \notin Given
    BY <1>1 DEF Given
  <1>4. /\ creditOf'[k] = request[r].amount /\ request[r].amount # 0
        /\ \A l \in Keys : l # k => creditOf'[l] = creditOf[l]
    BY <1>1, RechargeAssumption DEF IInv, TypeOK
  <1>5. Given' = Given \cup {g}
    <2>1. Given' = {[key |-> l, amount |-> creditOf'[l]] : l \in {m \in Keys : creditOf'[m] # 0}}
      BY DEF Given
    <2>2. \A l \in Keys : creditOf'[l] # 0 <=> creditOf[l] # 0 \/ l = k
      BY <1>1, <1>4
    <2>3. \A l \in Keys : l # k =>
            [key |-> l, amount |-> creditOf'[l]] = [key |-> l, amount |-> creditOf[l]]
      BY <1>4
    <2>4. [key |-> k, amount |-> creditOf'[k]] = g
      BY <1>4
    <2>5. Given = {[key |-> l, amount |-> creditOf[l]] : l \in {m \in Keys : creditOf[m] # 0}}
      BY DEF Given
    <2>6. ASSUME NEW x \in Given'
          PROVE  x \in Given \cup {g}
      <3>1. PICK l \in Keys : creditOf'[l] # 0 /\ x = [key |-> l, amount |-> creditOf'[l]]
        BY <2>1
      <3> QED
        BY <2>2, <2>3, <2>4, <2>5, <3>1
    <2>7. ASSUME NEW x \in Given \cup {g}
          PROVE  x \in Given'
      <3>1. CASE x = g
        BY <1>1, <2>1, <2>2, <2>4, <3>1
      <3>2. CASE x \in Given
        <4>1. PICK l \in Keys : creditOf[l] # 0 /\ x = [key |-> l, amount |-> creditOf[l]]
          BY <2>5, <3>2
        <4>2. l # k
          BY <1>1, <4>1
        <4> QED
          BY <2>1, <2>2, <2>3, <4>1, <4>2
      <3> QED
        BY <3>1, <3>2
    <2> QED
      BY <2>6, <2>7
  <1>6. g \in [key : Keys, amount : Amounts] /\ balance' = balance + g.amount
    BY <1>1
  <1> QED
    BY <1>2, <1>3, <1>5, <1>6

LEMMA LedgerStep ==
  ASSUME IInv, [Next]_vars
  PROVE  [Ledger!LedgerNext]_(Ledger!ledgerVars)
  <1> USE DEF Ledger!LedgerNext, Ledger!ledgerVars, Ledger!TakeMoney, Ledger!Credit,
              Ledger!Recharges
  <1>1. ASSUME NEW r \in Requests, Request(r)
        PROVE  UNCHANGED <<Taken, Given, balance>>
    BY <1>1, CallsKeepPaid DEF Given
  <1>2. ASSUME UNCHANGED <<request, payment, creditOf, balance>>
        PROVE  UNCHANGED <<Taken, Given, balance>>
    <2>1. \A s \in Requests : IsPaid(s)' <=> IsPaid(s)
      BY <1>2 DEF IsPaid
    <2> QED
      BY <1>2, <2>1 DEF Taken, Given
  <1>3. ASSUME NEW p \in Payments, SettlePayment(p, "captured")
        PROVE  /\ \E g \in [key : Keys, amount : Amounts] :
                    (\A h \in Taken : h.key # g.key) /\ Taken' = Taken \cup {g}
               /\ UNCHANGED <<Given, balance>>
    BY <1>3, CaptureTakes DEF SettlePayment, Given, walletVars
  <1>4. ASSUME NEW p \in Payments, SettlePayment(p, "refunded")
        PROVE  UNCHANGED <<Taken, Given, balance>>
    <2>1. \A q \in Payments, s \in Requests :
            payment'[q] = [order |-> s, state |-> "captured"]
              <=> payment[q] = [order |-> s, state |-> "captured"]
      <3>1. payment[p] \in Money /\ payment[p].state = "authorized"
        BY <1>4 DEF SettlePayment, IInv, TypeOK
      <3>2. payment'[p].state = "refunded" /\ \A q \in Payments : q # p => payment'[q] = payment[q]
        BY <1>4, <3>1 DEF SettlePayment, IInv, TypeOK, Money
      <3> QED
        BY <3>1, <3>2
    <2>2. \A s \in Requests : IsPaid(s)' <=> IsPaid(s)
      BY <2>1 DEF IsPaid
    <2> QED
      BY <1>4, <2>2 DEF SettlePayment, Taken, Given, walletVars
  <1>5. ASSUME NEW v \in Verifiers, CreditCaptured(v)
        PROVE  \/ UNCHANGED <<Taken, Given, balance>>
               \/ /\ \E g \in [key : Keys, amount : Amounts] :
                       /\ g \in Taken \ Given /\ Given' = Given \cup {g}
                       /\ balance' = balance + g.amount
                  /\ UNCHANGED Taken
    <2>1. UNCHANGED <<request, payment>>
      BY <1>5 DEF CreditCaptured, providerVars
    <2>2. \A s \in Requests : IsPaid(s)' <=> IsPaid(s)
      BY <2>1 DEF IsPaid
    <2>3. UNCHANGED Taken
      BY <2>1, <2>2 DEF Taken
    <2>4. CASE AlreadyCredited(KeyOfPayment(verify[v].payment))
      BY <1>5, <2>3, <2>4 DEF CreditCaptured, Given
    <2>5. CASE ~AlreadyCredited(KeyOfPayment(verify[v].payment))
      BY <1>5, <2>3, <2>5, CreditGives
    <2> QED
      BY <2>4, <2>5
  <1>6. \/ \E r \in Requests : Request(r)
        \/ UNCHANGED <<request, payment, creditOf, balance>>
        \/ \E p \in Payments, r \in Requests : MakePayment(p, r)
        \/ \E p \in Payments : SettlePayment(p, "captured") \/ SettlePayment(p, "refunded")
        \/ \E v \in Verifiers : CreditCaptured(v)
    BY DEF Next, Work, Resolve, CreateOrder, LoadOrder, FetchPayment, StoreUncaptured,
           VerifyStops, vars, walletVars, providerVars
  <1>7. ASSUME NEW p \in Payments, NEW r \in Requests, MakePayment(p, r)
        PROVE  UNCHANGED <<Taken, Given, balance>>
    <2>1. \A q \in Payments, s \in Requests :
            payment'[q] = [order |-> s, state |-> "captured"]
              <=> payment[q] = [order |-> s, state |-> "captured"]
      BY <1>7 DEF MakePayment, NotMade, IInv, TypeOK
    <2>2. \A s \in Requests : IsPaid(s)' <=> IsPaid(s)
      BY <2>1 DEF IsPaid
    <2> QED
      BY <1>7, <2>2 DEF MakePayment, Taken, Given, walletVars
  <1> QED
    BY <1>1, <1>2, <1>3, <1>4, <1>5, <1>6, <1>7 DEF Taken, Given

\* Every step of the protocol takes money, credits it, or is none of the
\* ledger's business.
THEOREM RechargeLedgerImplemented == Spec => ImplementsLedger
  <1>1. Init => Ledger!LedgerInit
    <2> SUFFICES ASSUME Init PROVE Ledger!LedgerInit
      OBVIOUS
    <2>1. \A r \in Requests : ~IsPaid(r)
      BY DEF Init, IsPaid, NotMade
    <2> QED
      BY <2>1 DEF Init, Ledger!LedgerInit
  <1>2. IInv /\ [Next]_vars => [Ledger!LedgerNext]_(Ledger!ledgerVars)
    BY LedgerStep
  <1> QED
    BY <1>1, <1>2, RechargeInductive, PTL DEF Spec, ImplementsLedger, Ledger!LedgerSpec
=============================================================================
