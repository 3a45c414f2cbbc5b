---------------------------- MODULE Billing_proofs ----------------------------
(***************************************************************************)
(* Theorems about what customers and operators pay for: Invoicing, for any *)
(* sessions and workers and any limits, and Subscriptions, for any         *)
(* operators, commands and lifecycle workers.  The invoice numbers of a    *)
(* financial year are consecutive, and what is issued goes out as it is    *)
(* and as often as it was asked for; the history of a subscription tells   *)
(* the whole story, and a renewal lets customers in again.                 *)
(***************************************************************************)
EXTENDS Invoicing, Subscriptions, FiniteSetTheorems, SequenceTheorems, TLAPS

Phases == {"issue", "generate", "deliver"}
Steps == {"start", "next", "locked", "allocated", "claimed", "unpublished", "published",
          "failed", "mail", "opened", "before", "terminal", "sent", "unsure"}
InvoiceStates == {"absent", "PENDING", "GENERATING", "READY", "FAILED", "CORRUPT"}
DeliveryStates == {"absent", "PENDING", "SENDING", "SENT", "FAILED", "AMBIGUOUS"}

Worker == [phase : Phases, batch : SUBSET Sessions, left : 0 .. BatchSize, step : Steps,
           session : Sessions \cup {NoSession}, attempt : 0 .. MaxAttempts]
Invoice == [status : InvoiceStates, attempts : 0 .. MaxAttempts, stale : BOOLEAN]
Delivery == [status : DeliveryStates, attempts : 0 .. MaxAttempts, stale : BOOLEAN]

\* The range of every variable but the bounds and the histories.
WorkerTypes ==
  /\ worker \in [Workers -> Worker]
  /\ \A w \in Workers : worker[w].step \notin {"start", "next"} => worker[w].session \in Sessions
NumberTypes ==
  /\ settled \subseteq Sessions
  /\ next \in 1 .. (MaxSerial + 1)
  /\ number \in [Sessions -> 0 .. MaxSerial]
RowTypes ==
  /\ invoice \in [Sessions -> Invoice]
  /\ file \in [Sessions -> {"none", "pdf", "other"}]
  /\ delivery \in [Sessions -> Delivery]
Types == WorkerTypes /\ NumberTypes /\ RowTypes

Holds(w) == worker[w].step \in {"locked", "allocated"}
HasNumber(w) == worker[w].step = "allocated"

\* Nobody shares a row lock, on a session or on the number sequence.
Locks ==
  \A v, w \in Workers :
    /\ Holds(v) /\ Holds(w) /\ worker[v].session = worker[w].session => v = w
    /\ HasNumber(v) /\ HasNumber(w) => v = w

\* The transaction in flight has drawn the next number, for a session without
\* an invoice; the others belong to the issued invoices, one each.
Numbers ==
  /\ \A w \in Workers : HasNumber(w) => /\ number[worker[w].session] = next
                                        /\ next <= MaxSerial
                                        /\ invoice[worker[w].session].status = "absent"
  /\ \A s \in Sessions :
       /\ invoice[s].status # "absent" => number[s] \in 1 .. (next - 1)
       /\ number[s] # Unnumbered =>
            \/ invoice[s].status # "absent"
            \/ \E w \in Workers : HasNumber(w) /\ worker[w].session = s
  /\ \A n \in 1 .. (next - 1) : \E s \in Issued : number[s] = n
  /\ \A s, t \in Issued : number[s] = number[t] => s = t

IInv == Types /\ Locks /\ Numbers

-----------------------------------------------------------------------------
LEMMA InitInv == Init => IInv
  <1> SUFFICES ASSUME Init PROVE IInv
    OBVIOUS
  <1> USE InvoicingAssumption DEF Init, Idle
  <1>1. WorkerTypes
    BY DEF WorkerTypes, Worker, Phases, Steps
  <1>2. NumberTypes
    BY DEF NumberTypes, Unnumbered
  <1>3. RowTypes
    BY DEF RowTypes, Invoice, Delivery, InvoiceStates, DeliveryStates
  <1>4. Locks
    BY DEF Locks, Holds, HasNumber
  <1>5. Numbers
    BY DEF Numbers, HasNumber, Issued, Unnumbered
  <1> QED
    BY <1>1, <1>2, <1>3, <1>4, <1>5 DEF IInv, Types

-----------------------------------------------------------------------------
(* Types. *)

\* Records of workers stay records of workers.
LEMMA WorkerFields ==
  ASSUME NEW r \in Worker
  PROVE  /\ r.batch \subseteq Sessions /\ r.left \in 0 .. BatchSize
         /\ r.session \in Sessions \cup {NoSession} /\ r.attempt \in 0 .. MaxAttempts
  BY DEF Worker
LEMMA WorkerMoves ==
  ASSUME NEW r \in Worker, NEW batch \in SUBSET Sessions, NEW step \in Steps,
         NEW session \in Sessions \cup {NoSession}
  PROVE  /\ [r EXCEPT !.step = step] \in Worker
         /\ [r EXCEPT !.batch = batch, !.step = step] \in Worker
         /\ [r EXCEPT !.batch = batch, !.session = session, !.step = step] \in Worker
         /\ [r EXCEPT !.session = session, !.step = step] \in Worker
  BY DEF Worker
LEMMA WorkerClaims ==
  ASSUME NEW r \in Worker, NEW left \in 0 .. BatchSize, NEW step \in Steps,
         NEW session \in Sessions \cup {NoSession}, NEW attempt \in 0 .. MaxAttempts
  PROVE  [r EXCEPT !.left = left, !.step = step, !.session = session,
                   !.attempt = attempt] \in Worker
  BY DEF Worker
LEMMA WorkerCounts ==
  ASSUME NEW r \in Worker, NEW left \in 0 .. BatchSize
  PROVE  [r EXCEPT !.left = left] \in Worker
  BY DEF Worker
LEMMA WorkerRests ==
  ASSUME NEW r \in Worker
  PROVE  [r EXCEPT !.step = "next", !.session = NoSession, !.attempt = 0] \in Worker
  <1>1. 0 \in 0 .. MaxAttempts
    BY InvoicingAssumption
  <1> QED
    BY <1>1 DEF Worker, Steps
LEMMA WorkerEnters ==
  ASSUME NEW phase \in Phases
  PROVE  /\ Idle \in Worker
         /\ [Idle EXCEPT !.phase = phase, !.left = BatchSize, !.step = "next"] \in Worker
  <1>1. 0 \in 0 .. BatchSize /\ BatchSize \in 0 .. BatchSize /\ 0 \in 0 .. MaxAttempts
    BY InvoicingAssumption
  <1>2. Idle \in Worker
    BY <1>1 DEF Worker, Idle, Phases, Steps
  <1>3. ASSUME NEW r \in Worker
        PROVE  [r EXCEPT !.phase = phase, !.left = BatchSize, !.step = "next"] \in Worker
    BY <1>1 DEF Worker, Steps
  <1> QED
    BY <1>2, <1>3

\* One worker moves, and works on a session unless it is between two.
LEMMA OneWorker ==
  ASSUME WorkerTypes, NEW w \in Workers, NEW r \in Worker,
         worker' = [worker EXCEPT ![w] = r],
         r.step \in {"start", "next"} \/ r.session \in Sessions
  PROVE  WorkerTypes'
  BY DEF WorkerTypes

LEMMA Going ==
  ASSUME WorkerTypes, NEW w \in Workers, NEW step \in Steps, Goes(w, step),
         worker[w].session \in Sessions
  PROVE  WorkerTypes'
  <1> DEFINE r == [worker[w] EXCEPT !.step = step]
  <1>1. worker[w] \in Worker
    BY DEF WorkerTypes
  <1>2. worker' = [worker EXCEPT ![w] = r]
    BY DEF Goes, WorkerTypes
  <1>3. r.session = worker[w].session
    BY <1>1 DEF Worker
  <1>4. r \in Worker
    BY <1>1, WorkerMoves
  <1> QED
    BY <1>2, <1>3, <1>4, OneWorker

LEMMA Between ==
  ASSUME WorkerTypes, NEW w \in Workers, NEW batch \in SUBSET Sessions,
         \/ EndsIssue(w)
         \/ EndsClaim(w)
         \/ worker' = [worker EXCEPT ![w].batch = batch, ![w].step = "next"]
  PROVE  WorkerTypes'
  <1>1. worker[w] \in Worker
    BY DEF WorkerTypes
  <1>2. CASE EndsIssue(w)
    <2> DEFINE r == [worker[w] EXCEPT !.session = NoSession, !.step = "next"]
    <2>1. worker' = [worker EXCEPT ![w] = r]
      BY <1>2 DEF EndsIssue, WorkerTypes
    <2>2. r \in Worker
      BY <1>1, WorkerMoves DEF Steps
    <2>3. r.step = "next"
      BY <1>1 DEF Worker
    <2> QED
      BY <2>1, <2>2, <2>3, OneWorker
  <1>3. CASE EndsClaim(w)
    <2> DEFINE r == [worker[w] EXCEPT !.step = "next", !.session = NoSession, !.attempt = 0]
    <2>1. worker' = [worker EXCEPT ![w] = r]
      BY <1>3 DEF EndsClaim, WorkerTypes
    <2>2. r \in Worker
      BY <1>1, WorkerRests
    <2>3. r.step = "next"
      BY <1>1 DEF Worker
    <2> QED
      BY <2>1, <2>2, <2>3, OneWorker
  <1>4. CASE worker' = [worker EXCEPT ![w].batch = batch, ![w].step = "next"]
    <2> DEFINE r == [worker[w] EXCEPT !.batch = batch, !.step = "next"]
    <2>1. worker' = [worker EXCEPT ![w] = r]
      BY <1>4 DEF WorkerTypes
    <2>2. r \in Worker
      BY <1>1, WorkerMoves DEF Steps
    <2>3. r.step = "next"
      BY <1>1 DEF Worker
    <2> QED
      BY <2>1, <2>2, <2>3, OneWorker
  <1> QED
    BY <1>2, <1>3, <1>4

LEMMA Entering ==
  ASSUME WorkerTypes, NEW w \in Workers, NEW phase \in Phases,
         Enters(w, phase) \/ worker' = [worker EXCEPT ![w] = Idle]
  PROVE  WorkerTypes'
  <1> DEFINE r == [Idle EXCEPT !.phase = phase, !.left = BatchSize, !.step = "next"]
  <1>1. worker' = [worker EXCEPT ![w] = r] \/ worker' = [worker EXCEPT ![w] = Idle]
    BY Zenon DEF Enters
  <1>2. r \in Worker /\ Idle \in Worker
    BY WorkerEnters
  <1>3. r.step = "next" /\ Idle.step = "start"
    BY DEF Idle
  <1> HIDE DEF r
  <1> QED
    BY <1>1, <1>2, <1>3, OneWorker

LEMMA WorkerTypesKept == Types /\ [Next]_vars => WorkerTypes'
  <1> SUFFICES ASSUME Types, [Next]_vars PROVE WorkerTypes'
    OBVIOUS
  <1>w. WorkerTypes
    BY DEF Types
  <1>0. ASSUME NEW w \in Workers PROVE worker[w] \in Worker
    BY DEF Types, WorkerTypes
  <1>1. ASSUME UNCHANGED worker PROVE WorkerTypes'
    BY <1>1, <1>w DEF WorkerTypes
  <1>2. ASSUME NEW w \in Workers, Discover(w) PROVE WorkerTypes'
    <2> DEFINE found == {s \in Candidates : Cardinality({t \in Candidates : t < s}) < BatchSize}
    <2>1. found \in SUBSET Sessions
      BY DEF Candidates, Types, NumberTypes
    <2>2. worker' = [worker EXCEPT ![w].batch = found, ![w].step = "next"]
      BY <1>2 DEF Discover
    <2> HIDE DEF found
    <2> QED
      BY <1>w, <2>1, <2>2, Between
  <1>3. ASSUME NEW w \in Workers, NEW s \in Sessions, LockSession(w, s) PROVE WorkerTypes'
    <2> DEFINE r == [worker[w] EXCEPT !.batch = @ \ {s}, !.session = s, !.step = "locked"]
    <2>1. worker' = [worker EXCEPT ![w] = r]
      BY <1>3, <1>w DEF LockSession, WorkerTypes
    <2>2. r \in Worker
      BY <1>0, WorkerFields, WorkerMoves DEF Steps
    <2>3. r.session = s
      BY <1>0 DEF Worker
    <2> QED
      BY <1>w, <2>1, <2>2, <2>3, OneWorker
  <1>4. ASSUME NEW w \in Workers, EndsIssue(w) \/ EndsClaim(w) PROVE WorkerTypes'
    BY <1>4, <1>w, Between
  <1>5. ASSUME NEW w \in Workers, NEW step \in Steps, Goes(w, step),
               worker[w].step \notin {"start", "next"}
        PROVE  WorkerTypes'
    BY <1>5, <1>w, Going DEF WorkerTypes
  <1>6. ASSUME NEW w \in Workers, NEW phase \in Phases, Enters(w, phase) PROVE WorkerTypes'
    BY <1>6, <1>w, Entering
  <1>7. ASSUME NEW w \in Workers, NEW s \in Sessions, ClaimGeneration(w, s) PROVE WorkerTypes'
    <2> DEFINE r == [worker[w] EXCEPT !.left = @ - 1, !.step = "claimed", !.session = s,
                                      !.attempt = invoice[s].attempts + 1]
    <2>1. worker' = [worker EXCEPT ![w] = r]
      BY <1>7, <1>w DEF ClaimGeneration, WorkerTypes
    <2>2. invoice[s].attempts + 1 \in 0 .. MaxAttempts
      BY <1>7, InvoicingAssumption DEF ClaimGeneration, Generatable, Types, RowTypes, Invoice
    <2>3. worker[w].left - 1 \in 0 .. BatchSize
      BY <1>7, <1>0, WorkerFields, InvoicingAssumption DEF ClaimGeneration
    <2>4. r \in Worker
      BY <1>0, <2>2, <2>3, WorkerClaims DEF Steps
    <2>5. r.session = s
      BY <1>0 DEF Worker
    <2> QED
      BY <1>w, <2>1, <2>4, <2>5, OneWorker
  <1>9. ASSUME NEW w \in Workers, NEW s \in Sessions, ClaimDelivery(w, s) PROVE WorkerTypes'
    <2>1. worker[w].left - 1 \in 0 .. BatchSize
      BY <1>9, <1>0, WorkerFields, InvoicingAssumption DEF ClaimDelivery
    <2> DEFINE q == [worker[w] EXCEPT !.left = @ - 1]
               r == [worker[w] EXCEPT !.left = @ - 1, !.step = "mail",
                                      !.session = s, !.attempt = delivery[s].attempts + 1]
    <2>3. CASE delivery[s].status = "SENDING"
      <3>1. q \in Worker
        BY <1>0, <2>1, WorkerCounts
      <3>2. q.step = "next"
        BY <1>9, <1>0 DEF ClaimDelivery, Worker
      <3>3. worker' = [worker EXCEPT ![w] = q]
        BY <1>9, <1>w, <2>3 DEF ClaimDelivery, WorkerTypes
      <3> QED
        BY <1>w, <3>1, <3>2, <3>3, OneWorker
    <2>4. CASE delivery[s].status # "SENDING"
      <3>1. delivery[s].attempts + 1 \in 0 .. MaxAttempts
        BY <1>9, <2>4, InvoicingAssumption DEF ClaimDelivery, Deliverable, Types, RowTypes, Delivery
      <3>2. r \in Worker
        BY <1>0, <2>1, <3>1, WorkerClaims DEF Steps
      <3>3. r.session = s
        BY <1>0 DEF Worker
      <3>4. worker' = [worker EXCEPT ![w] = r]
        BY <1>9, <1>w, <2>4 DEF ClaimDelivery, WorkerTypes
      <3> QED
        BY <1>w, <3>2, <3>3, <3>4, OneWorker
    <2> QED
      BY <2>3, <2>4
  <1>10. ASSUME NEW w \in Workers, Crash(w) PROVE WorkerTypes'
    BY <1>10, <1>w, Entering DEF Crash, Phases
  <1>11. ASSUME NEW w \in Workers, Work(w) PROVE WorkerTypes'
    <2>1. CASE NotIssued(w) \/ Issue(w) \/ MarkReady(w) \/ FailGeneration(w) \/ RecordDelivery(w)
      BY <1>4, <2>1 DEF NotIssued, Issue, MarkReady, FailGeneration, RecordDelivery
    <2>2. CASE Allocate(w) \/ GenerateFails(w) \/ Publish(w)
      BY <1>5, <2>2 DEF Allocate, GenerateFails, Publish, Steps
    <2>3. CASE LookForObject(w)
      BY <1>5, <2>3 DEF LookForObject, Steps
    <2>4. CASE OpenArtifact(w)
      BY <1>5, <2>4 DEF OpenArtifact, Steps
    <2>5. CASE \E taken, success \in BOOLEAN : Submit(w, taken, success)
      BY <1>5, <2>5 DEF Submit, Steps
    <2>6. CASE BatchDone(w) \/ GenerationDone(w) \/ DeliveryDone(w)
      BY <1>6, <2>6 DEF BatchDone, GenerationDone, DeliveryDone, Phases
    <2> QED
      BY <1>2, <1>3, <1>7, <1>9, <1>11, <2>1, <2>2, <2>3, <2>4, <2>5, <2>6 DEF Work
  <1>12. ASSUME NEW w \in Workers, IssueFails(w) PROVE WorkerTypes'
    BY <1>4, <1>12 DEF IssueFails
  <1>13. ASSUME NEW s \in Sessions, \/ Settle(s) \/ InvoiceStale(s) \/ DeliveryStale(s)
                                    \/ Download(s) \/ RecoverDelivery(s)
                                    \/ \E left \in {"none", "other"} : Damage(s, left)
         PROVE  WorkerTypes'
    BY <1>1, <1>13 DEF Settle, InvoiceStale, DeliveryStale, Download, RecoverDelivery, Damage
  <1>14. CASE UNCHANGED vars
    BY <1>1, <1>14 DEF vars
  <1> QED
    BY <1>10, <1>11, <1>12, <1>13, <1>14 DEF Next

LEMMA NumberTypesKept == Types /\ [Next]_vars => NumberTypes'
  <1> SUFFICES ASSUME Types, [Next]_vars PROVE NumberTypes'
    OBVIOUS
  <1> USE InvoicingAssumption DEF Types, NumberTypes
  <1>1. ASSUME NEW s \in Sessions, Settle(s) PROVE NumberTypes'
    BY <1>1 DEF Settle
  <1>2. ASSUME NEW w \in Workers, Allocate(w) PROVE NumberTypes'
    <2>1. next \in 0 .. MaxSerial
      BY <1>2 DEF Allocate
    <2>2. number' = [number EXCEPT ![worker[w].session] = next]
      BY <1>2 DEF Allocate
    <2>3. number' \in [Sessions -> 0 .. MaxSerial]
      BY <2>1, <2>2
    <2> QED
      BY <1>2, <2>3 DEF Allocate
  <1>3. ASSUME NEW w \in Workers, Issue(w) PROVE NumberTypes'
    <2>1. worker[w].session \in Sessions
      BY <1>3 DEF Issue, WorkerTypes
    <2> QED
      BY <1>3, <2>1 DEF Issue
  <1>4. ASSUME NEW w \in Workers, number' = RolledBack(w), UNCHANGED <<settled, next>>
        PROVE  NumberTypes'
    <2>1. number' = number \/ number' = [number EXCEPT ![worker[w].session] = 0]
      BY <1>4 DEF RolledBack, Unnumbered
    <2>2. 0 \in 0 .. MaxSerial
      OBVIOUS
    <2>3. number' \in [Sessions -> 0 .. MaxSerial]
      BY <2>1, <2>2
    <2> QED
      BY <1>4, <2>3
  <1>5. ASSUME UNCHANGED <<settled, next, number>> PROVE NumberTypes'
    BY <1>5
  <1> QED
    <2>1. ASSUME NEW w \in Workers, Work(w) PROVE NumberTypes'
      BY <1>2, <1>3, <1>5, <2>1 DEF Work, Discover, LockSession, NotIssued, BatchDone,
         ClaimGeneration, GenerationDone, GenerateFails, LookForObject, Publish, MarkReady,
         FailGeneration, ClaimDelivery, DeliveryDone, OpenArtifact, Submit, RecordDelivery
    <2>2. ASSUME NEW w \in Workers, IssueFails(w) \/ Crash(w) PROVE NumberTypes'
      BY <1>4, <2>2 DEF IssueFails, Crash
    <2>3. ASSUME NEW s \in Sessions, \/ InvoiceStale(s) \/ DeliveryStale(s)
                                     \/ Download(s) \/ RecoverDelivery(s)
                                     \/ \E left \in {"none", "other"} : Damage(s, left)
          PROVE  NumberTypes'
      BY <1>5, <2>3 DEF InvoiceStale, DeliveryStale, Download, RecoverDelivery, Damage
    <2>4. CASE UNCHANGED vars
      BY <1>5, <2>4 DEF vars
    <2> QED
      BY <1>1, <2>1, <2>2, <2>3, <2>4 DEF Next

\* Rows of invoices and deliveries stay such rows.
LEMMA InvoiceRow ==
  ASSUME NEW r \in Invoice, NEW status \in InvoiceStates, NEW b \in BOOLEAN
  PROVE  /\ [r EXCEPT !.status = status] \in Invoice
         /\ [r EXCEPT !.stale = b] \in Invoice
         /\ [r EXCEPT !.status = status, !.stale = b] \in Invoice
  BY DEF Invoice
LEMMA NewInvoiceRow ==
  ASSUME NEW status \in InvoiceStates, NEW n \in 0 .. MaxAttempts
  PROVE  [status |-> status, attempts |-> n, stale |-> FALSE] \in Invoice
  BY DEF Invoice
LEMMA DeliveryRow ==
  ASSUME NEW r \in Delivery, NEW status \in DeliveryStates, NEW b \in BOOLEAN
  PROVE  /\ [r EXCEPT !.stale = b] \in Delivery
         /\ [r EXCEPT !.status = status, !.stale = b] \in Delivery
  BY DEF Delivery
LEMMA NewDeliveryRow ==
  ASSUME NEW status \in DeliveryStates, NEW n \in 0 .. MaxAttempts
  PROVE  [status |-> status, attempts |-> n, stale |-> FALSE] \in Delivery
  BY DEF Delivery

InvoicesTyped == invoice \in [Sessions -> Invoice]
DeliveriesTyped == delivery \in [Sessions -> Delivery]

\* An invoice changes its status or its claim becomes stale.
LEMMA InvoiceMoves ==
  ASSUME InvoicesTyped, NEW s \in Sessions, NEW status \in InvoiceStates,
         \/ invoice' = invoice
         \/ invoice' = [invoice EXCEPT ![s].status = status]
         \/ invoice' = [invoice EXCEPT ![s].stale = TRUE]
         \/ invoice' = [invoice EXCEPT ![s].status = status, ![s].stale = FALSE]
  PROVE  InvoicesTyped'
  <1>1. invoice[s] \in Invoice
    BY DEF InvoicesTyped
  <1>2. /\ [invoice[s] EXCEPT !.status = status] \in Invoice
        /\ [invoice[s] EXCEPT !.stale = TRUE] \in Invoice
        /\ [invoice[s] EXCEPT !.status = status, !.stale = FALSE] \in Invoice
    BY <1>1, InvoiceRow
  <1>3. PICK r \in Invoice : invoice' = invoice \/ invoice' = [invoice EXCEPT ![s] = r]
    BY <1>2 DEF InvoicesTyped
  <1> QED
    BY <1>3 DEF InvoicesTyped

LEMMA DeliveryMoves ==
  ASSUME DeliveriesTyped, NEW s \in Sessions, NEW status \in DeliveryStates,
         \/ delivery' = delivery
         \/ delivery' = [delivery EXCEPT ![s].stale = TRUE]
         \/ delivery' = [delivery EXCEPT ![s].status = status, ![s].stale = FALSE]
  PROVE  DeliveriesTyped'
  <1>1. delivery[s] \in Delivery
    BY DEF DeliveriesTyped
  <1>2. /\ [delivery[s] EXCEPT !.stale = TRUE] \in Delivery
        /\ [delivery[s] EXCEPT !.status = status, !.stale = FALSE] \in Delivery
    BY <1>1, DeliveryRow
  <1>3. PICK r \in Delivery : delivery' = delivery \/ delivery' = [delivery EXCEPT ![s] = r]
    BY <1>2 DEF DeliveriesTyped
  <1> QED
    BY <1>3 DEF DeliveriesTyped

LEMMA InvoicesKept == Types /\ [Next]_vars => InvoicesTyped'
  <1> SUFFICES ASSUME Types, [Next]_vars PROVE InvoicesTyped'
    OBVIOUS
  <1>i. InvoicesTyped
    BY DEF Types, RowTypes, InvoicesTyped
  <1>s. ASSUME NEW w \in Workers, worker[w].step \notin {"start", "next"}
        PROVE  worker[w].session \in Sessions
    BY <1>s DEF Types, WorkerTypes
  <1>1. ASSUME UNCHANGED invoice PROVE InvoicesTyped'
    BY <1>1, <1>i DEF InvoicesTyped
  <1>2. ASSUME NEW s \in Sessions, InvoiceStale(s) PROVE InvoicesTyped'
    BY <1>2, <1>i, InvoiceMoves DEF InvoiceStale, InvoiceStates
  <1>3. ASSUME NEW s \in Sessions, invoice' = Corrupted(s) PROVE InvoicesTyped'
    BY <1>3, <1>i, InvoiceMoves DEF Corrupted, InvoiceStates
  <1>4. ASSUME NEW w \in Workers, Issue(w) PROVE InvoicesTyped'
    <2>1. [status |-> "PENDING", attempts |-> 0, stale |-> FALSE] \in Invoice
      BY NewInvoiceRow, InvoicingAssumption DEF InvoiceStates
    <2> QED
      BY <1>4, <1>i, <2>1 DEF Issue, InvoicesTyped
  <1>5. Swept \in [Sessions -> Invoice]
    <2> SUFFICES ASSUME NEW s \in Sessions
                 PROVE  [invoice[s] EXCEPT !.status = "FAILED", !.stale = FALSE] \in Invoice
      BY <1>i DEF Swept, InvoicesTyped
    <2> QED
      BY <1>i, InvoiceRow DEF InvoicesTyped, InvoiceStates
  <1>6. ASSUME NEW w \in Workers, NEW s \in Sessions, ClaimGeneration(w, s) PROVE InvoicesTyped'
    <2>1. invoice[s].attempts < MaxAttempts /\ invoice[s] \in Invoice
      BY <1>6, <1>i DEF ClaimGeneration, Generatable, InvoicesTyped
    <2>2. Swept[s] = invoice[s]
      BY <2>1, InvoicingAssumption DEF Swept, Invoice
    <2>3. invoice[s].attempts + 1 \in 0 .. MaxAttempts
      BY <2>1, InvoicingAssumption DEF Invoice
    <2>4. [status |-> "GENERATING", attempts |-> invoice[s].attempts + 1, stale |-> FALSE] \in Invoice
      BY <2>3, NewInvoiceRow DEF InvoiceStates
    <2>5. invoice' = [Swept EXCEPT ![s] = [status |-> "GENERATING",
                                           attempts |-> Swept[s].attempts + 1, stale |-> FALSE]]
      BY <1>6 DEF ClaimGeneration
    <2> HIDE DEF Swept
    <2> QED
      BY <1>5, <2>2, <2>4, <2>5 DEF InvoicesTyped
  <1>7. ASSUME NEW w \in Workers, GenerationDone(w) PROVE InvoicesTyped'
    BY <1>1, <1>5, <1>7 DEF GenerationDone, InvoicesTyped
  <1>8. ASSUME NEW w \in Workers, MarkReady(w) PROVE InvoicesTyped'
    BY <1>8, <1>i, <1>s, InvoiceMoves DEF MarkReady, InvoiceStates
  <1>9. ASSUME NEW w \in Workers, FailGeneration(w) PROVE InvoicesTyped'
    <2> DEFINE status == IF worker[w].attempt >= MaxAttempts THEN "FAILED" ELSE "PENDING"
    <2>1. \/ invoice' = invoice
          \/ invoice' = [invoice EXCEPT ![worker[w].session].status = status,
                                        ![worker[w].session].stale = FALSE]
      BY <1>9 DEF FailGeneration
    <2>2. status \in InvoiceStates
      BY DEF InvoiceStates
    <2>3. worker[w].session \in Sessions
      BY <1>9, <1>s DEF FailGeneration
    <2> HIDE DEF status
    <2> QED
      BY <1>i, <2>1, <2>2, <2>3, InvoiceMoves
  <1>10. ASSUME NEW w \in Workers, OpenArtifact(w) PROVE InvoicesTyped'
    BY <1>1, <1>3, <1>s, <1>10 DEF OpenArtifact
  <1> QED
    <2>1. ASSUME NEW w \in Workers, Work(w) PROVE InvoicesTyped'
      BY <1>1, <1>4, <1>6, <1>7, <1>8, <1>9, <1>10, <2>1
      DEF Work, Discover, LockSession, NotIssued, Allocate, BatchDone, GenerateFails, Publish,
          LookForObject, ClaimDelivery, DeliveryDone, Submit, RecordDelivery
    <2>2. ASSUME NEW w \in Workers, IssueFails(w) \/ Crash(w) PROVE InvoicesTyped'
      BY <1>1, <2>2 DEF IssueFails, Crash
    <2>3. ASSUME NEW s \in Sessions, \/ Settle(s) \/ InvoiceStale(s) \/ DeliveryStale(s)
                                     \/ Download(s) \/ RecoverDelivery(s)
                                     \/ \E left \in {"none", "other"} : Damage(s, left)
          PROVE  InvoicesTyped'
      BY <1>1, <1>2, <1>3, <2>3 DEF Settle, DeliveryStale, Download, RecoverDelivery, Damage
    <2>4. CASE UNCHANGED vars
      BY <1>1, <2>4 DEF vars
    <2> QED
      BY <2>1, <2>2, <2>3, <2>4 DEF Next

LEMMA DeliveriesKept == Types /\ [Next]_vars => DeliveriesTyped'
  <1> SUFFICES ASSUME Types, [Next]_vars PROVE DeliveriesTyped'
    OBVIOUS
  <1>d. DeliveriesTyped
    BY DEF Types, RowTypes, DeliveriesTyped
  <1>s. ASSUME NEW w \in Workers, worker[w].step \notin {"start", "next"}
        PROVE  worker[w].session \in Sessions
    BY <1>s DEF Types, WorkerTypes
  <1>1. ASSUME UNCHANGED delivery PROVE DeliveriesTyped'
    BY <1>1, <1>d DEF DeliveriesTyped
  <1>2. ASSUME NEW s \in Sessions, DeliveryStale(s) PROVE DeliveriesTyped'
    BY <1>2, <1>d, DeliveryMoves DEF DeliveryStale, DeliveryStates
  <1>3. ASSUME NEW s \in Sessions,
               delivery' = [delivery EXCEPT ![s] = [status |-> "PENDING", attempts |-> 0, stale |-> FALSE]]
        PROVE  DeliveriesTyped'
    <2>1. [status |-> "PENDING", attempts |-> 0, stale |-> FALSE] \in Delivery
      BY NewDeliveryRow, InvoicingAssumption DEF DeliveryStates
    <2> QED
      BY <1>3, <1>d, <2>1 DEF DeliveriesTyped
  <1>4. ASSUME NEW w \in Workers, NEW s \in Sessions, ClaimDelivery(w, s) PROVE DeliveriesTyped'
    <2>1. CASE delivery' = [delivery EXCEPT ![s].status = "AMBIGUOUS", ![s].stale = FALSE]
      BY <2>1, <1>d, DeliveryMoves DEF DeliveryStates
    <2>2. CASE /\ delivery[s].status = "PENDING"
               /\ delivery' = [delivery EXCEPT ![s] = [status |-> "SENDING", stale |-> FALSE,
                                                       attempts |-> @.attempts + 1]]
      <3>1. delivery[s].attempts + 1 \in 0 .. MaxAttempts
        BY <1>4, <1>d, <2>2, InvoicingAssumption
        DEF ClaimDelivery, Deliverable, DeliveriesTyped, Delivery
      <3>2. [status |-> "SENDING", stale |-> FALSE, attempts |-> delivery[s].attempts + 1] \in Delivery
        BY <3>1 DEF Delivery, DeliveryStates
      <3> QED
        BY <1>d, <2>2, <3>2 DEF DeliveriesTyped
    <2> QED
      BY <1>4, <2>1, <2>2 DEF ClaimDelivery
  <1>5. ASSUME NEW w \in Workers, RecordDelivery(w) PROVE DeliveriesTyped'
    <2>1. Outcome(w) \in DeliveryStates
      BY DEF Outcome, DeliveryStates
    <2>2. worker[w].session \in Sessions
      BY <1>5, <1>s DEF RecordDelivery
    <2>3. \/ delivery' = delivery
          \/ delivery' = [delivery EXCEPT ![worker[w].session].status = Outcome(w),
                                          ![worker[w].session].stale = FALSE]
      BY <1>5, Zenon DEF RecordDelivery
    <2> QED
      BY <1>d, <2>1, <2>2, <2>3, DeliveryMoves
  <1> QED
    <2>1. ASSUME NEW w \in Workers, Work(w) PROVE DeliveriesTyped'
      <3>1. CASE Issue(w)
        BY <1>1, <1>3, <1>s, <3>1 DEF Issue
      <3> QED
        BY <1>1, <1>4, <1>5, <2>1, <3>1
        DEF Work, Discover, LockSession, NotIssued, Allocate, BatchDone, ClaimGeneration,
            GenerationDone, GenerateFails, LookForObject, Publish, MarkReady, FailGeneration,
            DeliveryDone, OpenArtifact, Submit
    <2>2. ASSUME NEW w \in Workers, IssueFails(w) \/ Crash(w) PROVE DeliveriesTyped'
      BY <1>1, <2>2 DEF IssueFails, Crash
    <2>3. ASSUME NEW s \in Sessions, \/ Settle(s) \/ InvoiceStale(s) \/ DeliveryStale(s)
                                     \/ Download(s) \/ RecoverDelivery(s)
                                     \/ \E left \in {"none", "other"} : Damage(s, left)
          PROVE  DeliveriesTyped'
      BY <1>1, <1>2, <1>3, <2>3 DEF Settle, InvoiceStale, Download, RecoverDelivery, Damage
    <2>4. CASE UNCHANGED vars
      BY <1>1, <2>4 DEF vars
    <2> QED
      BY <2>1, <2>2, <2>3, <2>4 DEF Next

LEMMA FilesKept == Types /\ [Next]_vars => (file \in [Sessions -> {"none", "pdf", "other"}])'
  <1> SUFFICES ASSUME Types, [Next]_vars
               PROVE  file' \in [Sessions -> {"none", "pdf", "other"}]
    OBVIOUS
  <1> USE DEF Types, RowTypes
  <1>1. ASSUME NEW s \in Sessions, NEW left \in {"none", "pdf", "other"},
               file' = file \/ file' = [file EXCEPT ![s] = left]
        PROVE  file' \in [Sessions -> {"none", "pdf", "other"}]
    BY <1>1
  <1>2. ASSUME UNCHANGED file PROVE file' \in [Sessions -> {"none", "pdf", "other"}]
    BY <1>2
  <1>3. ASSUME NEW w \in Workers, Work(w)
        PROVE  file' \in [Sessions -> {"none", "pdf", "other"}]
    <2>1. CASE Publish(w)
      BY <1>1, <2>1 DEF Publish, WorkerTypes
    <2> QED
      BY <1>2, <1>3, <2>1
      DEF Work, Discover, LockSession, NotIssued, Allocate, Issue, BatchDone, ClaimGeneration,
          GenerationDone, GenerateFails, LookForObject, MarkReady, FailGeneration,
          ClaimDelivery, DeliveryDone, OpenArtifact, Submit, RecordDelivery
  <1>4. ASSUME NEW w \in Workers, IssueFails(w) \/ Crash(w)
        PROVE  file' \in [Sessions -> {"none", "pdf", "other"}]
    BY <1>2, <1>4 DEF IssueFails, Crash
  <1>5. ASSUME NEW s \in Sessions, \/ Settle(s) \/ InvoiceStale(s) \/ DeliveryStale(s)
                                   \/ Download(s) \/ RecoverDelivery(s)
        PROVE  file' \in [Sessions -> {"none", "pdf", "other"}]
    BY <1>2, <1>5 DEF Settle, InvoiceStale, DeliveryStale, Download, RecoverDelivery
  <1>6. ASSUME NEW s \in Sessions, NEW left \in {"none", "other"}, Damage(s, left)
        PROVE  file' \in [Sessions -> {"none", "pdf", "other"}]
    BY <1>1, <1>6 DEF Damage
  <1>7. CASE UNCHANGED vars
    BY <1>2, <1>7 DEF vars
  <1> QED
    BY <1>3, <1>4, <1>5, <1>6, <1>7 DEF Next

LEMMA TypesKept == Types /\ [Next]_vars => Types'
  BY WorkerTypesKept, NumberTypesKept, InvoicesKept, DeliveriesKept, FilesKept
  DEF Types, RowTypes, InvoicesTyped, DeliveriesTyped

-----------------------------------------------------------------------------
(* Locks and numbers. *)

\* A step that takes no lock and issues nothing.
SameHolders ==
  \A v \in Workers :
    /\ HasNumber(v)' <=> HasNumber(v)
    /\ HasNumber(v) => worker'[v].session = worker[v].session
    /\ Holds(v)' => Holds(v) /\ worker'[v].session = worker[v].session
NothingIssued ==
  /\ number' = number /\ next' = next
  /\ \A s \in Sessions : invoice'[s].status = "absent" <=> invoice[s].status = "absent"

LEMMA Idly ==
  ASSUME IInv, SameHolders, NothingIssued
  PROVE  Locks' /\ Numbers'
  <1>1. Locks'
    BY DEF IInv, Locks, SameHolders
  <1>2. Issued' = Issued
    BY DEF Issued, NothingIssued
  <1>3. ASSUME NEW w \in Workers, HasNumber(w) PROVE worker[w].session \in Sessions
    BY <1>3 DEF IInv, Types, WorkerTypes, HasNumber
  <1>4. Numbers'
    BY <1>2, <1>3 DEF IInv, Numbers, SameHolders, NothingIssued
  <1> QED
    BY <1>1, <1>4

\* One worker, with no number drawn, moves and holds no lock then.
LEMMA OneMoves ==
  ASSUME WorkerTypes, NEW w \in Workers, ~HasNumber(w),
         worker'[w].step \notin {"locked", "allocated"},
         \A v \in Workers \ {w} : worker'[v] = worker[v]
  PROVE  SameHolders
  BY DEF SameHolders, HasNumber, Holds

LEMMA MovesKeepNumbers ==
  ASSUME IInv, NEW w \in Workers,
         \/ Discover(w) \/ NotIssued(w) \/ BatchDone(w)
         \/ (\E s \in Sessions : ClaimGeneration(w, s)) \/ GenerationDone(w)
         \/ GenerateFails(w) \/ LookForObject(w) \/ Publish(w) \/ MarkReady(w) \/ FailGeneration(w)
         \/ (\E s \in Sessions : ClaimDelivery(w, s)) \/ DeliveryDone(w)
         \/ OpenArtifact(w)
         \/ (\E taken, success \in BOOLEAN : Submit(w, taken, success))
         \/ RecordDelivery(w)
  PROVE  SameHolders
  <1> USE DEF HasNumber
  <1>t. WorkerTypes
    BY DEF IInv, Types
  <1>r. worker[w] \in Worker /\ worker \in [Workers -> Worker]
    BY <1>t DEF WorkerTypes
  <1>1. ASSUME NEW step \in Steps \ {"locked", "allocated"}, Goes(w, step), ~HasNumber(w)
        PROVE  SameHolders
    <2>1. worker'[w].step = step /\ \A v \in Workers \ {w} : worker'[v] = worker[v]
      BY <1>1, <1>r DEF Goes, Worker
    <2> QED
      BY <1>1, <1>t, <2>1, OneMoves
  <1>2. ASSUME EndsIssue(w) \/ EndsClaim(w), ~HasNumber(w) PROVE SameHolders
    <2>1. worker'[w].step = "next" /\ \A v \in Workers \ {w} : worker'[v] = worker[v]
      BY <1>2, <1>r DEF EndsIssue, EndsClaim, Worker
    <2> QED
      BY <1>2, <1>t, <2>1, OneMoves
  <1>3. ASSUME NEW phase \in Phases, Enters(w, phase), ~HasNumber(w) PROVE SameHolders
    <2>1. worker'[w].step \in {"start", "next"} /\ \A v \in Workers \ {w} : worker'[v] = worker[v]
      BY <1>3, <1>r DEF Enters, Idle
    <2> QED
      BY <1>3, <1>t, <2>1, OneMoves
  <1>4. CASE Discover(w)
    <2>1. worker'[w].step = "next" /\ \A v \in Workers \ {w} : worker'[v] = worker[v]
      BY <1>4, <1>r DEF Discover, Worker
    <2> QED
      BY <1>4, <1>t, <2>1, OneMoves DEF Discover
  <1>5. ASSUME NEW s \in Sessions, ClaimGeneration(w, s) PROVE SameHolders
    <2>1. worker'[w].step = "claimed" /\ \A v \in Workers \ {w} : worker'[v] = worker[v]
      BY <1>5, <1>r DEF ClaimGeneration, Worker
    <2> QED
      BY <1>5, <1>t, <2>1, OneMoves DEF ClaimGeneration
  <1>6. ASSUME NEW s \in Sessions, ClaimDelivery(w, s) PROVE SameHolders
    <2>1. worker'[w].step \in {"next", "mail"} /\ \A v \in Workers \ {w} : worker'[v] = worker[v]
      <3>1. CASE worker' = [worker EXCEPT ![w].left = @ - 1]
        BY <1>6, <1>r, <3>1 DEF ClaimDelivery, Worker
      <3>2. CASE worker' = [worker EXCEPT ![w].left = @ - 1, ![w].step = "mail", ![w].session = s,
                                          ![w].attempt = delivery[s].attempts + 1]
        BY <1>r, <3>2 DEF Worker
      <3> QED
        BY <1>6, <3>1, <3>2 DEF ClaimDelivery
    <2> QED
      BY <1>6, <1>t, <2>1, OneMoves DEF ClaimDelivery
  <1>7. CASE NotIssued(w) \/ MarkReady(w) \/ FailGeneration(w) \/ RecordDelivery(w)
    BY <1>2, <1>7 DEF NotIssued, MarkReady, FailGeneration, RecordDelivery
  <1>8. CASE GenerateFails(w) \/ Publish(w)
    BY <1>1, <1>8 DEF GenerateFails, Publish, Steps
  <1>9. CASE LookForObject(w)
    BY <1>1, <1>9 DEF LookForObject, Steps
  <1>10. CASE OpenArtifact(w)
    BY <1>1, <1>10 DEF OpenArtifact, Steps
  <1>11. CASE \E taken, success \in BOOLEAN : Submit(w, taken, success)
    BY <1>1, <1>11 DEF Submit, Steps
  <1>12. CASE BatchDone(w) \/ GenerationDone(w) \/ DeliveryDone(w)
    BY <1>3, <1>12 DEF BatchDone, GenerationDone, DeliveryDone, Phases
  <1> QED
    BY <1>4, <1>5, <1>6, <1>7, <1>8, <1>9, <1>10, <1>11, <1>12

\* Whatever is done with an invoice, it is still one.
LEMMA MovesIssueNothing ==
  ASSUME IInv, UNCHANGED <<number, next>>,
         \/ UNCHANGED invoice
         \/ \E s \in Sessions : InvoiceStale(s)
         \/ \E s \in Sessions : invoice' = Corrupted(s)
         \/ \E w \in Workers, s \in Sessions : ClaimGeneration(w, s)
         \/ \E w \in Workers : GenerationDone(w) \/ MarkReady(w) \/ FailGeneration(w)
  PROVE  NothingIssued
  <1> SUFFICES ASSUME NEW t \in Sessions
               PROVE  invoice'[t].status = "absent" <=> invoice[t].status = "absent"
    BY DEF NothingIssued
  <1>1. invoice \in [Sessions -> Invoice] /\ invoice[t] \in Invoice
    BY DEF IInv, Types, RowTypes
  <1>2. ASSUME NEW s \in Sessions, InvoiceStale(s)
        PROVE  invoice'[t].status = "absent" <=> invoice[t].status = "absent"
    BY <1>1, <1>2 DEF InvoiceStale, Invoice
  <1>3. ASSUME NEW s \in Sessions, invoice' = Corrupted(s)
        PROVE  invoice'[t].status = "absent" <=> invoice[t].status = "absent"
    BY <1>1, <1>3 DEF Corrupted, Invoice
  <1>4. Swept[t].status = "absent" <=> invoice[t].status = "absent"
    BY <1>1 DEF Swept, Invoice
  <1>5. ASSUME NEW w \in Workers, NEW s \in Sessions, ClaimGeneration(w, s)
        PROVE  invoice'[t].status = "absent" <=> invoice[t].status = "absent"
    <2>1. Swept = [x \in Sessions |-> Swept[x]]
      BY DEF Swept
    <2>2. s # t => invoice'[t] = Swept[t]
      <3> HIDE DEF Swept
      <3> QED
        BY <1>5, <2>1 DEF ClaimGeneration
    <2>3. s = t => invoice'[t].status = "GENERATING"
      <3> HIDE DEF Swept
      <3> QED
        BY <1>5, <2>1 DEF ClaimGeneration
    <2>4. invoice[s].status # "absent"
      BY <1>5 DEF ClaimGeneration, Generatable
    <2> QED
      BY <1>4, <2>2, <2>3, <2>4
  <1>6. ASSUME NEW w \in Workers, GenerationDone(w)
        PROVE  invoice'[t].status = "absent" <=> invoice[t].status = "absent"
    BY <1>4, <1>6 DEF GenerationDone
  <1>7. ASSUME NEW w \in Workers, MarkReady(w)
        PROVE  invoice'[t].status = "absent" <=> invoice[t].status = "absent"
    BY <1>1, <1>7 DEF MarkReady, Invoice
  <1>8. ASSUME NEW w \in Workers, FailGeneration(w)
        PROVE  invoice'[t].status = "absent" <=> invoice[t].status = "absent"
    BY <1>1, <1>8 DEF FailGeneration, Invoice
  <1> QED
    BY <1>2, <1>3, <1>5, <1>6, <1>7, <1>8

LEMMA LockSessionKeeps ==
  ASSUME IInv, NEW w \in Workers, NEW s \in Sessions, LockSession(w, s)
  PROVE  Locks' /\ Numbers'
  <1>1. worker \in [Workers -> Worker] /\ worker[w] \in Worker
    BY DEF IInv, Types, WorkerTypes
  <1>2. /\ worker[w].step = "next"
        /\ worker'[w].step = "locked" /\ worker'[w].session = s
        /\ \A v \in Workers \ {w} : worker'[v] = worker[v]
    BY <1>1 DEF LockSession, Worker
  <1>3. \A v \in Workers : Holds(v) => worker[v].session # s
    BY DEF LockSession, LockHolder, Holds
  <1>4. Locks'
    BY <1>2, <1>3 DEF IInv, Locks, Holds, HasNumber
  <1>5. \A v \in Workers : /\ HasNumber(v)' <=> HasNumber(v)
                           /\ HasNumber(v) => worker'[v] = worker[v]
    BY <1>2 DEF HasNumber
  <1>6. Issued' = Issued /\ number' = number /\ next' = next /\ invoice' = invoice
    BY DEF LockSession, Issued
  <1>7. Numbers'
    BY <1>5, <1>6 DEF IInv, Numbers
  <1> QED
    BY <1>4, <1>7

LEMMA AllocateKeeps ==
  ASSUME IInv, NEW w \in Workers, Allocate(w)
  PROVE  Locks' /\ Numbers'
  <1> DEFINE s == worker[w].session
  <1>1. worker \in [Workers -> Worker] /\ worker[w] \in Worker /\ s \in Sessions
    BY DEF IInv, Types, WorkerTypes, Allocate
  <1>2. /\ worker[w].step = "locked"
        /\ worker'[w].step = "allocated" /\ worker'[w].session = s
        /\ \A v \in Workers \ {w} : worker'[v] = worker[v]
    BY <1>1 DEF Allocate, Goes, Worker
  <1>3. \A v \in Workers : ~HasNumber(v)
    BY DEF Allocate, SequenceHolder, HasNumber
  <1>4. Locks'
    BY <1>2, <1>3 DEF IInv, Locks, Holds, HasNumber
  <1>5. \A v \in Workers : HasNumber(v)' <=> v = w
    BY <1>2, <1>3 DEF HasNumber
  <1>6. /\ Issued' = Issued /\ next' = next /\ invoice' = invoice
        /\ next <= MaxSerial /\ invoice[s].status = "absent"
        /\ number'[s] = next /\ \A t \in Sessions \ {s} : number'[t] = number[t]
    BY <1>1 DEF IInv, Types, NumberTypes, Allocate, Issued
  <1>7. s \notin Issued /\ \A t \in Issued : number'[t] = number[t] /\ t \in Sessions
    BY <1>6 DEF Issued
  <1>8. \A t \in Sessions :
          /\ invoice'[t].status # "absent" => number'[t] \in 1 .. (next' - 1)
          /\ number'[t] # Unnumbered =>
               \/ invoice'[t].status # "absent"
               \/ \E v \in Workers : HasNumber(v)' /\ worker'[v].session = t
    <2> SUFFICES ASSUME NEW t \in Sessions
                 PROVE  /\ invoice[t].status # "absent" => number'[t] \in 1 .. (next - 1)
                        /\ number'[t] # Unnumbered =>
                             \/ invoice[t].status # "absent"
                             \/ \E v \in Workers : HasNumber(v)' /\ worker'[v].session = t
      BY <1>6
    <2>1. CASE t = s
      BY <1>2, <1>5, <1>6, <2>1
    <2>2. CASE t # s
      BY <1>3, <1>6, <2>2 DEF IInv, Numbers
    <2> QED
      BY <2>1, <2>2
  <1>9. \A n \in 1 .. (next' - 1) : \E t \in Issued' : number'[t] = n
    BY <1>6, <1>7 DEF IInv, Numbers
  <1>10. \A t, u \in Issued' : number'[t] = number'[u] => t = u
    BY <1>6, <1>7 DEF IInv, Numbers
  <1>11. Numbers'
    BY <1>2, <1>5, <1>6, <1>8, <1>9, <1>10 DEF Numbers
  <1> QED
    BY <1>4, <1>11

LEMMA IssueKeeps ==
  ASSUME IInv, NEW w \in Workers, Issue(w)
  PROVE  Locks' /\ Numbers'
  <1> DEFINE s == worker[w].session
  <1>1. worker \in [Workers -> Worker] /\ worker[w] \in Worker /\ s \in Sessions
    BY DEF IInv, Types, WorkerTypes, Issue
  <1>2. /\ HasNumber(w) /\ worker'[w].step = "next"
        /\ \A v \in Workers \ {w} : worker'[v] = worker[v]
    BY <1>1 DEF Issue, EndsIssue, Worker, HasNumber
  <1>3. \A v \in Workers : HasNumber(v) => v = w
    BY <1>2 DEF IInv, Locks
  <1>4. Locks'
    BY <1>2 DEF IInv, Locks, Holds, HasNumber
  <1>5. \A v \in Workers : ~HasNumber(v)'
    BY <1>2, <1>3 DEF HasNumber
  <1>6. number[s] = next /\ next \in Nat \ {0} /\ invoice[s].status = "absent"
    BY <1>2, InvoicingAssumption DEF IInv, Numbers, Types, NumberTypes
  <1>7. /\ number' = number /\ next' = next + 1
        /\ invoice'[s].status # "absent" /\ \A t \in Sessions \ {s} : invoice'[t] = invoice[t]
    BY <1>1, <1>6 DEF IInv, Types, RowTypes, Issue
  <1>8. Issued' = Issued \cup {s} /\ s \notin Issued
    BY <1>1, <1>6, <1>7 DEF Issued
  <1>9. \A t \in Issued : number[t] \in 1 .. (next - 1)
    BY DEF IInv, Numbers, Issued
  <1>10. \A n \in 1 .. (next' - 1) : \E t \in Issued' : number'[t] = n
    <2> SUFFICES ASSUME NEW n \in 1 .. next PROVE \E t \in Issued' : number[t] = n
      BY <1>6, <1>7
    <2>1. CASE n = next
      BY <1>6, <1>8, <2>1
    <2>2. CASE n # next
      <3>1. n \in 1 .. (next - 1)
        BY <1>6, <2>2
      <3> QED
        BY <1>8, <3>1 DEF IInv, Numbers
    <2> QED
      BY <2>1, <2>2
  <1>11. \A t, u \in Issued' : number'[t] = number'[u] => t = u
    <2>1. \A t \in Issued : number[t] # number[s]
      BY <1>6, <1>9
    <2>2. \A t, u \in Issued : number[t] = number[u] => t = u
      BY DEF IInv, Numbers
    <2> QED
      BY <1>7, <1>8, <2>1, <2>2
  <1>12. \A t \in Sessions :
           /\ invoice'[t].status # "absent" => number'[t] \in 1 .. (next' - 1)
           /\ number'[t] # Unnumbered => invoice'[t].status # "absent"
    <2> SUFFICES ASSUME NEW t \in Sessions
                 PROVE  /\ invoice'[t].status # "absent" => number[t] \in 1 .. next
                        /\ number[t] # Unnumbered => invoice'[t].status # "absent"
      BY <1>6, <1>7
    <2>1. CASE t = s
      BY <1>6, <1>7, <2>1
    <2>2. CASE t # s
      <3>1. invoice'[t] = invoice[t] /\ ~\E v \in Workers : HasNumber(v) /\ worker[v].session = t
        BY <1>3, <1>7, <2>2
      <3>2. number[t] # Unnumbered => invoice[t].status # "absent"
        BY <3>1 DEF IInv, Numbers
      <3>3. invoice[t].status # "absent" => number[t] \in 1 .. (next - 1)
        BY DEF IInv, Numbers
      <3> QED
        BY <1>6, <3>1, <3>2, <3>3
    <2> QED
      BY <2>1, <2>2
  <1>13. Numbers'
    BY <1>5, <1>10, <1>11, <1>12 DEF Numbers
  <1> QED
    BY <1>4, <1>13

LEMMA RollbackKeeps ==
  ASSUME IInv, NEW w \in Workers, IssueFails(w) \/ Crash(w)
  PROVE  Locks' /\ Numbers'
  <1>1. worker \in [Workers -> Worker] /\ worker[w] \in Worker
    BY DEF IInv, Types, WorkerTypes
  <1>2. /\ worker'[w].step \in {"start", "next"}
        /\ \A v \in Workers \ {w} : worker'[v] = worker[v]
    BY <1>1 DEF IssueFails, Crash, EndsIssue, Worker, Idle
  <1>3. /\ number' = RolledBack(w) /\ next' = next /\ invoice' = invoice /\ Issued' = Issued
    BY DEF IssueFails, Crash, Issued
  <1>4. Locks'
    BY <1>2 DEF IInv, Locks, Holds, HasNumber
  <1>5. CASE ~HasNumber(w)
    <2>1. SameHolders
      BY <1>2, <1>5, OneMoves DEF IInv, Types
    <2>2. number' = number
      BY <1>3, <1>5 DEF RolledBack, HasNumber
    <2> QED
      BY <1>3, <2>1, <2>2, Idly DEF NothingIssued
  <1>6. CASE HasNumber(w)
    <2> DEFINE s == worker[w].session
    <2>1. s \in Sessions /\ invoice[s].status = "absent"
      BY <1>6 DEF IInv, Types, WorkerTypes, Numbers, HasNumber
    <2>2. number'[s] = Unnumbered /\ \A t \in Sessions \ {s} : number'[t] = number[t]
      BY <1>3, <1>6, <2>1 DEF RolledBack, HasNumber, IInv, Types, NumberTypes
    <2>3. \A v \in Workers : (HasNumber(v) => v = w) /\ ~HasNumber(v)'
      BY <1>2, <1>6 DEF IInv, Locks, HasNumber
    <2>4. s \notin Issued /\ \A t \in Issued : number'[t] = number[t] /\ t \in Sessions
      BY <2>1, <2>2 DEF Issued
    <2>5. Numbers'
      BY <1>3, <2>1, <2>2, <2>3, <2>4 DEF IInv, Numbers
    <2> QED
      BY <1>4, <2>5
  <1> QED
    BY <1>5, <1>6

LEMMA NumbersKept == IInv /\ [Next]_vars => Locks' /\ Numbers'
  <1> SUFFICES ASSUME IInv, [Next]_vars PROVE Locks' /\ Numbers'
    OBVIOUS
  <1>1. ASSUME NEW w \in Workers, Work(w) PROVE Locks' /\ Numbers'
    <2>1. CASE \/ (\E s \in Sessions : LockSession(w, s)) \/ Allocate(w) \/ Issue(w)
      BY <2>1, LockSessionKeeps, AllocateKeeps, IssueKeeps
    <2>2. CASE ~(\/ (\E s \in Sessions : LockSession(w, s)) \/ Allocate(w) \/ Issue(w))
      <3>1. SameHolders
        BY <1>1, <2>2, MovesKeepNumbers DEF Work
      <3>2. ASSUME OpenArtifact(w) PROVE NothingIssued
        <4>1. worker[w].session \in Sessions
          BY <3>2 DEF OpenArtifact, IInv, Types, WorkerTypes
        <4> QED
          BY <3>2, <4>1, MovesIssueNothing DEF OpenArtifact
      <3>3. ASSUME \/ \E s \in Sessions : ClaimGeneration(w, s)
                   \/ GenerationDone(w) \/ MarkReady(w) \/ FailGeneration(w)
            PROVE  NothingIssued
        BY <3>3, MovesIssueNothing DEF ClaimGeneration, GenerationDone, MarkReady, FailGeneration
      <3>4. NothingIssued
        BY <1>1, <2>2, <3>2, <3>3, MovesIssueNothing
        DEF Work, Discover, NotIssued, BatchDone, GenerateFails, LookForObject, Publish,
            ClaimDelivery, DeliveryDone, Submit, RecordDelivery
      <3> QED
        BY <3>1, <3>4, Idly
    <2> QED
      BY <2>1, <2>2
  <1>2. ASSUME UNCHANGED <<number, next, worker>>,
               \/ UNCHANGED invoice
               \/ \E s \in Sessions : InvoiceStale(s) \/ invoice' = Corrupted(s)
        PROVE  Locks' /\ Numbers'
    BY <1>2, MovesIssueNothing, Idly DEF SameHolders, Holds, HasNumber
  <1>3. ASSUME NEW s \in Sessions, \/ Settle(s) \/ InvoiceStale(s) \/ DeliveryStale(s)
                                   \/ Download(s) \/ RecoverDelivery(s)
                                   \/ \E left \in {"none", "other"} : Damage(s, left)
        PROVE  Locks' /\ Numbers'
    BY <1>2, <1>3 DEF Settle, InvoiceStale, DeliveryStale, Download, RecoverDelivery, Damage
  <1>4. CASE UNCHANGED vars
    BY <1>2, <1>4 DEF vars
  <1> QED
    BY <1>1, <1>3, <1>4, RollbackKeeps DEF Next

-----------------------------------------------------------------------------
\* The invariant holds of every run of the worker.
THEOREM InvoicingInductive == Spec => []IInv
  <1>1. IInv /\ [Next]_vars => IInv'
    BY TypesKept, NumbersKept DEF IInv
  <1> QED
    BY InitInv, <1>1, PTL DEF Spec

\* However workers die, transactions fail and claims overrun: the numbers of a
\* financial year are 1, 2, 3, ... without a gap, and each names one invoice.
THEOREM ConsecutiveNumbers == Spec => []NumbersAreConsecutive
  <1>1. ASSUME IInv PROVE NumbersAreConsecutive
    <2>1. ASSUME NEW s \in Sessions PROVE Cardinality(LockHolder(s)) <= 1
      <3>1. CASE LockHolder(s) = {}
        BY <3>1, FS_EmptySet
      <3>2. CASE LockHolder(s) # {}
        <4>1. PICK w \in Workers : w \in LockHolder(s)
          BY <3>2 DEF LockHolder
        <4>2. LockHolder(s) = {w}
          BY <1>1, <4>1 DEF IInv, Locks, LockHolder, Holds
        <4> QED
          BY <4>2, FS_Singleton
      <3> QED
        BY <3>1, <3>2
    <2>2. ASSUME NEW s \in Sessions
          PROVE  number[s] # Unnumbered <=>
                   invoice[s].status # "absent"
                     \/ \E w \in LockHolder(s) : worker[w].step = "allocated"
      <3>1. next \in Nat \ {0}
        BY <1>1, InvoicingAssumption DEF IInv, Types, NumberTypes
      <3>2. ASSUME NEW w \in Workers PROVE HasNumber(w) => number[worker[w].session] = next
        BY <1>1 DEF IInv, Numbers
      <3> QED
        BY <1>1, <3>1, <3>2 DEF IInv, Numbers, LockHolder, HasNumber, Unnumbered
    <2>3. TypeOK
      BY <1>1, <2>1, <2>2
      DEF TypeOK, IInv, Types, WorkerTypes, NumberTypes, RowTypes, Worker, Invoice, Delivery,
          InvoiceStates, DeliveryStates
    <2>4. {number[s] : s \in Issued} = 1 .. (next - 1)
      BY <1>1 DEF IInv, Numbers, Issued
    <2>5. \A s, t \in Issued : number[s] = number[t] => s = t
      BY <1>1 DEF IInv, Numbers
    <2> QED
      BY <2>3, <2>4, <2>5 DEF NumbersAreConsecutive
  <1> QED
    BY InvoicingInductive, <1>1, PTL

-----------------------------------------------------------------------------
(* Delivery.  The files and mails need histories of their own, and a count *)
(* of where each delivery that was queued is now.                          *)

Mails == [queued : Nat, submitted : Nat, accepted : Nat, spoiled : BOOLEAN, overrun : BOOLEAN]
MailsTyped == mails \in [Sessions -> Mails]

\* What is READY, or about to be recorded so, was published and is still there
\* unless it was damaged since.
Publishing(s) == \E w \in Workers : worker[w].session = s /\ worker[w].step = "published"
Published ==
  \A s \in Sessions :
    invoice[s].status = "READY" \/ Publishing(s) => file[s] = "pdf" \/ mails[s].spoiled

\* What is recorded as SENT, or about to be, was accepted.
Accepted ==
  /\ \A s \in Sessions : delivery[s].status = "SENT" => mails[s].accepted > 0
  /\ \A w \in Workers : worker[w].step = "sent" => mails[worker[w].session].accepted > 0

\* A delivery that was queued is waiting, or with one worker that may still
\* submit it or give it back, or was submitted, or is over.
Unsent(s) == {w \in Workers : worker[w].session = s /\ worker[w].step \in {"mail", "opened", "before"}}
Waiting(s) == IF delivery[s].status = "PENDING" THEN 1 ELSE 0
Accounted(s) == mails[s].submitted + Cardinality(Unsent(s)) + Waiting(s) <= mails[s].queued

DInv == IInv /\ MailsTyped /\ Published /\ Accepted /\ \A s \in Sessions : Accounted(s)

-----------------------------------------------------------------------------
(* The histories. *)

LEMMA MailsFields ==
  ASSUME MailsTyped, NEW s \in Sessions
  PROVE  /\ mails[s].queued \in Nat /\ mails[s].submitted \in Nat /\ mails[s].accepted \in Nat
  BY DEF MailsTyped, Mails

\* No step takes away from a history; a delivery that is queued or submitted is
\* counted.
Grows(s) ==
  /\ mails'[s].accepted >= mails[s].accepted
  /\ mails[s].spoiled => mails'[s].spoiled
SameMails(s) ==
  /\ mails'[s].queued = mails[s].queued
  /\ mails'[s].submitted = mails[s].submitted
  /\ Grows(s)

LEMMA Noted ==
  ASSUME MailsTyped, NEW s \in Sessions, NEW b \in BOOLEAN,
         \/ UNCHANGED mails
         \/ mails' = [mails EXCEPT ![s].overrun = b]
         \/ mails' = [mails EXCEPT ![s].spoiled = b] /\ (mails[s].spoiled => b)
  PROVE  MailsTyped' /\ \A t \in Sessions : SameMails(t)
  <1>1. mails[s] \in Mails
    BY DEF MailsTyped
  <1>2. [mails[s] EXCEPT !.overrun = b] \in Mails /\ [mails[s] EXCEPT !.spoiled = b] \in Mails
    BY <1>1 DEF Mails
  <1>3. MailsTyped'
    <2>1. PICK r \in Mails : mails' = mails \/ mails' = [mails EXCEPT ![s] = r]
      BY <1>1, <1>2 DEF MailsTyped
    <2> QED
      BY <2>1 DEF MailsTyped
  <1>4. ASSUME NEW t \in Sessions PROVE SameMails(t)
    <2>1. mails[t] \in Mails /\ mails[t].accepted >= mails[t].accepted
      BY DEF MailsTyped, Mails
    <2>2. CASE UNCHANGED mails
      BY <2>1, <2>2 DEF SameMails, Grows
    <2>3. CASE mails' = [mails EXCEPT ![s].overrun = b]
      BY <2>1, <2>3 DEF SameMails, Grows, MailsTyped, Mails
    <2>4. CASE mails' = [mails EXCEPT ![s].spoiled = b] /\ (mails[s].spoiled => b)
      BY <2>1, <2>4 DEF SameMails, Grows, MailsTyped, Mails
    <2> QED
      BY <2>2, <2>3, <2>4
  <1> QED
    BY <1>3, <1>4

LEMMA QueueCounted ==
  ASSUME MailsTyped, NEW s \in Sessions, mails' = [mails EXCEPT ![s].queued = @ + 1]
  PROVE  /\ MailsTyped'
         /\ mails'[s].queued = mails[s].queued + 1 /\ mails'[s].submitted = mails[s].submitted
         /\ Grows(s) /\ \A t \in Sessions \ {s} : SameMails(t)
  <1>1. mails[s] \in Mails /\ \A t \in Sessions : mails[t].accepted >= mails[t].accepted
    BY DEF MailsTyped, Mails
  <1>2. [mails[s] EXCEPT !.queued = @ + 1] \in Mails
    BY <1>1 DEF Mails
  <1>3. mails' = [mails EXCEPT ![s] = [mails[s] EXCEPT !.queued = @ + 1]]
    BY DEF MailsTyped
  <1>4. MailsTyped'
    BY <1>2, <1>3 DEF MailsTyped
  <1> QED
    BY <1>1, <1>4 DEF SameMails, Grows, MailsTyped, Mails

LEMMA SubmissionCounted ==
  ASSUME MailsTyped, NEW s \in Sessions, NEW n \in Nat, n >= mails[s].accepted,
         mails' = [mails EXCEPT ![s].submitted = @ + 1, ![s].accepted = n]
  PROVE  /\ MailsTyped'
         /\ mails'[s].queued = mails[s].queued /\ mails'[s].submitted = mails[s].submitted + 1
         /\ mails'[s].accepted = n
         /\ Grows(s) /\ \A t \in Sessions \ {s} : SameMails(t)
  <1>1. mails[s] \in Mails /\ \A t \in Sessions : mails[t].accepted >= mails[t].accepted
    BY DEF MailsTyped, Mails
  <1>2. [mails[s] EXCEPT !.submitted = @ + 1, !.accepted = n] \in Mails
    <2>1. mails[s].submitted + 1 \in Nat
      BY <1>1 DEF Mails
    <2>2. ASSUME NEW m \in Nat PROVE [mails[s] EXCEPT !.submitted = m, !.accepted = n] \in Mails
      BY <1>1 DEF Mails
    <2> QED
      BY <2>1, <2>2
  <1>3. mails' = [mails EXCEPT ![s] = [mails[s] EXCEPT !.submitted = @ + 1, !.accepted = n]]
    BY DEF MailsTyped
  <1>4. MailsTyped'
    BY <1>2, <1>3 DEF MailsTyped
  <1> QED
    BY <1>1, <1>4 DEF SameMails, Grows, MailsTyped, Mails

-----------------------------------------------------------------------------
(* The workers. *)

\* A step that takes no worker to a place the invariant speaks of.
Plain ==
  \A v \in Workers :
    worker'[v].step \in {"published", "mail", "opened", "before", "sent"} => worker'[v] = worker[v]

LEMMA PlainMoves ==
  ASSUME WorkerTypes, NEW w \in Workers,
         \/ EndsIssue(w) \/ EndsClaim(w) \/ Goes(w, "allocated") \/ Goes(w, "failed")
         \/ worker' = [worker EXCEPT ![w] = Idle]
         \/ \E phase \in Phases : Enters(w, phase)
         \/ \E batch \in SUBSET Sessions :
               worker' = [worker EXCEPT ![w].batch = batch, ![w].step = "next"]
  PROVE  Plain
  <1>1. worker \in [Workers -> Worker] /\ worker[w] \in Worker
    BY DEF WorkerTypes
  <1>2. ASSUME worker'[w].step \in {"start", "next", "allocated", "failed"},
               \A v \in Workers \ {w} : worker'[v] = worker[v]
        PROVE  Plain
    BY <1>2 DEF Plain
  <1>3. CASE EndsIssue(w) \/ EndsClaim(w)
    BY <1>1, <1>2, <1>3 DEF EndsIssue, EndsClaim, Worker
  <1>4. CASE Goes(w, "allocated") \/ Goes(w, "failed")
    BY <1>1, <1>2, <1>4 DEF Goes, Worker
  <1>5. CASE worker' = [worker EXCEPT ![w] = Idle]
    BY <1>1, <1>2, <1>5 DEF Idle
  <1>6. ASSUME NEW batch \in SUBSET Sessions,
               worker' = [worker EXCEPT ![w].batch = batch, ![w].step = "next"]
        PROVE  Plain
    BY <1>1, <1>2, <1>6 DEF Worker
  <1>7. ASSUME NEW phase \in Phases, Enters(w, phase) PROVE Plain
    <2> DEFINE r == [Idle EXCEPT !.phase = phase, !.left = BatchSize, !.step = "next"]
    <2>1. worker' = [worker EXCEPT ![w] = r] \/ worker' = [worker EXCEPT ![w] = Idle]
      BY <1>7, Zenon DEF Enters
    <2>2. r.step = "next"
      BY DEF Idle
    <2> HIDE DEF r
    <2> QED
      BY <1>1, <1>2, <1>5, <2>1, <2>2
  <1> QED
    BY <1>3, <1>4, <1>5, <1>6, <1>7

\* The steps of a worker that are plain.
PlainStep(w) ==
  \/ Discover(w) \/ (\E s \in Sessions : LockSession(w, s)) \/ NotIssued(w)
  \/ Allocate(w) \/ Issue(w) \/ BatchDone(w)
  \/ (\E s \in Sessions : ClaimGeneration(w, s)) \/ GenerationDone(w) \/ GenerateFails(w)
  \/ MarkReady(w) \/ FailGeneration(w) \/ DeliveryDone(w) \/ RecordDelivery(w)
  \/ IssueFails(w) \/ Crash(w)

LEMMA PlainSteps ==
  ASSUME Types, NEW w \in Workers, PlainStep(w)
  PROVE  Plain
  <1>t. WorkerTypes
    BY DEF Types
  <1>r. worker \in [Workers -> Worker] /\ worker[w] \in Worker
    BY <1>t DEF WorkerTypes
  <1>1. CASE Discover(w)
    <2> DEFINE found == {s \in Candidates : Cardinality({t \in Candidates : t < s}) < BatchSize}
    <2>1. found \in SUBSET Sessions
      BY DEF Candidates, Types, NumberTypes
    <2>2. worker' = [worker EXCEPT ![w].batch = found, ![w].step = "next"]
      BY <1>1 DEF Discover
    <2> HIDE DEF found
    <2> QED
      BY <1>t, <2>1, <2>2, PlainMoves
  <1>2. ASSUME NEW s \in Sessions, LockSession(w, s) PROVE Plain
    <2>1. worker'[w].step = "locked" /\ \A v \in Workers \ {w} : worker'[v] = worker[v]
      BY <1>2, <1>r DEF LockSession, Worker
    <2> QED
      BY <2>1 DEF Plain
  <1>3. ASSUME NEW s \in Sessions, ClaimGeneration(w, s) PROVE Plain
    <2>1. worker'[w].step = "claimed" /\ \A v \in Workers \ {w} : worker'[v] = worker[v]
      BY <1>3, <1>r DEF ClaimGeneration, Worker
    <2> QED
      BY <2>1 DEF Plain
  <1>4. ASSUME EndsIssue(w) \/ EndsClaim(w) \/ worker' = [worker EXCEPT ![w] = Idle] PROVE Plain
    BY <1>4, <1>t, PlainMoves
  <1>5. ASSUME NEW phase \in Phases, Enters(w, phase) PROVE Plain
    BY <1>5, <1>t, PlainMoves
  <1>6. ASSUME Goes(w, "allocated") \/ Goes(w, "failed") PROVE Plain
    BY <1>6, <1>t, PlainMoves
  <1>7. CASE NotIssued(w) \/ Issue(w) \/ MarkReady(w) \/ FailGeneration(w) \/ RecordDelivery(w)
             \/ IssueFails(w) \/ Crash(w)
    BY <1>4, <1>7 DEF NotIssued, Issue, MarkReady, FailGeneration, RecordDelivery, IssueFails, Crash
  <1>8. CASE BatchDone(w) \/ GenerationDone(w) \/ DeliveryDone(w)
    BY <1>5, <1>8 DEF BatchDone, GenerationDone, DeliveryDone, Phases
  <1>9. CASE Allocate(w) \/ GenerateFails(w)
    BY <1>6, <1>9 DEF Allocate, GenerateFails
  <1> QED
    BY <1>1, <1>2, <1>3, <1>7, <1>8, <1>9 DEF PlainStep

\* The steps of the environment move no worker, and a step of the system is
\* one of these.
Outside ==
  \E s \in Sessions : \/ Settle(s) \/ InvoiceStale(s) \/ DeliveryStale(s)
                      \/ Download(s) \/ RecoverDelivery(s)
                      \/ \E left \in {"none", "other"} : Damage(s, left)
Special(w) ==
  \/ LookForObject(w) \/ Publish(w) \/ OpenArtifact(w)
  \/ \E s \in Sessions : ClaimDelivery(w, s)
  \/ \E taken, success \in BOOLEAN : Submit(w, taken, success)

LEMMA StepKinds ==
  ASSUME [Next]_vars
  PROVE  Outside \/ UNCHANGED vars \/ \E w \in Workers : PlainStep(w) \/ Special(w)
  BY DEF Next, Work, Outside, PlainStep, Special

LEMMA OutsideIsPlain ==
  ASSUME Outside \/ UNCHANGED vars
  PROVE  worker' = worker /\ Plain
  BY DEF Outside, Settle, InvoiceStale, DeliveryStale, Download, RecoverDelivery, Damage, vars, Plain

\* A worker that only goes on keeps its session.
LEMMA GoesOn ==
  ASSUME WorkerTypes, NEW w \in Workers, NEW step, Goes(w, step)
  PROVE  /\ worker'[w].step = step /\ worker'[w].session = worker[w].session
         /\ \A v \in Workers \ {w} : worker'[v] = worker[v]
  BY DEF WorkerTypes, Worker, Goes

-----------------------------------------------------------------------------
(* What is READY was published. *)

LEMMA ReadyFrom ==
  ASSUME Types, [Next]_vars, NEW t \in Sessions, invoice'[t].status = "READY"
  PROVE  invoice[t].status = "READY" \/ Publishing(t)
  <1> DEFINE Goal == invoice[t].status = "READY" \/ Publishing(t)
  <1>1. invoice \in [Sessions -> Invoice] /\ invoice[t] \in Invoice
    BY DEF Types, RowTypes
  <1>2. CASE UNCHANGED invoice
    BY <1>2
  <1>3. ASSUME NEW s \in Sessions, InvoiceStale(s) PROVE Goal
    BY <1>1, <1>3 DEF InvoiceStale, Invoice
  <1>4. ASSUME NEW s \in Sessions, invoice' = Corrupted(s) PROVE Goal
    BY <1>1, <1>4 DEF Corrupted, Invoice
  <1>5. ASSUME Swept[t].status = "READY" PROVE Goal
    BY <1>1, <1>5 DEF Swept, Invoice
  <1>6. ASSUME NEW w \in Workers, NEW s \in Sessions, ClaimGeneration(w, s) PROVE Goal
    <2>1. Swept = [x \in Sessions |-> Swept[x]]
      BY DEF Swept
    <2>2. (s # t => invoice'[t] = Swept[t]) /\ (s = t => invoice'[t].status = "GENERATING")
      <3> HIDE DEF Swept
      <3> QED
        BY <1>6, <2>1 DEF ClaimGeneration
    <2> QED
      BY <1>5, <2>2
  <1>7. ASSUME NEW w \in Workers, GenerationDone(w) PROVE Goal
    BY <1>5, <1>7 DEF GenerationDone
  <1>8. ASSUME NEW w \in Workers, MarkReady(w) PROVE Goal
    <2>1. CASE worker[w].session = t
      BY <1>8, <2>1 DEF MarkReady, Publishing
    <2>2. CASE worker[w].session # t
      BY <1>1, <1>8, <2>2 DEF MarkReady, Invoice
    <2> QED
      BY <2>1, <2>2
  <1>9. ASSUME NEW w \in Workers, FailGeneration(w) PROVE Goal
    BY <1>1, <1>9 DEF FailGeneration, Invoice
  <1>10. ASSUME NEW w \in Workers, Issue(w) PROVE Goal
    BY <1>1, <1>10 DEF Issue, Invoice
  <1>11. ASSUME NEW w \in Workers, OpenArtifact(w) PROVE Goal
    <2>1. worker[w].session \in Sessions
      BY <1>11 DEF OpenArtifact, Types, WorkerTypes
    <2> QED
      BY <1>4, <1>11, <2>1 DEF OpenArtifact
  <1>12. ASSUME Outside PROVE Goal
    BY <1>2, <1>3, <1>4, <1>12
    DEF Outside, Settle, DeliveryStale, Download, RecoverDelivery, Damage
  <1>13. ASSUME NEW w \in Workers, PlainStep(w) PROVE Goal
    BY <1>2, <1>6, <1>7, <1>8, <1>9, <1>10, <1>13
    DEF PlainStep, Discover, LockSession, NotIssued, Allocate, BatchDone, GenerateFails,
        DeliveryDone, RecordDelivery, IssueFails, Crash
  <1>14. ASSUME NEW w \in Workers, Special(w) PROVE Goal
    BY <1>2, <1>11, <1>14 DEF Special, LookForObject, Publish, ClaimDelivery, Submit
  <1> QED
    BY <1>2, <1>12, <1>13, <1>14, StepKinds DEF vars

LEMMA PublishingFrom ==
  ASSUME Types, [Next]_vars, NEW t \in Sessions, Publishing(t)'
  PROVE  Publishing(t) \/ file'[t] = "pdf"
  <1>1. PICK v \in Workers : worker'[v].session = t /\ worker'[v].step = "published"
    BY DEF Publishing
  <1>2. CASE worker'[v] = worker[v]
    BY <1>1, <1>2 DEF Publishing
  <1>3. CASE worker'[v] # worker[v]
    <2>1. PICK w \in Workers : Special(w)
      BY <1>1, <1>3, StepKinds, PlainSteps, OutsideIsPlain DEF Plain
    <2>t. WorkerTypes /\ file \in [Sessions -> {"none", "pdf", "other"}]
      BY DEF Types, RowTypes
    <2>s. worker[w].session \in Sessions \cup {NoSession}
      BY <2>t DEF WorkerTypes, Worker
    <2>2. CASE LookForObject(w)
      <3>1. PICK step : Goes(w, step) /\ (step = "published" => file[worker[w].session] = "pdf")
        BY <2>2 DEF LookForObject
      <3> QED
        BY <1>1, <1>3, <2>2, <2>t, <3>1, GoesOn DEF LookForObject
    <2>3. CASE Publish(w)
      BY <1>1, <1>3, <2>3, <2>t, GoesOn DEF Publish
    <2>4. CASE OpenArtifact(w)
      BY <1>1, <1>3, <2>4, <2>t, GoesOn DEF OpenArtifact
    <2>5. ASSUME NEW s \in Sessions, ClaimDelivery(w, s) PROVE FALSE
      <3>1. worker[w] \in Worker /\ worker \in [Workers -> Worker] /\ worker[w].step = "next"
        BY <2>5, <2>t DEF WorkerTypes, ClaimDelivery
      <3>2. CASE worker' = [worker EXCEPT ![w].left = @ - 1]
        BY <1>1, <1>3, <3>1, <3>2 DEF Worker
      <3>3. CASE worker' = [worker EXCEPT ![w].left = @ - 1, ![w].step = "mail", ![w].session = s,
                                          ![w].attempt = delivery[s].attempts + 1]
        BY <1>1, <1>3, <3>1, <3>3 DEF Worker
      <3> QED
        BY <2>5, <3>2, <3>3 DEF ClaimDelivery
    <2>6. ASSUME NEW taken \in BOOLEAN, NEW success \in BOOLEAN, Submit(w, taken, success)
          PROVE  FALSE
      BY <1>1, <1>3, <2>6, <2>t, GoesOn DEF Submit
    <2> QED
      BY <2>1, <2>2, <2>3, <2>4, <2>5, <2>6 DEF Special
  <1> QED
    BY <1>2, <1>3

\* What happens to a session's mails in a step.
LEMMA MailsStep ==
  ASSUME Types, MailsTyped, [Next]_vars
  PROVE  MailsTyped' /\ \A t \in Sessions : Grows(t)
  <1> DEFINE Goal == MailsTyped' /\ \A t \in Sessions : Grows(t)
  <1>1. ASSUME UNCHANGED mails PROVE Goal
    BY <1>1, MailsFields DEF Grows, MailsTyped
  <1>2. ASSUME NEW s \in Sessions, InvoiceStale(s) \/ DeliveryStale(s) PROVE Goal
    <2>1. PICK b \in BOOLEAN : mails' = [mails EXCEPT ![s].overrun = b]
      BY <1>2, Zenon DEF InvoiceStale, DeliveryStale
    <2> QED
      BY <2>1, Noted DEF SameMails
  <1>3. ASSUME NEW s \in Sessions, NEW left \in {"none", "other"}, Damage(s, left) PROVE Goal
    <2> DEFINE b == mails[s].spoiled \/ invoice[s].status = "READY" \/ Publishing(s)
    <2>1. mails' = [mails EXCEPT ![s].spoiled = b]
      BY <1>3 DEF Damage, Publishing
    <2>2. b \in BOOLEAN /\ (mails[s].spoiled => b)
      BY Zenon
    <2> HIDE DEF b
    <2> QED
      BY <2>1, <2>2, Noted DEF SameMails
  <1>4. ASSUME NEW s \in Sessions, mails' = [mails EXCEPT ![s].queued = @ + 1] PROVE Goal
    BY <1>4, QueueCounted DEF SameMails
  <1>5. ASSUME NEW w \in Workers, Issue(w) PROVE Goal
    <2>1. worker[w].session \in Sessions
      BY <1>5 DEF Issue, Types, WorkerTypes
    <2> QED
      BY <1>1, <1>4, <1>5, <2>1 DEF Issue
  <1>6. ASSUME NEW w \in Workers, NEW taken \in BOOLEAN, NEW success \in BOOLEAN,
               Submit(w, taken, success)
        PROVE  Goal
    <2> DEFINE s == worker[w].session
               n == IF taken THEN mails[s].accepted + 1 ELSE mails[s].accepted
    <2>1. s \in Sessions
      BY <1>6 DEF Submit, Types, WorkerTypes
    <2>2. n \in Nat /\ n >= mails[s].accepted
      BY <2>1, MailsFields
    <2>3. mails' = [mails EXCEPT ![s].submitted = @ + 1, ![s].accepted = n]
      BY <1>6 DEF Submit
    <2> HIDE DEF n
    <2> QED
      BY <2>1, <2>2, <2>3, SubmissionCounted DEF SameMails
  <1>7. ASSUME Outside PROVE Goal
    BY <1>1, <1>2, <1>3, <1>4, <1>7 DEF Outside, Settle, Download, RecoverDelivery
  <1>8. ASSUME NEW w \in Workers, PlainStep(w) PROVE Goal
    BY <1>1, <1>5, <1>8
    DEF PlainStep, Discover, LockSession, NotIssued, Allocate, BatchDone, ClaimGeneration,
        GenerationDone, GenerateFails, MarkReady, FailGeneration, DeliveryDone, RecordDelivery,
        IssueFails, Crash
  <1>9. ASSUME NEW w \in Workers, Special(w) PROVE Goal
    BY <1>1, <1>6, <1>9 DEF Special, LookForObject, Publish, OpenArtifact, ClaimDelivery
  <1> QED
    BY <1>1, <1>7, <1>8, <1>9, StepKinds DEF vars

LEMMA PublishedKept ==
  ASSUME Types, MailsTyped, Published, [Next]_vars
  PROVE  Published'
  <1> SUFFICES ASSUME NEW t \in Sessions, invoice'[t].status = "READY" \/ Publishing(t)'
               PROVE  file'[t] = "pdf" \/ mails'[t].spoiled
    BY DEF Published
  <1>1. invoice[t].status = "READY" \/ Publishing(t) \/ file'[t] = "pdf"
    BY ReadyFrom, PublishingFrom
  <1>2. mails[t].spoiled => mails'[t].spoiled
    BY MailsStep DEF Grows
  <1>3. ASSUME file'[t] \in {file[t], "pdf"} PROVE file'[t] = "pdf" \/ mails'[t].spoiled
    BY <1>1, <1>2, <1>3 DEF Published
  <1>4. ASSUME NEW s \in Sessions, NEW left \in {"none", "other"}, Damage(s, left)
        PROVE  file'[t] = "pdf" \/ mails'[t].spoiled
    <2>1. CASE s # t
      BY <1>3, <1>4, <2>1 DEF Damage, Types, RowTypes
    <2>2. CASE s = t
      <3> DEFINE b == mails[s].spoiled \/ invoice[s].status = "READY" \/ Publishing(s)
      <3>1. mails' = [mails EXCEPT ![s].spoiled = b]
        BY <1>4 DEF Damage, Publishing
      <3>2. invoice[t].status = "READY" \/ Publishing(t)
        <4>1. left # "pdf" /\ file'[t] = left
          BY <1>4, <2>2 DEF Damage, Types, RowTypes
        <4> QED
          BY <1>1, <4>1
      <3>3. b = TRUE
        BY <2>2, <3>2
      <3> HIDE DEF b
      <3> QED
        BY <2>2, <3>1, <3>3 DEF MailsTyped, Mails
    <2> QED
      BY <2>1, <2>2
  <1>5. CASE UNCHANGED file
    BY <1>3, <1>5
  <1>6. ASSUME Outside PROVE file'[t] = "pdf" \/ mails'[t].spoiled
    BY <1>4, <1>5, <1>6
    DEF Outside, Settle, InvoiceStale, DeliveryStale, Download, RecoverDelivery
  <1>7. ASSUME NEW w \in Workers, PlainStep(w) PROVE file'[t] = "pdf" \/ mails'[t].spoiled
    BY <1>5, <1>7
    DEF PlainStep, Discover, LockSession, NotIssued, Allocate, Issue, BatchDone, ClaimGeneration,
        GenerationDone, GenerateFails, MarkReady, FailGeneration, DeliveryDone, RecordDelivery,
        IssueFails, Crash
  <1>8. ASSUME NEW w \in Workers, Special(w) PROVE file'[t] = "pdf" \/ mails'[t].spoiled
    <2>1. CASE Publish(w)
      BY <1>3, <2>1 DEF Publish, Types, RowTypes
    <2> QED
      BY <1>5, <1>8, <2>1 DEF Special, LookForObject, OpenArtifact, ClaimDelivery, Submit
  <1> QED
    BY <1>5, <1>6, <1>7, <1>8, StepKinds DEF vars

-----------------------------------------------------------------------------
(* What is SENT was accepted. *)

\* A claim of a delivery moves one worker, to the mail or to its next claim.
LEMMA ClaimMoves ==
  ASSUME WorkerTypes, NEW w \in Workers, NEW s \in Sessions, ClaimDelivery(w, s)
  PROVE  /\ worker[w].step = "next" /\ \A v \in Workers \ {w} : worker'[v] = worker[v]
         /\ \/ delivery[s].status = "SENDING" /\ worker'[w].step = "next"
            \/ /\ delivery[s].status = "PENDING"
               /\ worker'[w].step = "mail" /\ worker'[w].session = s
  <1>1. worker[w] \in Worker /\ worker \in [Workers -> Worker] /\ worker[w].step = "next"
    BY DEF WorkerTypes, ClaimDelivery
  <1>2. CASE delivery[s].status = "SENDING"
    <2>1. worker' = [worker EXCEPT ![w].left = @ - 1]
      BY <1>2 DEF ClaimDelivery
    <2> QED
      BY <1>1, <1>2, <2>1 DEF Worker
  <1>3. CASE delivery[s].status = "PENDING"
    <2>1. worker' = [worker EXCEPT ![w].left = @ - 1, ![w].step = "mail", ![w].session = s,
                                   ![w].attempt = delivery[s].attempts + 1]
      BY <1>3 DEF ClaimDelivery
    <2> QED
      BY <1>1, <1>3, <2>1 DEF Worker
  <1> QED
    BY <1>2, <1>3 DEF ClaimDelivery

LEMMA SubmitMoves ==
  ASSUME Types, MailsTyped, NEW w \in Workers, NEW taken \in BOOLEAN, NEW success \in BOOLEAN,
         Submit(w, taken, success)
  PROVE  /\ worker[w].session \in Sessions /\ worker[w].step = "opened"
         /\ worker'[w].step \in {"sent", "unsure"} /\ worker'[w].session = worker[w].session
         /\ worker'[w].step = "sent" => mails'[worker[w].session].accepted > 0
         /\ \A v \in Workers \ {w} : worker'[v] = worker[v]
         /\ mails'[worker[w].session].queued = mails[worker[w].session].queued
         /\ mails'[worker[w].session].submitted = mails[worker[w].session].submitted + 1
         /\ \A t \in Sessions \ {worker[w].session} : SameMails(t)
  <1> DEFINE s == worker[w].session
             n == IF taken THEN mails[s].accepted + 1 ELSE mails[s].accepted
             step == IF success THEN "sent" ELSE "unsure"
  <1>1. s \in Sessions /\ worker[w].step = "opened" /\ (success => taken)
    BY DEF Submit, Types, WorkerTypes
  <1>2. n \in Nat /\ n >= mails[s].accepted /\ (success => n > 0)
    BY <1>1, MailsFields
  <1>3. mails' = [mails EXCEPT ![s].submitted = @ + 1, ![s].accepted = n]
    BY DEF Submit
  <1>4. Goes(w, step) /\ step \in {"sent", "unsure"} /\ (step = "sent" => success)
    BY DEF Submit
  <1> HIDE DEF n, step
  <1>5. /\ worker'[w].step = step /\ worker'[w].session = worker[w].session
        /\ \A v \in Workers \ {w} : worker'[v] = worker[v]
    BY <1>4, GoesOn DEF Types
  <1>6. /\ mails'[s].queued = mails[s].queued /\ mails'[s].submitted = mails[s].submitted + 1
        /\ mails'[s].accepted = n /\ \A t \in Sessions \ {s} : SameMails(t)
    BY <1>1, <1>2, <1>3, SubmissionCounted
  <1> QED
    BY <1>1, <1>2, <1>4, <1>5, <1>6

LEMMA SentFrom ==
  ASSUME Types, [Next]_vars, NEW t \in Sessions, delivery'[t].status = "SENT"
  PROVE  \/ delivery[t].status = "SENT"
         \/ \E w \in Workers : worker[w].session = t /\ worker[w].step = "sent"
  <1> DEFINE Goal == \/ delivery[t].status = "SENT"
                     \/ \E w \in Workers : worker[w].session = t /\ worker[w].step = "sent"
  <1>1. delivery \in [Sessions -> Delivery] /\ delivery[t] \in Delivery
    BY DEF Types, RowTypes
  <1>2. CASE UNCHANGED delivery
    BY <1>2
  <1>3. ASSUME NEW s \in Sessions, DeliveryStale(s) PROVE Goal
    BY <1>1, <1>3 DEF DeliveryStale, Delivery
  <1>4. ASSUME NEW s \in Sessions, RecoverDelivery(s) PROVE Goal
    BY <1>1, <1>4 DEF RecoverDelivery, Delivery
  <1>5. ASSUME NEW w \in Workers, Issue(w) PROVE Goal
    BY <1>1, <1>5 DEF Issue, Delivery
  <1>6. ASSUME NEW w \in Workers, NEW s \in Sessions, ClaimDelivery(w, s) PROVE Goal
    <2>1. s = t => delivery'[t].status \in {"AMBIGUOUS", "SENDING"}
      BY <1>1, <1>6 DEF ClaimDelivery, Delivery
    <2>2. s # t => delivery'[t] = delivery[t]
      BY <1>1, <1>6 DEF ClaimDelivery
    <2> QED
      BY <2>1, <2>2
  <1>7. ASSUME NEW w \in Workers, RecordDelivery(w) PROVE Goal
    <2>1. Outcome(w) = "SENT" => worker[w].step = "sent"
      BY DEF Outcome
    <2>2. \/ delivery' = delivery
          \/ delivery' = [delivery EXCEPT ![worker[w].session].status = Outcome(w),
                                          ![worker[w].session].stale = FALSE]
      BY <1>7, Zenon DEF RecordDelivery
    <2> HIDE DEF Outcome
    <2> QED
      BY <1>1, <2>1, <2>2 DEF Delivery
  <1>8. ASSUME Outside PROVE Goal
    BY <1>2, <1>3, <1>4, <1>8 DEF Outside, Settle, InvoiceStale, Download, Damage
  <1>9. ASSUME NEW w \in Workers, PlainStep(w) PROVE Goal
    BY <1>2, <1>5, <1>7, <1>9
    DEF PlainStep, Discover, LockSession, NotIssued, Allocate, BatchDone, ClaimGeneration,
        GenerationDone, GenerateFails, MarkReady, FailGeneration, DeliveryDone, IssueFails, Crash
  <1>10. ASSUME NEW w \in Workers, Special(w) PROVE Goal
    BY <1>2, <1>6, <1>10 DEF Special, LookForObject, Publish, OpenArtifact, Submit
  <1> QED
    BY <1>2, <1>8, <1>9, <1>10, StepKinds DEF vars

LEMMA AcceptedKept ==
  ASSUME Types, MailsTyped, Accepted, [Next]_vars
  PROVE  Accepted'
  <1>1. ASSUME NEW t \in Sessions PROVE mails[t].accepted > 0 => mails'[t].accepted > 0
    <2>1. mails'[t].accepted >= mails[t].accepted /\ mails[t].accepted \in Nat
      BY MailsStep, MailsFields DEF Grows
    <2>2. mails'[t].accepted \in Nat
      BY MailsStep DEF MailsTyped, Mails
    <2> QED
      BY <2>1, <2>2
  <1>2. ASSUME NEW t \in Sessions, delivery'[t].status = "SENT" PROVE mails'[t].accepted > 0
    BY <1>1, <1>2, SentFrom DEF Accepted
  <1>3. ASSUME NEW v \in Workers, worker'[v].step = "sent"
        PROVE  mails'[worker'[v].session].accepted > 0
    <2>1. CASE worker'[v] = worker[v]
      <3>1. worker[v].session \in Sessions
        BY <1>3, <2>1 DEF Types, WorkerTypes
      <3> QED
        BY <1>1, <1>3, <2>1, <3>1 DEF Accepted
    <2>2. CASE worker'[v] # worker[v]
      <3>1. PICK w \in Workers : Special(w)
        BY <1>3, <2>2, StepKinds, PlainSteps, OutsideIsPlain DEF Plain
      <3>t. WorkerTypes
        BY DEF Types
      <3>2. CASE LookForObject(w)
        BY <1>3, <2>2, <3>2, <3>t, GoesOn DEF LookForObject
      <3>3. CASE Publish(w) \/ OpenArtifact(w)
        BY <1>3, <2>2, <3>3, <3>t, GoesOn DEF Publish, OpenArtifact
      <3>4. ASSUME NEW s \in Sessions, ClaimDelivery(w, s) PROVE FALSE
        BY <1>3, <2>2, <3>4, <3>t, ClaimMoves
      <3>5. ASSUME NEW taken \in BOOLEAN, NEW success \in BOOLEAN, Submit(w, taken, success)
            PROVE  mails'[worker'[v].session].accepted > 0
        BY <1>3, <2>2, <3>5, SubmitMoves
      <3> QED
        BY <3>1, <3>2, <3>3, <3>4, <3>5 DEF Special
    <2> QED
      BY <2>1, <2>2
  <1> QED
    BY <1>2, <1>3 DEF Accepted

-----------------------------------------------------------------------------
(* What is submitted was queued. *)

LEMMA UnsentFinite ==
  ASSUME NEW t \in Sessions
  PROVE  IsFiniteSet(Unsent(t)) /\ Cardinality(Unsent(t)) \in Nat
  <1>1. Unsent(t) \subseteq Workers
    BY DEF Unsent
  <1> QED
    BY <1>1, InvoicingAssumption, FS_Subset, FS_CardinalityType

LEMMA FewerUnsent ==
  ASSUME NEW t \in Sessions, Unsent(t)' \subseteq Unsent(t)
  PROVE  /\ Cardinality(Unsent(t)') \in Nat
         /\ Cardinality(Unsent(t)') <= Cardinality(Unsent(t))
  BY UnsentFinite, FS_Subset, FS_CardinalityType

LEMMA PlainUnsent ==
  ASSUME Plain, NEW t \in Sessions
  PROVE  Unsent(t)' \subseteq Unsent(t)
  BY DEF Plain, Unsent

\* No new delivery waits, no worker gets one, and nothing is submitted.
LEMMA Quiet ==
  ASSUME MailsTyped, NEW t \in Sessions, Accounted(t), Unsent(t)' \subseteq Unsent(t),
         delivery'[t].status = "PENDING" => delivery[t].status = "PENDING", SameMails(t)
  PROVE  Accounted(t)'
  <1>1. /\ Cardinality(Unsent(t)') \in Nat /\ Cardinality(Unsent(t)) \in Nat
        /\ Cardinality(Unsent(t)') <= Cardinality(Unsent(t))
    BY UnsentFinite, FewerUnsent
  <1>2. Waiting(t) \in {0, 1} /\ Waiting(t)' \in {0, 1} /\ Waiting(t)' <= Waiting(t)
    BY DEF Waiting
  <1>3. /\ mails[t].queued \in Nat /\ mails[t].submitted \in Nat
        /\ mails'[t].queued = mails[t].queued /\ mails'[t].submitted = mails[t].submitted
    BY MailsFields DEF SameMails
  <1>4. mails[t].submitted + Cardinality(Unsent(t)) + Waiting(t) <= mails[t].queued
    BY DEF Accounted
  <1>5. mails'[t].submitted + Cardinality(Unsent(t)') + Waiting(t)' <= mails'[t].queued
    <2> HIDE DEF Waiting
    <2> QED
      BY <1>1, <1>2, <1>3, <1>4
  <1> QED
    BY <1>5 DEF Accounted

\* One more is queued and may wait now.
LEMMA QueuedWaits ==
  ASSUME MailsTyped, NEW t \in Sessions, Accounted(t), Unsent(t)' \subseteq Unsent(t),
         mails'[t].queued = mails[t].queued + 1, mails'[t].submitted = mails[t].submitted
  PROVE  Accounted(t)'
  <1>1. /\ Cardinality(Unsent(t)') \in Nat /\ Cardinality(Unsent(t)) \in Nat
        /\ Cardinality(Unsent(t)') <= Cardinality(Unsent(t))
    BY UnsentFinite, FewerUnsent
  <1>2. Waiting(t) \in {0, 1} /\ Waiting(t)' \in {0, 1}
    BY DEF Waiting
  <1>3. mails[t].queued \in Nat /\ mails[t].submitted \in Nat
    BY MailsFields
  <1>4. mails[t].submitted + Cardinality(Unsent(t)) + Waiting(t) <= mails[t].queued
    BY DEF Accounted
  <1>5. mails'[t].submitted + Cardinality(Unsent(t)') + Waiting(t)' <= mails'[t].queued
    <2> HIDE DEF Waiting
    <2> QED
      BY <1>1, <1>2, <1>3, <1>4
  <1> QED
    BY <1>5 DEF Accounted

\* A worker takes what waited, submits it, or gives it back.
LEMMA HandedOver ==
  ASSUME MailsTyped, NEW t \in Sessions, Accounted(t), NEW w \in Workers,
         mails'[t].queued = mails[t].queued,
         \/ /\ Unsent(t)' \subseteq Unsent(t) \cup {w}
            /\ delivery[t].status = "PENDING" /\ delivery'[t].status # "PENDING"
            /\ mails'[t].submitted = mails[t].submitted
         \/ /\ w \in Unsent(t) /\ Unsent(t)' \subseteq Unsent(t) \ {w}
            /\ delivery'[t].status = delivery[t].status
            /\ mails'[t].submitted = mails[t].submitted + 1
         \/ /\ w \in Unsent(t) /\ Unsent(t)' \subseteq Unsent(t) \ {w}
            /\ mails'[t].submitted = mails[t].submitted
  PROVE  Accounted(t)'
  <1>1. IsFiniteSet(Unsent(t)) /\ Cardinality(Unsent(t)) \in Nat
    BY UnsentFinite
  <1>2. ASSUME Unsent(t)' \subseteq Unsent(t) \cup {w}
        PROVE  /\ Cardinality(Unsent(t)') \in Nat
               /\ Cardinality(Unsent(t)') <= Cardinality(Unsent(t)) + 1
    <2>1. /\ IsFiniteSet(Unsent(t) \cup {w})
          /\ Cardinality(Unsent(t) \cup {w}) <= Cardinality(Unsent(t)) + 1
      <3>1. CASE w \in Unsent(t)
        <4>1. Unsent(t) \cup {w} = Unsent(t)
          BY <3>1
        <4> QED
          BY <1>1, <4>1
      <3>2. CASE w \notin Unsent(t)
        <4>1. /\ IsFiniteSet(Unsent(t) \cup {w})
              /\ Cardinality(Unsent(t) \cup {w}) = Cardinality(Unsent(t)) + 1
          BY <1>1, <3>2, FS_AddElement
        <4> QED
          BY <1>1, <4>1
      <3> QED
        BY <3>1, <3>2
    <2> QED
      BY <1>1, <1>2, <2>1, FS_Subset, FS_CardinalityType
  <1>3. ASSUME w \in Unsent(t), Unsent(t)' \subseteq Unsent(t) \ {w}
        PROVE  /\ Cardinality(Unsent(t)') \in Nat
               /\ Cardinality(Unsent(t)') <= Cardinality(Unsent(t)) - 1
    <2>1. /\ IsFiniteSet(Unsent(t) \ {w})
          /\ Cardinality(Unsent(t) \ {w}) = Cardinality(Unsent(t)) - 1
      BY <1>1, <1>3, FS_RemoveElement
    <2> QED
      BY <1>1, <1>3, <2>1, FS_Subset, FS_CardinalityType
  <1>4. /\ Waiting(t) \in {0, 1} /\ Waiting(t)' \in {0, 1}
        /\ delivery[t].status = "PENDING" => Waiting(t) = 1
        /\ delivery'[t].status # "PENDING" => Waiting(t)' = 0
        /\ delivery'[t].status = delivery[t].status => Waiting(t)' = Waiting(t)
    BY DEF Waiting
  <1>5. mails[t].queued \in Nat /\ mails[t].submitted \in Nat
    BY MailsFields
  <1>6. mails[t].submitted + Cardinality(Unsent(t)) + Waiting(t) <= mails[t].queued
    BY DEF Accounted
  <1>7. mails'[t].submitted + Cardinality(Unsent(t)') + Waiting(t)' <= mails'[t].queued
    <2> HIDE DEF Waiting
    <2>1. CASE /\ Unsent(t)' \subseteq Unsent(t) \cup {w}
               /\ delivery[t].status = "PENDING" /\ delivery'[t].status # "PENDING"
               /\ mails'[t].submitted = mails[t].submitted
      BY <1>1, <1>2, <1>4, <1>5, <1>6, <2>1
    <2>2. CASE /\ w \in Unsent(t) /\ Unsent(t)' \subseteq Unsent(t) \ {w}
               /\ delivery'[t].status = delivery[t].status
               /\ mails'[t].submitted = mails[t].submitted + 1
      BY <1>1, <1>3, <1>4, <1>5, <1>6, <2>2
    <2>3. CASE /\ w \in Unsent(t) /\ Unsent(t)' \subseteq Unsent(t) \ {w}
               /\ mails'[t].submitted = mails[t].submitted
      BY <1>1, <1>3, <1>4, <1>5, <1>6, <2>3
    <2> QED
      BY <2>1, <2>2, <2>3
  <1> QED
    BY <1>7 DEF Accounted

LEMMA AccountedKept ==
  ASSUME Types, MailsTyped, [Next]_vars, NEW t \in Sessions, Accounted(t)
  PROVE  Accounted(t)'
  <1>t. WorkerTypes /\ delivery \in [Sessions -> Delivery]
    BY DEF Types, RowTypes
  <1>1. ASSUME UNCHANGED mails PROVE SameMails(t)
    BY <1>1, MailsFields DEF SameMails, Grows
  <1>2. ASSUME UNCHANGED <<delivery, mails>>, Unsent(t)' \subseteq Unsent(t) PROVE Accounted(t)'
    BY <1>1, <1>2, Quiet
  <1>3. ASSUME NEW s \in Sessions, InvoiceStale(s) \/ DeliveryStale(s) PROVE Accounted(t)'
    <2>1. PICK b \in BOOLEAN : mails' = [mails EXCEPT ![s].overrun = b]
      BY <1>3, Zenon DEF InvoiceStale, DeliveryStale
    <2>2. SameMails(t)
      BY <2>1, Noted
    <2>3. delivery'[t].status = delivery[t].status
      BY <1>3, <1>t DEF InvoiceStale, DeliveryStale, Delivery
    <2>4. Unsent(t)' = Unsent(t)
      BY <1>3 DEF InvoiceStale, DeliveryStale, Unsent
    <2> QED
      BY <2>2, <2>3, <2>4, Quiet
  <1>4. ASSUME NEW s \in Sessions, NEW left \in {"none", "other"}, Damage(s, left)
        PROVE  Accounted(t)'
    <2> DEFINE b == mails[s].spoiled \/ invoice[s].status = "READY" \/ Publishing(s)
    <2>1. mails' = [mails EXCEPT ![s].spoiled = b]
      BY <1>4 DEF Damage, Publishing
    <2>2. b \in BOOLEAN /\ (mails[s].spoiled => b)
      BY Zenon
    <2> HIDE DEF b
    <2>3. SameMails(t)
      BY <2>1, <2>2, Noted
    <2>4. Unsent(t)' = Unsent(t) /\ delivery' = delivery
      BY <1>4 DEF Damage, Unsent
    <2> QED
      BY <2>3, <2>4, Quiet
  <1>5. ASSUME NEW s \in Sessions, mails' = [mails EXCEPT ![s].queued = @ + 1],
               delivery' = [delivery EXCEPT ![s] = [status |-> "PENDING", attempts |-> 0,
                                                    stale |-> FALSE]],
               Unsent(t)' \subseteq Unsent(t)
        PROVE  Accounted(t)'
    <2>1. CASE s = t
      BY <1>5, <2>1, QueueCounted, QueuedWaits
    <2>2. CASE s # t
      <3>1. SameMails(t) /\ delivery'[t] = delivery[t]
        BY <1>5, <1>t, <2>2, QueueCounted
      <3> QED
        BY <1>5, <3>1, Quiet
    <2> QED
      BY <2>1, <2>2
  <1>6. ASSUME Outside PROVE Accounted(t)'
    <2>1. Unsent(t)' = Unsent(t)
      BY <1>6, OutsideIsPlain DEF Unsent
    <2> QED
      BY <1>2, <1>3, <1>4, <1>5, <1>6, <2>1 DEF Outside, Settle, Download, RecoverDelivery
  <1>7. ASSUME NEW w \in Workers, Issue(w) PROVE Accounted(t)'
    <2>1. Unsent(t)' \subseteq Unsent(t)
      BY <1>7, PlainSteps, PlainUnsent DEF PlainStep
    <2>2. worker[w].session \in Sessions
      BY <1>7 DEF Issue, Types, WorkerTypes
    <2> QED
      BY <1>2, <1>5, <1>7, <2>1, <2>2 DEF Issue
  <1>8. ASSUME NEW w \in Workers, RecordDelivery(w) PROVE Accounted(t)'
    <2> DEFINE s == worker[w].session
    <2>1. Unsent(t)' \subseteq Unsent(t)
      BY <1>8, PlainSteps, PlainUnsent DEF PlainStep
    <2>2. UNCHANGED mails /\ SameMails(t)
      BY <1>1, <1>8 DEF RecordDelivery
    <2>3. \/ delivery' = delivery
          \/ delivery' = [delivery EXCEPT ![s].status = Outcome(w), ![s].stale = FALSE]
      BY <1>8, Zenon DEF RecordDelivery
    <2>4. worker[w].step \in {"sent", "unsure", "terminal", "before"}
      BY <1>8 DEF RecordDelivery
    <2>5. Outcome(w) = "PENDING" => worker[w].step = "before"
      BY <2>4 DEF Outcome
    <2>6. CASE s = t /\ worker[w].step = "before"
      <3>1. w \in Unsent(t)
        BY <2>6 DEF Unsent
      <3>2. worker'[w].step = "next"
        BY <1>8, <1>t DEF RecordDelivery, EndsClaim, WorkerTypes, Worker
      <3>3. Unsent(t)' \subseteq Unsent(t) \ {w}
        BY <2>1, <3>2 DEF Unsent
      <3> QED
        BY <2>2, <3>1, <3>3, HandedOver DEF SameMails
    <2>7. CASE ~(s = t /\ worker[w].step = "before")
      <3>1. delivery'[t].status = "PENDING" => delivery[t].status = "PENDING"
        <4> HIDE DEF Outcome
        <4> QED
          BY <1>t, <2>3, <2>5, <2>7 DEF Delivery
      <3> QED
        BY <2>1, <2>2, <3>1, Quiet
    <2> QED
      BY <2>6, <2>7
  <1>9. ASSUME NEW w \in Workers, PlainStep(w) PROVE Accounted(t)'
    <2>1. Unsent(t)' \subseteq Unsent(t)
      BY <1>9, PlainSteps, PlainUnsent
    <2> QED
      BY <1>2, <1>7, <1>8, <1>9, <2>1
      DEF PlainStep, Discover, LockSession, NotIssued, Allocate, BatchDone, ClaimGeneration,
          GenerationDone, GenerateFails, MarkReady, FailGeneration, DeliveryDone, IssueFails, Crash
  <1>10. ASSUME NEW w \in Workers, NEW s \in Sessions, ClaimDelivery(w, s) PROVE Accounted(t)'
    <2>1. UNCHANGED mails /\ SameMails(t)
      BY <1>1, <1>10 DEF ClaimDelivery
    <2>2. CASE s = t /\ delivery[t].status = "PENDING"
      <3>1. Unsent(t)' \subseteq Unsent(t) \cup {w}
        BY <1>10, <1>t, ClaimMoves DEF Unsent
      <3>2. delivery'[t].status # "PENDING"
        BY <1>10, <1>t, <2>2 DEF ClaimDelivery, Delivery
      <3> QED
        BY <2>1, <2>2, <3>1, <3>2, HandedOver DEF SameMails
    <2>3. CASE ~(s = t /\ delivery[t].status = "PENDING")
      <3>1. Unsent(t)' \subseteq Unsent(t)
        BY <1>10, <1>t, <2>3, ClaimMoves DEF Unsent
      <3>2. delivery'[t].status = "PENDING" => delivery[t].status = "PENDING"
        <4>1. CASE s = t
          BY <1>10, <1>t, <2>3, <4>1 DEF ClaimDelivery, Delivery
        <4>2. CASE s # t
          BY <1>10, <1>t, <4>2 DEF ClaimDelivery
        <4> QED
          BY <4>1, <4>2
      <3> QED
        BY <2>1, <3>1, <3>2, Quiet
    <2> QED
      BY <2>2, <2>3
  <1>11. ASSUME NEW w \in Workers, NEW taken \in BOOLEAN, NEW success \in BOOLEAN,
                Submit(w, taken, success)
         PROVE  Accounted(t)'
    <2>1. delivery' = delivery
      BY <1>11 DEF Submit
    <2>2. Unsent(t)' \subseteq Unsent(t) \ {w}
      BY <1>11, SubmitMoves DEF Unsent
    <2>3. CASE worker[w].session = t
      <3>1. w \in Unsent(t)
        BY <1>11, <2>3, SubmitMoves DEF Unsent
      <3> QED
        BY <1>11, <2>1, <2>2, <2>3, <3>1, SubmitMoves, HandedOver
    <2>4. CASE worker[w].session # t
      <3>1. SameMails(t)
        BY <1>11, <2>4, SubmitMoves
      <3> QED
        BY <2>1, <2>2, <3>1, Quiet
    <2> QED
      BY <2>3, <2>4
  <1>12. ASSUME NEW w \in Workers, LookForObject(w) \/ Publish(w) \/ OpenArtifact(w)
         PROVE  Accounted(t)'
    <2>1. /\ worker'[w].session = worker[w].session
          /\ \A v \in Workers \ {w} : worker'[v] = worker[v]
          /\ \/ worker'[w].step \notin {"mail", "opened", "before"}
             \/ worker[w].step = "mail"
      <3>1. CASE LookForObject(w)
        BY <1>t, <3>1, GoesOn DEF LookForObject
      <3>2. CASE Publish(w)
        BY <1>t, <3>2, GoesOn DEF Publish
      <3>3. CASE OpenArtifact(w)
        BY <1>t, <3>3, GoesOn DEF OpenArtifact
      <3> QED
        BY <1>12, <3>1, <3>2, <3>3
    <2>2. Unsent(t)' \subseteq Unsent(t)
      BY <2>1 DEF Unsent
    <2> QED
      BY <1>2, <1>12, <2>2 DEF LookForObject, Publish, OpenArtifact
  <1>13. CASE UNCHANGED vars
    <2>1. Unsent(t)' = Unsent(t)
      BY <1>13 DEF vars, Unsent
    <2> QED
      BY <1>2, <1>13, <2>1 DEF vars
  <1> QED
    BY <1>6, <1>9, <1>10, <1>11, <1>12, <1>13, StepKinds DEF Special

-----------------------------------------------------------------------------
LEMMA InitDelivery == Init => DInv
  <1> SUFFICES ASSUME Init PROVE DInv
    OBVIOUS
  <1>1. MailsTyped
    BY DEF Init, MailsTyped, Mails
  <1>2. Published /\ Accepted
    BY DEF Init, Idle, Published, Publishing, Accepted
  <1>3. ASSUME NEW t \in Sessions PROVE Accounted(t)
    <2>1. Unsent(t) = {}
      BY DEF Init, Idle, Unsent
    <2>2. Waiting(t) = 0 /\ mails[t].submitted = 0 /\ mails[t].queued = 0
      BY DEF Init, Waiting
    <2> QED
      BY <2>1, <2>2, FS_EmptySet DEF Accounted
  <1> QED
    BY <1>1, <1>2, <1>3, InitInv DEF DInv

\* The invariant of the deliveries holds of every run of the worker.
THEOREM DeliveryInductive == Spec => []DInv
  <1>1. DInv /\ [Next]_vars => DInv'
    BY TypesKept, NumbersKept, MailsStep, PublishedKept, AcceptedKept, AccountedKept DEF DInv, IInv
  <1> QED
    BY InitDelivery, <1>1, PTL DEF Spec

\* Whatever workers, crashes, overrun claims, a doubtful server and recoveries
\* do: a READY invoice is the published one, a mail is not submitted more often
\* than it was queued, and SENT means that one was accepted.
THEOREM IssuedOnce == Spec => []IssuedGoesOutOnce
  <1>1. ASSUME DInv PROVE IssuedGoesOutOnce
    <2>1. ReadyIsPublished
      BY <1>1 DEF DInv, Published, ReadyIsPublished
    <2>2. ASSUME NEW s \in Sessions PROVE mails[s].submitted <= mails[s].queued
      <3>1. mails[s].submitted + Cardinality(Unsent(s)) + Waiting(s) <= mails[s].queued
        BY <1>1 DEF DInv, Accounted
      <3>2. mails[s].submitted \in Nat /\ mails[s].queued \in Nat
        BY <1>1, MailsFields DEF DInv
      <3>3. Cardinality(Unsent(s)) \in Nat /\ Waiting(s) \in {0, 1}
        BY UnsentFinite DEF Waiting
      <3> HIDE DEF Waiting
      <3> QED
        BY <3>1, <3>2, <3>3
    <2>3. SubmittedAsQueued
      BY <1>1, <2>2 DEF DInv, Accepted, SubmittedAsQueued
    <2> QED
      BY <2>1, <2>3 DEF IssuedGoesOutOnce
  <1> QED
    BY DeliveryInductive, <1>1, PTL

-----------------------------------------------------------------------------
(* Subscriptions, for any operators, commands and lifecycle workers.        *)

\* Rows of subscriptions, of their histories, and of the versions of a plan.
Ends == 1 - Period .. MaxTime + Period
SubRows == [cpo : Cpos, status : Statuses, ends : Ends, version : Nat]
HistoryRows == [key : Keys, previous : Statuses \cup {None}, next : Statuses]
VersionRows == [status : {"DRAFT", "PUBLISHED"}, trial : BOOLEAN]
PlanStatuses == {"none", "DRAFT", "PUBLISHED", "ARCHIVED"}

\* It holds the row lock of the subscription it changes.
Reading(r) == request[r].step = "read" /\ request[r].op # "ISSUE"

\* A command on its way: a request takes less than two ticks, and what it read
\* under the lock is still so.
Running(r) ==
  LET q == request[r] IN
  /\ q.step \in {"selected", "read"}
  /\ q.op \in AllOperations /\ q.cpo \in Cpos /\ q.key \in Keys
  /\ q.at \in 0 .. MaxTime /\ q.at <= now /\ now <= q.at + 1
  /\ q.start \in {q.at, q.at - Period}
  /\ q.op # "ISSUE" => q.sub \in Subscribed
  /\ q.step = "read" /\ q.op = "ISSUE" => q.version \in DOMAIN plan.versions
  /\ Reading(r) => q.record = sub[q.sub] /\ q.record.status \in SelectedStatuses(q.op)

Requesting == \A r \in Requests : request[r] = Free \/ Running(r)

\* A subscription's row lock has one holder.
OneReader ==
  \A r, q \in Requests :
    (Reading(r) /\ Reading(q) /\ request[r].sub = request[q].sub) => r = q

Clocked == now \in 0 .. MaxTime

\* There is one draft at most.
PlanStands ==
  /\ plan = [status |-> plan.status, versions |-> plan.versions]
  /\ plan.status \in PlanStatuses
  /\ plan.versions \in Seq(VersionRows)
  /\ plan.status = "none" => plan.versions = <<>>
  /\ \A v, w \in Drafts : v = w

SubsTyped ==
  /\ Subscribed \subseteq Subs /\ IsFiniteSet(Subscribed)
  /\ sub \in [Subscribed -> SubRows]
  /\ \A s \in Subscribed : sub[s].version \in DOMAIN plan.versions

Chained ==
  /\ history \in [Subs -> Seq(HistoryRows)]
  /\ \A s \in Subs : LET h == history[s] IN
       /\ s \in Subscribed <=> h # <<>>
       /\ h # <<>> => h[1].previous = None /\ h[Len(h)].next = sub[s].status
       /\ \A n \in 2 .. Len(h) : h[n].previous = h[n - 1].next

KeysOnce ==
  \A s, t \in Subs : \A n \in DOMAIN history[s], m \in DOMAIN history[t] :
    history[s][n].key = history[t][m].key => s = t /\ n = m

IsCurrent(s) == sub[s].status \in CurrentStatuses

OneCurrent ==
  \A s, t \in Subscribed :
    (IsCurrent(s) /\ IsCurrent(t) /\ sub[s].cpo = sub[t].cpo) => s = t

Noticed ==
  /\ notices \subseteq Subs \X DOMAIN Warnings
  /\ mailed \in [Subs -> [DOMAIN Warnings -> {0, 1}]]
  /\ OneNotice

\* The inductive invariant.
SubInv ==
  /\ Clocked /\ PlanStands /\ SubsTyped /\ Chained /\ KeysOnce /\ OneCurrent
  /\ Noticed /\ pass \in [Instances -> [at : 0 .. MaxTime, todo : Seq(Subs)]]
  /\ request = [r \in Requests |-> request[r]] /\ Requesting /\ OneReader

\* What the proofs use of the constants.
LEMMA SubConstants ==
  /\ Period \in Nat /\ Period > 1 /\ MaxTime \in Nat /\ MaxTime > 0
  /\ MaxVersions \in Nat /\ Operations \subseteq AllOperations
  <1>1. PICK kind \in DOMAIN Warnings : Warnings[kind] \in 1 .. Period - 1
    BY PeriodsAssumption
  <1>2. Period \in Nat
    BY PeriodsAssumption
  <1>3. Period > 1
    BY <1>1, <1>2
  <1> QED
    BY <1>2, <1>3, PeriodsAssumption

LEMMA SubStart == SubscriptionsInit => SubInv
  <1> SUFFICES ASSUME SubscriptionsInit PROVE SubInv
    OBVIOUS
  <1> USE DEF SubscriptionsInit
  <1>1. Clocked
    BY SubConstants DEF Clocked
  <1>2. plan.status = "none" /\ plan.versions = <<>> /\ plan.versions \in Seq(VersionRows)
    BY DEF SubscriptionsInit
  <1>3. PlanStands
    BY <1>2 DEF PlanStands, PlanStatuses, Drafts
  <1>4. Subscribed = {} /\ sub \in [Subscribed -> SubRows]
    BY DEF Subscribed
  <1>5. SubsTyped /\ OneCurrent
    BY <1>4, FS_EmptySet DEF SubsTyped, OneCurrent
  <1>6. \A s \in Subs : history[s] = <<>>
    OBVIOUS
  <1>7. history \in [Subs -> Seq(HistoryRows)]
    OBVIOUS
  <1>8. Chained
    BY <1>4, <1>6, <1>7 DEF Chained
  <1>9. KeysOnce
    BY <1>6 DEF KeysOnce
  <1>10. Noticed
    BY DEF Noticed, OneNotice
  <1>11. pass \in [Instances -> [at : 0 .. MaxTime, todo : Seq(Subs)]]
    BY SubConstants DEF NoPass
  <1>12. \A r \in Requests : request[r] = Free /\ request[r].step = "idle"
    BY DEF Free
  <1>13. request = [r \in Requests |-> request[r]]
    OBVIOUS
  <1>14. Requesting
    BY <1>12 DEF Requesting
  <1>15. OneReader
    BY <1>12 DEF OneReader, Reading
  <1> QED
    BY <1>1, <1>3, <1>5, <1>8, <1>9, <1>10, <1>11, <1>13, <1>14, <1>15
       DEF SubInv

\* A request in flight keeps what it knows while its subscription stays.
LEMMA RunningKept ==
  ASSUME NEW r \in Requests, Running(r), request'[r] = request[r], now' = now,
         DOMAIN plan.versions \subseteq DOMAIN plan'.versions, Subscribed \subseteq Subscribed',
         Reading(r) => sub'[request[r].sub] = sub[request[r].sub]
  PROVE  Running(r)'
  BY DEF Running, Reading, SelectedStatuses, CurrentStatuses

\* What is not a request's step.
LEMMA RequestsKept ==
  ASSUME Requesting, OneReader, request' = request, now' = now,
         DOMAIN plan.versions \subseteq DOMAIN plan'.versions, sub' = sub
  PROVE  Requesting' /\ OneReader'
  <1>1. Subscribed' = Subscribed
    BY DEF Subscribed
  <1>2. Requesting'
    BY <1>1, RunningKept DEF Requesting
  <1> QED
    BY <1>2 DEF OneReader, Reading

\* A request ends, and the subscriptions the others have read stay.
LEMMA RequestFreed ==
  ASSUME request = [r \in Requests |-> request[r]], Requesting, OneReader, NEW r \in Requests,
         request' = [request EXCEPT ![r] = Free], now' = now, plan' = plan,
         Subscribed \subseteq Subscribed',
         \A q \in Requests \ {r} : Reading(q) =>
           sub'[request[q].sub] = sub[request[q].sub]
  PROVE  /\ request' = [q \in Requests |-> request'[q]] /\ Requesting' /\ OneReader'
  <1>1. /\ request' = [q \in Requests |-> request'[q]] /\ request'[r] = Free
        /\ \A q \in Requests \ {r} : request'[q] = request[q]
    BY Zenon
  <1>2. Requesting'
    <2>1. \A q \in Requests \ {r} : Running(q) => Running(q)'
      BY <1>1, RunningKept
    <2> QED
      BY <1>1, <2>1 DEF Requesting
  <1>3. request'[r].step = "idle"
    BY <1>1 DEF Free
  <1> QED
    BY <1>1, <1>2, <1>3 DEF OneReader, Reading

\* What is about subscriptions stays with them.
SubsStay == sub' = sub /\ history' = history
RowsHold == SubsTyped /\ Chained /\ KeysOnce /\ OneCurrent

LEMMA SubsKept ==
  ASSUME RowsHold, SubsStay, DOMAIN plan.versions \subseteq DOMAIN plan'.versions
  PROVE  RowsHold'
  <1>1. Subscribed' = Subscribed
    BY DEF SubsStay, Subscribed
  <1>2. SubsTyped'
    BY <1>1 DEF SubsStay, RowsHold, SubsTyped
  <1>3. Chained' /\ KeysOnce' /\ OneCurrent'
    BY <1>1 DEF SubsStay, RowsHold, Chained, KeysOnce, OneCurrent, IsCurrent
  <1> QED
    BY <1>2, <1>3 DEF RowsHold

LEMMA NoticesKept ==
  ASSUME Noticed, mailed' = mailed, notices' = notices
  PROVE  Noticed'
  BY DEF Noticed, OneNotice

LEMMA TickKeeps ==
  ASSUME SubInv, Tick
  PROVE  SubInv'
  <1> USE DEF SubInv
  <1>1. /\ now \in 0 .. MaxTime /\ now < MaxTime /\ now' = now + 1
        /\ UNCHANGED <<plan, sub, history, notices, mailed, request, pass>>
        /\ \A r \in Requests : request[r] = Free \/ request[r].at = now
    BY DEF Tick, Clocked
  <1>2. Clocked'
    BY <1>1, SubConstants DEF Clocked
  <1>3. Requesting'
    <2> SUFFICES ASSUME NEW r \in Requests, request[r] # Free
                 PROVE  Running(r)'
      BY <1>1 DEF Requesting
    <2>1. Running(r) /\ request[r].at = now
      BY <1>1 DEF Requesting
    <2>2. request'[r].at <= now' /\ now' <= request'[r].at + 1
      BY <1>1, <2>1
    <2> QED
      BY <1>1, <2>1, <2>2 DEF Running, Reading, Subscribed, SelectedStatuses, CurrentStatuses
  <1>4. OneReader'
    BY <1>1 DEF OneReader, Reading
  <1>5. PlanStands'
    BY <1>1 DEF PlanStands, Drafts
  <1>6. RowsHold'
    BY <1>1, SubsKept DEF RowsHold, SubsStay
  <1>7. Noticed'
    BY <1>1, NoticesKept
  <1> QED
    BY <1>1, <1>2, <1>3, <1>4, <1>5, <1>6, <1>7 DEF RowsHold

-----------------------------------------------------------------------------
(* The plan. *)

\* The terms of published versions do not change, and plans are not revived.
PlanGoesOn ==
  /\ DOMAIN plan.versions \subseteq DOMAIN plan'.versions
  /\ plan.status = "ARCHIVED" => plan'.status = "ARCHIVED"
  /\ \A v \in DOMAIN plan.versions :
       plan.versions[v].status = "PUBLISHED" => plan'.versions[v] = plan.versions[v]

PlanMoves ==
  (\E trial \in BOOLEAN : CreatePlan(trial) \/ UpdateDraft(trial)) \/ PublishPlan \/ ArchivePlan

LEMMA DraftType ==
  ASSUME NEW trial \in BOOLEAN
  PROVE  Draft(trial) \in VersionRows /\ Draft(trial).status = "DRAFT"
  BY DEF Draft, VersionRows

\* Some versions are rewritten.
LEMMA VersionsRewritten ==
  ASSUME NEW versions \in Seq(VersionRows), NEW after, DOMAIN after = DOMAIN versions,
         after = [v \in DOMAIN versions |-> after[v]],
         \A v \in DOMAIN versions : after[v] \in VersionRows
  PROVE  after \in Seq(VersionRows)
  <1>1. DOMAIN versions = 1 .. Len(versions) /\ Len(versions) \in Nat
    OBVIOUS
  <1>2. after \in [1 .. Len(versions) -> VersionRows]
    BY <1>1
  <1> QED
    BY <1>1, <1>2, SeqDef

LEMMA PlanKeeps ==
  ASSUME PlanStands, PlanMoves
  PROVE  PlanStands' /\ PlanGoesOn
  <1> DEFINE was == plan.versions
             is == plan'.versions
  <1>0. /\ was \in Seq(VersionRows) /\ plan.status \in PlanStatuses
        /\ plan = [status |-> plan.status, versions |-> was]
        /\ DOMAIN was = 1 .. Len(was) /\ Len(was) \in Nat
        /\ \A v \in DOMAIN was : was[v] \in VersionRows /\ was[v] = was[v]
        /\ \A v, w \in DOMAIN was : was[v].status = "DRAFT" /\ was[w].status = "DRAFT" => v = w
    BY DEF PlanStands, Drafts
  <1>1. ASSUME NEW trial \in BOOLEAN, CreatePlan(trial)
        PROVE  PlanStands' /\ PlanGoesOn
    <2>1. /\ plan' = [status |-> "DRAFT", versions |-> <<Draft(trial)>>]
          /\ was = <<>> /\ plan.status = "none"
      BY <1>1 DEF CreatePlan, PlanStands
    <2>2. plan'.status = "DRAFT" /\ is = <<Draft(trial)>>
      BY <2>1
    <2>3. is \in Seq(VersionRows) /\ DOMAIN is = {1}
      BY <2>2, DraftType
    <2>4. PlanStands'
      BY <2>1, <2>2, <2>3 DEF PlanStands, PlanStatuses, Drafts
    <2>5. DOMAIN was = {}
      BY <2>1
    <2> QED
      BY <2>1, <2>4, <2>5 DEF PlanGoesOn
  <1>2. ASSUME NEW trial \in BOOLEAN, UpdateDraft(trial)
        PROVE  PlanStands' /\ PlanGoesOn
    <2>1. plan.status \in {"DRAFT", "PUBLISHED"}
      BY <1>2 DEF UpdateDraft
    <2>2. CASE /\ Drafts # {}
               /\ plan' = [plan EXCEPT !.versions =
                     [v \in DOMAIN @ |-> IF v \in Drafts THEN Draft(trial) ELSE @[v]]]
      <3> DEFINE after == [v \in DOMAIN was |-> IF v \in Drafts THEN Draft(trial) ELSE was[v]]
      <3>1. plan' = [plan EXCEPT !.versions = after]
        BY <2>2
      <3>2. \A v \in DOMAIN was : /\ after[v] = IF v \in Drafts THEN Draft(trial) ELSE was[v]
                                  /\ after[v] \in VersionRows
        BY <1>0, DraftType
      <3>3. DOMAIN after = DOMAIN was /\ after = [v \in DOMAIN was |-> after[v]]
        OBVIOUS
      <3>4. \A v \in DOMAIN was : v \in Drafts <=> was[v].status = "DRAFT"
        BY DEF Drafts
      <3> HIDE DEF after
      <3>5. /\ plan' = [status |-> plan.status, versions |-> after]
            /\ plan'.status = plan.status /\ is = after
        BY <1>0, <3>1
      <3> HIDE DEF was, is
      <3>6. is \in Seq(VersionRows)
        BY <1>0, <3>2, <3>3, <3>5, VersionsRewritten
      <3>7. \A v \in DOMAIN was : is[v].status = "DRAFT" <=> was[v].status = "DRAFT"
        BY <3>2, <3>4, <3>5, DraftType
      <3>8. PlanStands'
        BY <1>0, <2>1, <3>3, <3>5, <3>6, <3>7 DEF PlanStands, PlanStatuses, Drafts, was, is
      <3>9. PlanGoesOn
        BY <3>2, <3>3, <3>4, <3>5 DEF PlanGoesOn, was, is
      <3> QED
        BY <3>8, <3>9
    <2>3. CASE Drafts = {} /\ plan' = [plan EXCEPT !.versions = Append(@, Draft(trial))]
      <3>1. /\ plan' = [status |-> plan.status, versions |-> Append(was, Draft(trial))]
            /\ plan'.status = plan.status /\ is = Append(was, Draft(trial))
        BY <1>0, <2>3
      <3>2. Draft(trial) \in VersionRows
        BY DraftType
      <3> HIDE DEF was, is
      <3>3. /\ is \in Seq(VersionRows) /\ Len(is) = Len(was) + 1
            /\ \A v \in 1 .. Len(was) : is[v] = was[v]
            /\ DOMAIN is = 1 .. Len(was) + 1
        BY <1>0, <3>1, <3>2, AppendProperties
      <3>4. \A v \in DOMAIN is : v \in DOMAIN was \/ v = Len(was) + 1
        BY <1>0, <3>3
      <3>5. \A v \in DOMAIN was : was[v].status # "DRAFT"
        BY <2>3 DEF Drafts, was
      <3>6. PlanStands'
        BY <1>0, <2>1, <3>1, <3>3, <3>4, <3>5 DEF PlanStands, PlanStatuses, Drafts, was, is
      <3>7. PlanGoesOn
        BY <1>0, <3>1, <3>3 DEF PlanGoesOn, was, is
      <3> QED
        BY <3>6, <3>7
    <2> QED
      BY <1>2, <2>2, <2>3 DEF UpdateDraft
  <1>3. ASSUME PublishPlan
        PROVE  PlanStands' /\ PlanGoesOn
    <2>1. PICK d \in Drafts :
            plan' = [status |-> "PUBLISHED",
                     versions |-> [plan.versions EXCEPT ![d].status = "PUBLISHED"]]
      BY <1>3 DEF PublishPlan
    <2> DEFINE row == [was[d] EXCEPT !.status = "PUBLISHED"]
               after == [was EXCEPT ![d] = row]
    <2>2. d \in DOMAIN was /\ was[d].status = "DRAFT"
      BY DEF Drafts
    <2>3. row \in VersionRows /\ row.status = "PUBLISHED"
      <3>1. was[d] \in VersionRows
        BY <1>0, <2>2
      <3>2. was[d] = [status |-> was[d].status, trial |-> was[d].trial]
            /\ was[d].trial \in BOOLEAN
        BY <3>1, Zenon DEF VersionRows
      <3>3. row = [status |-> "PUBLISHED", trial |-> was[d].trial]
        BY <3>2
      <3> HIDE DEF row
      <3> QED
        BY <3>2, <3>3 DEF VersionRows
    <2>4. plan' = [status |-> "PUBLISHED", versions |-> after]
      BY <2>1
    <2> HIDE DEF row
    <2>5. DOMAIN after = DOMAIN was /\ after = [v \in DOMAIN was |-> after[v]]
      OBVIOUS
    <2>6. \A v \in DOMAIN was : after[v] = IF v = d THEN row ELSE was[v]
      OBVIOUS
    <2> HIDE DEF after
    <2>7. plan'.status = "PUBLISHED" /\ is = after
      BY <2>4
    <2>8. \A v \in DOMAIN was : after[v] \in VersionRows
      BY <1>0, <2>3, <2>6
    <2> HIDE DEF was, is
    <2>9. is \in Seq(VersionRows)
      BY <1>0, <2>5, <2>7, <2>8, VersionsRewritten
    <2>10. \A v \in DOMAIN was : is[v].status = "DRAFT" => was[v].status = "DRAFT"
      BY <2>3, <2>6, <2>7
    <2>11. PlanStands'
      BY <1>0, <2>4, <2>5, <2>7, <2>9, <2>10 DEF PlanStands, PlanStatuses, Drafts, was, is
    <2>12. plan.status # "ARCHIVED"
      BY <1>3 DEF PublishPlan
    <2>13. PlanGoesOn
      BY <2>2, <2>5, <2>6, <2>7, <2>12 DEF PlanGoesOn, was, is
    <2> QED
      BY <2>11, <2>13
  <1>4. ASSUME ArchivePlan
        PROVE  PlanStands' /\ PlanGoesOn
    <2>1. plan' = [plan EXCEPT !.status = "ARCHIVED"]
      BY <1>4 DEF ArchivePlan
    <2>2. /\ plan' = [status |-> "ARCHIVED", versions |-> was]
          /\ plan'.status = "ARCHIVED" /\ is = was
      BY <1>0, <2>1
    <2> QED
      BY <1>0, <2>2 DEF PlanStands, PlanStatuses, Drafts, PlanGoesOn
  <1> QED
    BY <1>1, <1>2, <1>3, <1>4 DEF PlanMoves

LEMMA PlanStepKeeps ==
  ASSUME SubInv, PlanMoves
  PROVE  SubInv' /\ PlanGoesOn
  <1> USE DEF SubInv
  <1>1. UNCHANGED <<now, sub, history, notices, mailed, request, pass>>
    BY DEF PlanMoves, CreatePlan, UpdateDraft, PublishPlan, ArchivePlan
  <1>2. PlanStands' /\ PlanGoesOn
    BY PlanKeeps
  <1>3. DOMAIN plan.versions \subseteq DOMAIN plan'.versions
    BY <1>2 DEF PlanGoesOn
  <1>4. Clocked' /\ Requesting' /\ OneReader'
    BY <1>1, <1>3, RequestsKept DEF Clocked
  <1>5. RowsHold'
    BY <1>1, <1>3, SubsKept DEF RowsHold, SubsStay
  <1> QED
    BY <1>1, <1>2, <1>4, <1>5, NoticesKept DEF RowsHold

-----------------------------------------------------------------------------
(* Requests. *)

\* One request moves; it reads a row that no other request holds.
LEMMA RequestMoves ==
  ASSUME Requesting, OneReader, NEW r \in Requests,
         \A q \in Requests \ {r} : request'[q] = request[q],
         UNCHANGED <<now, plan, sub>>, request'[r] = Free \/ Running(r)',
         Reading(r)' => \A q \in Requests \ {r} : Reading(q) => request[q].sub # request'[r].sub
  PROVE  Requesting' /\ OneReader'
  <1>1. \A q \in Requests \ {r} : Running(q) => Running(q)'
    BY RunningKept DEF Subscribed
  <1>2. Requesting'
    BY <1>1 DEF Requesting
  <1>3. \A q \in Requests \ {r} : Reading(q)' <=> Reading(q)
    BY DEF Reading
  <1> QED
    BY <1>2, <1>3 DEF OneReader

RequestStep == UNCHANGED <<now, plan, sub, history, notices, mailed, pass>>

LEMMA RequestStepKeeps ==
  ASSUME SubInv, RequestStep, Requesting', OneReader',
         request' = [r \in Requests |-> request'[r]]
  PROVE  SubInv'
  <1> USE DEF SubInv, RequestStep
  <1>1. RowsHold'
    BY SubsKept DEF RowsHold, SubsStay
  <1>2. Noticed' /\ PlanStands' /\ Clocked'
    BY NoticesKept DEF PlanStands, Drafts, Clocked
  <1> QED
    BY <1>1, <1>2 DEF RowsHold

LEMMA BeginKeeps ==
  ASSUME SubInv, NEW r \in Requests, NEW op \in Operations, NEW c \in Cpos, NEW key \in Keys,
         NEW start \in {now, now - Period}, Begin(r, op, c, key, start)
  PROVE  SubInv' /\ RequestStep
  <1> USE DEF SubInv
  <1>1. PICK s \in IF op = "ISSUE" THEN {None} ELSE Selected(op, c) :
          request' = [request EXCEPT ![r] =
            [Free EXCEPT !.step = "selected", !.op = op, !.cpo = c, !.key = key,
                         !.sub = s, !.at = now, !.start = start]]
    BY DEF Begin
  <1> DEFINE asked == [Free EXCEPT !.step = "selected", !.op = op, !.cpo = c, !.key = key,
                                   !.sub = s, !.at = now, !.start = start]
  <1>2. request' = [request EXCEPT ![r] = asked]
    BY <1>1
  <1>3. /\ request'[r] = asked /\ \A q \in Requests \ {r} : request'[q] = request[q]
        /\ request' = [q \in Requests |-> request'[q]]
    BY <1>2
  <1>4. RequestStep
    BY DEF Begin, RequestStep
  <1>5. op # "ISSUE" => s \in Subscribed
    BY <1>1 DEF Selected, Of
  <1>6. op \in AllOperations /\ now \in 0 .. MaxTime
    BY SubConstants DEF Clocked
  <1>7. /\ asked.step = "selected" /\ asked.op = op /\ asked.cpo = c /\ asked.key = key
        /\ asked.sub = s /\ asked.at = now /\ asked.start = start
    BY DEF asked, Free
  <1>8. ~Reading(r)'
    BY <1>3, <1>7 DEF Reading
  <1>9. now' = now /\ Subscribed' = Subscribed
    BY <1>4 DEF RequestStep, Subscribed
  <1>10. Running(r)'
    BY <1>3, <1>5, <1>6, <1>7, <1>8, <1>9 DEF Running
  <1>11. Requesting' /\ OneReader'
    BY <1>3, <1>4, <1>8, <1>10, RequestMoves DEF RequestStep
  <1> QED
    BY <1>3, <1>4, <1>11, RequestStepKeeps

LEMMA ReadKeeps ==
  ASSUME SubInv, NEW r \in Requests, Read(r)
  PROVE  SubInv' /\ RequestStep
  <1> USE DEF SubInv
  <1> DEFINE q == request[r]
  <1>1. /\ q.step = "selected" /\ q.op # "ISSUE" /\ ~Locked(q.sub)
        /\ sub[q.sub].status \in SelectedStatuses(q.op)
        /\ request' = [request EXCEPT ![r].step = "read", ![r].record = sub[q.sub]]
    BY DEF Read
  <1>2. RequestStep
    BY DEF Read, RequestStep
  <1>3. Running(r)
    BY <1>1 DEF Requesting, Free
  <1>4. request' = [request EXCEPT ![r] = [q EXCEPT !.step = "read", !.record = sub[q.sub]]]
    BY <1>1
  <1>5. /\ request'[r] = [q EXCEPT !.step = "read", !.record = sub[q.sub]]
        /\ \A p \in Requests \ {r} : request'[p] = request[p]
        /\ request' = [p \in Requests |-> request'[p]]
    BY <1>4
  <1>6. PICK row : row = sub[q.sub]
    OBVIOUS
  <1>7. /\ request'[r].op = q.op /\ request'[r].cpo = q.cpo /\ request'[r].key = q.key
        /\ request'[r].at = q.at /\ request'[r].start = q.start /\ request'[r].sub = q.sub
        /\ request'[r].step = "read" /\ request'[r].record = row
    BY <1>5, <1>6, <1>3 DEF Running
  <1>8. now' = now /\ Subscribed' = Subscribed /\ row = sub'[q.sub]
    BY <1>2, <1>6 DEF RequestStep, Subscribed
  <1>9. Reading(r)' /\ row.status \in SelectedStatuses(q.op)
    BY <1>1, <1>6, <1>7 DEF Reading
  <1>10. Running(r)'
    <2> HIDE DEF q
    <2>1. /\ q.op \in AllOperations /\ q.cpo \in Cpos /\ q.key \in Keys /\ q.op # "ISSUE"
          /\ q.at \in 0 .. MaxTime /\ q.at <= now /\ now <= q.at + 1
          /\ q.start \in {q.at, q.at - Period} /\ q.sub \in Subscribed
      BY <1>1, <1>3 DEF Running, q
    <2> QED
      BY <1>7, <1>8, <1>9, <2>1 DEF Running, SelectedStatuses, CurrentStatuses
  <1>11. \A p \in Requests \ {r} : Reading(p) => request[p].sub # request'[r].sub
    BY <1>1, <1>7 DEF Locked, Reading
  <1>12. Requesting' /\ OneReader'
    BY <1>2, <1>5, <1>10, <1>11, RequestMoves DEF RequestStep
  <1> QED
    BY <1>2, <1>5, <1>12, RequestStepKeeps

LEMMA FindKeeps ==
  ASSUME SubInv, NEW r \in Requests, NEW v \in PublishedVersions, FindVersion(r, v)
  PROVE  SubInv' /\ RequestStep
  <1> USE DEF SubInv
  <1> DEFINE q == request[r]
  <1>1. /\ q.step = "selected" /\ q.op = "ISSUE"
        /\ request' = [request EXCEPT ![r].step = "read", ![r].version = v]
    BY DEF FindVersion
  <1>2. RequestStep
    BY DEF FindVersion, RequestStep
  <1>3. Running(r)
    BY <1>1 DEF Requesting, Free
  <1>4. request' = [request EXCEPT ![r] = [q EXCEPT !.step = "read", !.version = v]]
    BY <1>1
  <1>5. /\ request'[r] = [q EXCEPT !.step = "read", !.version = v]
        /\ \A p \in Requests \ {r} : request'[p] = request[p]
        /\ request' = [p \in Requests |-> request'[p]]
    BY <1>4
  <1>6. /\ request'[r].op = q.op /\ request'[r].cpo = q.cpo /\ request'[r].key = q.key
        /\ request'[r].at = q.at /\ request'[r].start = q.start
        /\ request'[r].step = "read" /\ request'[r].version = v
    BY <1>3, <1>5 DEF Running
  <1>7. now' = now /\ Subscribed' = Subscribed /\ plan' = plan /\ v \in DOMAIN plan.versions
    BY <1>2 DEF RequestStep, Subscribed, PublishedVersions
  <1>8. ~Reading(r)'
    BY <1>1, <1>6 DEF Reading
  <1>9. Running(r)'
    <2> HIDE DEF q
    <2>1. /\ q.cpo \in Cpos /\ q.key \in Keys /\ q.op = "ISSUE" /\ q.op \in AllOperations
          /\ q.at \in 0 .. MaxTime /\ q.at <= now /\ now <= q.at + 1
          /\ q.start \in {q.at, q.at - Period}
      BY <1>1, <1>3 DEF Running, q
    <2> QED
      BY <1>6, <1>7, <1>8, <2>1 DEF Running
  <1>10. Requesting' /\ OneReader'
    BY <1>2, <1>5, <1>8, <1>9, RequestMoves DEF RequestStep
  <1> QED
    BY <1>2, <1>5, <1>10, RequestStepKeeps

LEMMA AbandonKeeps ==
  ASSUME SubInv, NEW r \in Requests, Abandon(r)
  PROVE  SubInv' /\ RequestStep
  <1> USE DEF SubInv
  <1>1. RequestStep /\ request' = [request EXCEPT ![r] = Free]
    BY DEF Abandon, RequestStep
  <1>2. request' = [q \in Requests |-> request'[q]] /\ Requesting' /\ OneReader'
    BY <1>1, RequestFreed DEF RequestStep, Subscribed
  <1> QED
    BY <1>1, <1>2, RequestStepKeeps

-----------------------------------------------------------------------------
(* A subscription is saved with its transition. *)

\* What a transaction writes: the row of s, and one line of its history.
Saved(s, record, line) ==
  /\ s \in Subs /\ record \in SubRows /\ record.version \in DOMAIN plan.versions
  /\ line.key \in Keys /\ line.key \notin UsedKeys /\ line.next = record.status
  /\ line \in HistoryRows
  /\ line.previous = IF s \in Subscribed THEN sub[s].status ELSE None
  /\ OnlyCurrent(s, record)
  /\ Subscribed' = Subscribed \cup {s} /\ sub' = [o \in Subscribed' |-> sub'[o]]
  /\ sub'[s] = record /\ \A o \in Subscribed \ {s} : sub'[o] = sub[o]
  /\ history' = [history EXCEPT ![s] = Append(@, line)]
  /\ plan' = plan

\* A line at the end of a history.
LEMMA LineAdded ==
  ASSUME NEW h \in Seq(HistoryRows), NEW line \in HistoryRows, NEW g, g = Append(h, line)
  PROVE  /\ g \in Seq(HistoryRows) /\ g # <<>> /\ Len(g) = Len(h) + 1
         /\ Len(h) \in Nat /\ DOMAIN h = 1 .. Len(h) /\ DOMAIN g = 1 .. Len(h) + 1
         /\ \A n \in 1 .. Len(h) : g[n] = h[n]
         /\ g[Len(h) + 1] = line
  BY AppendProperties

\* The history of a subscription leads from its issue to its status.
Storied(s) ==
  /\ s \in Subscribed <=> history[s] # <<>>
  /\ history[s] # <<>> => /\ history[s][1].previous = None
                          /\ history[s][Len(history[s])].next = sub[s].status
  /\ \A n \in 2 .. Len(history[s]) : history[s][n].previous = history[s][n - 1].next

LEMMA RowSaved ==
  ASSUME RowsHold, NEW s, NEW record, NEW line, Saved(s, record, line)
  PROVE  RowsHold'
  <1> USE DEF RowsHold
  <1> DEFINE h == history[s]
             g == history'[s]
  <1>1. /\ s \in Subs /\ record \in SubRows /\ record.version \in DOMAIN plan.versions
        /\ line \in HistoryRows /\ line.key \notin UsedKeys /\ line.next = record.status
        /\ Subscribed' = Subscribed \cup {s} /\ sub' = [o \in Subscribed' |-> sub'[o]]
        /\ sub'[s] = record /\ \A o \in Subscribed \ {s} : sub'[o] = sub[o]
        /\ plan' = plan
    BY DEF Saved
  <1>2. /\ history \in [Subs -> Seq(HistoryRows)] /\ h \in Seq(HistoryRows)
        /\ history' = [history EXCEPT ![s] = Append(h, line)]
    BY <1>1 DEF Saved, Chained
  <1>3. /\ g = Append(h, line) /\ \A t \in Subs \ {s} : history'[t] = history[t]
        /\ history' = [t \in Subs |-> history'[t]]
    BY <1>1, <1>2
  <1> HIDE DEF h, g
  <1>4. /\ g \in Seq(HistoryRows) /\ g # <<>> /\ Len(g) = Len(h) + 1
        /\ Len(h) \in Nat /\ DOMAIN h = 1 .. Len(h) /\ DOMAIN g = 1 .. Len(h) + 1
        /\ \A n \in 1 .. Len(h) : g[n] = h[n]
        /\ g[Len(h) + 1] = line
    BY <1>1, <1>2, <1>3, LineAdded
  <1>5. line.previous = IF s \in Subscribed THEN sub[s].status ELSE None
    BY DEF Saved
  <1>6. SubsTyped'
    <2>1. \A o \in Subscribed' : sub'[o] \in SubRows /\ sub'[o].version \in DOMAIN plan.versions
      BY <1>1 DEF SubsTyped
    <2>2. sub' \in [Subscribed' -> SubRows]
      BY <1>1, <2>1
    <2>3. Subscribed' \subseteq Subs /\ IsFiniteSet(Subscribed')
      BY <1>1, FS_AddElement DEF SubsTyped
    <2> QED
      BY <1>1, <2>1, <2>2, <2>3 DEF SubsTyped
  <1>7. Chained'
    <2>1. history' \in [Subs -> Seq(HistoryRows)]
      BY <1>2, <1>3, <1>4 DEF g
    <2>2. \A t \in Subs \ {s} :
            /\ t \in Subscribed' <=> history'[t] # <<>>
            /\ history'[t] # <<>> => /\ history'[t][1].previous = None
                                     /\ history'[t][Len(history'[t])].next = sub'[t].status
            /\ \A n \in 2 .. Len(history'[t]) :
                 history'[t][n].previous = history'[t][n - 1].next
      <3> SUFFICES ASSUME NEW t \in Subs \ {s}
                   PROVE  Storied(t)'
        BY DEF Storied
      <3>1. Storied(t)
        BY DEF Chained, Storied
      <3>2. history'[t] = history[t] /\ (t \in Subscribed' <=> t \in Subscribed)
        BY <1>1, <1>3
      <3>3. t \in Subscribed => sub'[t] = sub[t]
        BY <1>1
      <3> QED
        BY <3>1, <3>2, <3>3 DEF Storied
    <2>3. /\ s \in Subscribed <=> h # <<>>
          /\ h # <<>> => h[1].previous = None /\ h[Len(h)].next = sub[s].status
          /\ \A n \in 2 .. Len(h) : h[n].previous = h[n - 1].next
      BY <1>1 DEF Chained, h
    <2>4. g[1].previous = None
      <3>1. CASE h = <<>>
        BY <1>4, <1>5, <2>3, <3>1
      <3>2. CASE h # <<>>
        BY <1>2, <1>4, <2>3, <3>2
      <3> QED
        BY <3>1, <3>2
    <2>5. g[Len(g)].next = sub'[s].status
      BY <1>1, <1>4
    <2>6. \A n \in 2 .. Len(g) : g[n].previous = g[n - 1].next
      <3> SUFFICES ASSUME NEW n \in 2 .. Len(g) PROVE g[n].previous = g[n - 1].next
        OBVIOUS
      <3>1. CASE n \in 2 .. Len(h)
        <4>1. g[n] = h[n] /\ g[n - 1] = h[n - 1]
          BY <1>4, <3>1
        <4> QED
          BY <2>3, <3>1, <4>1
      <3>2. CASE n = Len(h) + 1
        <4>1. Len(h) \in 1 .. Len(h) /\ h # <<>> /\ n - 1 = Len(h)
          BY <1>4, <3>2
        <4>2. g[n] = line /\ g[n - 1] = h[Len(h)]
          BY <1>4, <3>2, <4>1
        <4> QED
          BY <1>5, <2>3, <4>1, <4>2
      <3> QED
        BY <1>4, <3>1, <3>2
    <2>7. s \in Subscribed'
      BY <1>1
    <2> QED
      BY <1>4, <2>1, <2>2, <2>4, <2>5, <2>6, <2>7 DEF Chained, g
  <1>8. KeysOnce'
    <2>1. \A t \in Subs : \A n \in DOMAIN history[t] : history[t][n].key # line.key
      BY <1>1 DEF UsedKeys
    <2>2. \A n \in DOMAIN g : (n \in DOMAIN h /\ g[n] = h[n]) \/ (n = Len(h) + 1 /\ g[n] = line)
      BY <1>4
    <2>3. SUFFICES ASSUME NEW t \in Subs, NEW u \in Subs, NEW n \in DOMAIN history'[t],
                          NEW m \in DOMAIN history'[u],
                          history'[t][n].key = history'[u][m].key
                   PROVE  t = u /\ n = m
      BY DEF KeysOnce
    <2>4. ASSUME NEW x \in Subs, NEW i \in DOMAIN history'[x]
          PROVE  \/ i \in DOMAIN history[x] /\ history'[x][i] = history[x][i]
                 \/ x = s /\ i = Len(h) + 1 /\ history'[x][i] = line
      BY <1>3, <2>2, <2>4 DEF g, h
    <2>5. \/ n \in DOMAIN history[t] /\ history'[t][n] = history[t][n]
          \/ t = s /\ n = Len(h) + 1 /\ history'[t][n] = line
      BY <2>4
    <2>6. \/ m \in DOMAIN history[u] /\ history'[u][m] = history[u][m]
          \/ u = s /\ m = Len(h) + 1 /\ history'[u][m] = line
      BY <2>4
    <2> QED
      BY <2>1, <2>3, <2>5, <2>6 DEF KeysOnce
  <1>9. OneCurrent'
    <2>1. IsCurrent(s)' => \A o \in Subscribed \ {s} : sub[o].cpo = record.cpo => ~IsCurrent(o)
      BY <1>1 DEF Saved, OnlyCurrent, Of, IsCurrent
    <2>2. \A o \in Subscribed \ {s} : (IsCurrent(o)' <=> IsCurrent(o)) /\ sub'[o].cpo = sub[o].cpo
      BY <1>1 DEF IsCurrent
    <2> QED
      BY <1>1, <2>1, <2>2 DEF OneCurrent
  <1> QED
    BY <1>6, <1>7, <1>8, <1>9

\* A row, and a row with another status, another end, another version.
LEMMA RowParts ==
  ASSUME NEW row \in SubRows
  PROVE  /\ row.cpo \in Cpos /\ row.status \in Statuses /\ row.ends \in Ends
         /\ row.version \in Nat
         /\ row = [cpo |-> row.cpo, status |-> row.status, ends |-> row.ends,
                   version |-> row.version]
  BY Zenon DEF SubRows

LEMMA RowType ==
  ASSUME NEW row \in SubRows, NEW status \in Statuses, NEW ends \in Ends, NEW version \in Nat
  PROVE  [cpo |-> row.cpo, status |-> status, ends |-> ends, version |-> version] \in SubRows
  <1>1. row.cpo \in Cpos
    BY RowParts
  <1> QED
    BY <1>1, Zenon DEF SubRows

LEMMA RowRenewed ==
  ASSUME NEW row \in SubRows, NEW status, NEW ends
  PROVE  [row EXCEPT !.status = status, !.ends = ends] =
           [cpo |-> row.cpo, status |-> status, ends |-> ends, version |-> row.version]
  <1>1. PICK c, t, e, v : row = [cpo |-> c, status |-> t, ends |-> e, version |-> v]
    BY RowParts
  <1>2. row.cpo = c /\ row.version = v
    BY <1>1
  <1>3. [row EXCEPT !.status = status, !.ends = ends] =
          [[row EXCEPT !.status = status] EXCEPT !.ends = ends]
    BY <1>1
  <1>4. [row EXCEPT !.status = status] = [cpo |-> c, status |-> status, ends |-> e, version |-> v]
    BY <1>1
  <1>5. [[cpo |-> c, status |-> status, ends |-> e, version |-> v] EXCEPT !.ends = ends] =
          [cpo |-> c, status |-> status, ends |-> ends, version |-> v]
    OBVIOUS
  <1> QED
    BY <1>2, <1>3, <1>4, <1>5, Zenon

\* What a command makes of the row it read is a row; one that reactivates what
\* has expired gives it a period from the time of the command.
LEMMA ChangesType ==
  ASSUME NEW q, q.record \in SubRows, q.record.version \in DOMAIN plan.versions,
         DOMAIN plan.versions \subseteq Nat,
         q.at \in 0 .. MaxTime, q.start \in {q.at, q.at - Period},
         q.op \in AllOperations, q.op # "ISSUE", q.record.status \in SelectedStatuses(q.op),
         NEW record \in Changes(q)
  PROVE  /\ record \in SubRows /\ record.version \in DOMAIN plan.versions
         /\ q.record.status = "EXPIRED" => record.ends = q.at + Period
  <1>1. PICK row : row = q.record /\ row \in SubRows
    OBVIOUS
  <1>2. PICK from \in Ends : from = row.ends
    BY <1>1, RowParts
  <1>3. /\ row = [cpo |-> row.cpo, status |-> row.status, ends |-> from, version |-> row.version]
        /\ row.status \in Statuses /\ row.version \in Nat
    BY <1>1, <1>2, RowParts
  <1>4. q.at + Period \in Ends /\ q.start + Period \in Ends
    BY SubConstants DEF Ends
  <1>5. \A status \in Statuses, ends \in Ends, version \in Nat :
          [cpo |-> row.cpo, status |-> status, ends |-> ends, version |-> version] \in SubRows
    BY <1>1, RowType
  <1>6. {"ACTIVE", "PAUSED", "PAST_DUE", "EXPIRED", "CANCELLED"} \subseteq Statuses
    BY DEF Statuses, CurrentStatuses
  <1>7. CASE q.op = "RENEW"
    <2>1. record = Renewed(row, q)
      BY <1>1, <1>7 DEF Changes
    <2> DEFINE status == IF row.status \in {"EXPIRED", "TRIAL"} THEN "ACTIVE" ELSE row.status
               ends == (IF row.status = "EXPIRED" THEN q.at ELSE q.start) + Period
    <2>2. record = [row EXCEPT !.status = status, !.ends = ends]
      BY <1>3, <2>1 DEF Renewed
    <2> HIDE DEF status, ends
    <2>3. record = [cpo |-> row.cpo, status |-> status, ends |-> ends, version |-> row.version]
      BY <1>1, <2>2, RowRenewed
    <2>4. /\ status \in Statuses /\ ends \in Ends
          /\ row.status = "EXPIRED" => ends = q.at + Period
      BY <1>3, <1>4, <1>6 DEF status, ends
    <2>5. record \in SubRows /\ record.version = row.version /\ record.ends = ends
      BY <1>3, <1>5, <2>3, <2>4
    <2> QED
      BY <1>1, <2>4, <2>5
  <1>8. CASE q.op = "CHANGE_PLAN"
    <2>1. PICK v \in PublishedVersions :
            record = [row EXCEPT !.version = v, !.ends = q.at + Period]
      BY <1>1, <1>8 DEF Changes
    <2>2. PICK ends \in Ends : ends = q.at + Period
      BY <1>4
    <2>3. record = [cpo |-> row.cpo, status |-> row.status, ends |-> ends, version |-> v]
      BY <1>3, <2>1, <2>2
    <2>4. v \in DOMAIN plan.versions /\ v \in Nat
      BY DEF PublishedVersions
    <2>5. record \in SubRows /\ record.version = v /\ record.ends = ends
      BY <1>3, <1>5, <2>3, <2>4
    <2> QED
      BY <1>1, <2>2, <2>4, <2>5
  <1>9. CASE q.op \notin {"RENEW", "CHANGE_PLAN"}
    <2>1. PICK status \in Statuses : record = [row EXCEPT !.status = status]
      <3>1. CASE q.op = "ACTIVATE"
        BY <1>1, <1>6, <3>1 DEF Changes
      <3>2. CASE q.op = "PAUSE"
        BY <1>1, <1>6, <3>2 DEF Changes
      <3>3. CASE q.op = "RESUME"
        BY <1>1, <1>6, <3>3 DEF Changes
      <3>4. CASE q.op = "MARK_PAST_DUE"
        BY <1>1, <1>6, <3>4 DEF Changes
      <3>5. CASE q.op = "EXPIRE"
        BY <1>1, <1>6, <3>5 DEF Changes
      <3>6. CASE q.op = "CANCEL"
        BY <1>1, <1>6, <3>6 DEF Changes
      <3> QED
        BY <1>9, <3>1, <3>2, <3>3, <3>4, <3>5, <3>6 DEF AllOperations
    <2>2. record = [cpo |-> row.cpo, status |-> status, ends |-> from, version |-> row.version]
      BY <1>3, <2>1
    <2>3. record \in SubRows /\ record.version = row.version
      BY <1>3, <1>5, <2>2
    <2>4. row.status # "EXPIRED"
      BY <1>1, <1>9 DEF SelectedStatuses, CurrentStatuses
    <2> QED
      BY <1>1, <2>3, <2>4
  <1> QED
    BY <1>7, <1>8, <1>9

LEMMA CommitIssueKeeps ==
  ASSUME SubInv, NEW r \in Requests, NEW s \in Subs, CommitIssue(r, s)
  PROVE  /\ SubInv' /\ plan' = plan
         /\ \A o \in Subscribed : sub'[o] = sub[o]
  <1> USE DEF SubInv
  <1> DEFINE q == request[r]
             record == [cpo |-> q.cpo, ends |-> q.start + Period, version |-> q.version,
                        status |-> IF plan.versions[q.version].trial THEN "TRIAL" ELSE "ACTIVE"]
             line == [key |-> q.key, previous |-> None, next |-> record.status]
  <1>1. /\ q.step = "read" /\ q.op = "ISSUE" /\ s \in Subs \ Subscribed /\ OnlyCurrent(s, record)
        /\ sub' = [o \in Subscribed \cup {s} |-> IF o = s THEN record ELSE sub[o]]
        /\ q.key \notin UsedKeys
        /\ history' = [history EXCEPT ![s] = Append(@, line)]
        /\ request' = [request EXCEPT ![r] = Free]
        /\ UNCHANGED <<now, plan, notices, mailed, pass>>
    BY DEF CommitIssue, RecordTransition
  <1>2. Running(r)
    BY <1>1 DEF Requesting, Free
  <1>3. /\ q.cpo \in Cpos /\ q.key \in Keys /\ q.version \in DOMAIN plan.versions
        /\ q.version \in Nat /\ q.start + Period \in Ends
    <2>1. DOMAIN plan.versions \subseteq Nat
      BY DEF PlanStands
    <2> QED
      BY <1>1, <1>2, <2>1, SubConstants DEF Running, Ends
  <1>4. record.status \in Statuses
    BY DEF Statuses, CurrentStatuses
  <1>5. /\ record \in SubRows /\ record.version \in DOMAIN plan.versions
        /\ record.version = q.version
    <2>1. PICK c \in Cpos, e \in Ends, v \in Nat, t \in Statuses :
            record = [cpo |-> c, ends |-> e, version |-> v, status |-> t]
      BY <1>3, <1>4
    <2> HIDE DEF record
    <2>2. record \in SubRows
      BY <2>1, Zenon DEF SubRows
    <2> QED
      BY <1>3, <2>2 DEF record
  <1>6. line \in HistoryRows /\ line.key = q.key /\ line.previous = None
        /\ line.next = record.status
    BY <1>3, <1>4 DEF HistoryRows
  <1> HIDE DEF record, line
  <1>7. /\ Subscribed' = Subscribed \cup {s} /\ sub' = [o \in Subscribed' |-> sub'[o]]
        /\ sub'[s] = record /\ \A o \in Subscribed \ {s} : sub'[o] = sub[o]
        /\ \A o \in Subscribed : sub'[o] = sub[o]
    BY <1>1 DEF Subscribed
  <1>8. Saved(s, record, line)
    BY <1>1, <1>3, <1>5, <1>6, <1>7 DEF Saved
  <1>9. RowsHold'
    BY <1>8, RowSaved DEF RowsHold
  <1>10. /\ request' = [p \in Requests |-> request'[p]] /\ Requesting' /\ OneReader'
    <2>1. \A p \in Requests \ {r} : Reading(p) => request[p].sub \in Subscribed
      BY DEF Requesting, Running, Reading, Free
    <2> QED
      BY <1>1, <1>7, <2>1, RequestFreed
  <1>11. Noticed' /\ Clocked' /\ PlanStands'
    BY <1>1, NoticesKept DEF Clocked, PlanStands, Drafts
  <1> QED
    BY <1>1, <1>7, <1>9, <1>10, <1>11 DEF RowsHold

LEMMA CommitChangeKeeps ==
  ASSUME SubInv, NEW r \in Requests, NEW record \in Changes(request[r]), CommitChange(r, record)
  PROVE  /\ SubInv' /\ plan' = plan /\ now' = now
         /\ \A o \in Subscribed : sub'[o] = sub[o] \/ sub[o].status # "EXPIRED"
                              \/ sub'[o].ends > now
  <1> USE DEF SubInv
  <1> DEFINE q == request[r]
             line == [key |-> q.key, previous |-> q.record.status, next |-> record.status]
  <1>1. /\ q.step = "read" /\ q.op # "ISSUE" /\ OnlyCurrent(q.sub, record)
        /\ sub' = [sub EXCEPT ![q.sub] = record]
        /\ q.key \notin UsedKeys
        /\ history' = [history EXCEPT ![q.sub] = Append(@, line)]
        /\ request' = [request EXCEPT ![r] = Free]
        /\ UNCHANGED <<now, plan, notices, mailed, pass>>
    BY DEF CommitChange, RecordTransition
  <1>2. Running(r) /\ Reading(r)
    BY <1>1 DEF Requesting, Free, Reading
  <1>3. /\ q.op \in AllOperations /\ q.key \in Keys /\ q.at \in 0 .. MaxTime
        /\ now <= q.at + 1 /\ q.start \in {q.at, q.at - Period} /\ q.sub \in Subscribed
        /\ q.record = sub[q.sub] /\ q.record.status \in SelectedStatuses(q.op)
    BY <1>1, <1>2 DEF Running
  <1>4. /\ q.record \in SubRows /\ q.record.version \in DOMAIN plan.versions /\ q.sub \in Subs
        /\ DOMAIN plan.versions \subseteq Nat
    BY <1>3 DEF SubsTyped, PlanStands
  <1>5. /\ record \in SubRows /\ record.version \in DOMAIN plan.versions
        /\ q.record.status = "EXPIRED" => record.ends = q.at + Period
    BY <1>1, <1>3, <1>4, ChangesType
  <1>6. record.status \in Statuses /\ q.record.status \in Statuses
    BY <1>4, <1>5, Zenon DEF SubRows
  <1>7. /\ line \in HistoryRows /\ line.key = q.key /\ line.previous = q.record.status
        /\ line.next = record.status
    BY <1>3, <1>6 DEF HistoryRows
  <1> HIDE DEF line
  <1>8. sub = [o \in Subscribed |-> sub[o]]
    BY DEF SubsTyped
  <1>9. /\ Subscribed' = Subscribed /\ Subscribed' = Subscribed \cup {q.sub}
        /\ sub' = [o \in Subscribed' |-> sub'[o]]
        /\ sub'[q.sub] = record /\ \A o \in Subscribed \ {q.sub} : sub'[o] = sub[o]
    BY <1>1, <1>3, <1>8 DEF Subscribed
  <1>10. Saved(q.sub, record, line)
    BY <1>1, <1>3, <1>4, <1>5, <1>7, <1>9 DEF Saved
  <1>11. RowsHold'
    BY <1>10, RowSaved DEF RowsHold
  <1>12. /\ request' = [p \in Requests |-> request'[p]] /\ Requesting' /\ OneReader'
    <2>1. \A p \in Requests \ {r} : Reading(p) => /\ request[p].sub \in Subscribed
                                                  /\ request[p].sub # q.sub
      BY <1>2 DEF Requesting, Running, Reading, Free, OneReader
    <2>2. \A p \in Requests \ {r} : Reading(p) => sub'[request[p].sub] = sub[request[p].sub]
      BY <1>9, <2>1
    <2> QED
      BY <1>1, <1>9, <2>2, RequestFreed
  <1>13. Noticed' /\ Clocked' /\ PlanStands'
    BY <1>1, NoticesKept DEF Clocked, PlanStands, Drafts
  <1>14. q.record.status = "EXPIRED" => record.ends > now
    BY <1>3, <1>5, SubConstants DEF Clocked
  <1> QED
    BY <1>1, <1>3, <1>9, <1>11, <1>12, <1>13, <1>14 DEF RowsHold

-----------------------------------------------------------------------------
(* The lifecycle worker. *)

PassType == [at : 0 .. MaxTime, todo : Seq(Subs)]
WorkerStep == UNCHANGED <<now, plan, sub, history, request>>

\* The worker leaves the subscriptions as they are.
LEMMA WorkerStepKeeps ==
  ASSUME SubInv, WorkerStep, Noticed', pass' \in [Instances -> PassType]
  PROVE  SubInv'
  <1> USE DEF SubInv, WorkerStep, PassType
  <1>1. RowsHold'
    BY SubsKept DEF RowsHold, SubsStay
  <1>2. Requesting' /\ OneReader'
    BY RequestsKept
  <1>3. PlanStands' /\ Clocked'
    BY DEF PlanStands, Drafts, Clocked
  <1> QED
    BY <1>1, <1>2, <1>3 DEF RowsHold

LEMMA PassSet ==
  ASSUME pass \in [Instances -> PassType], NEW i \in Instances, NEW p \in PassType,
         pass' = [pass EXCEPT ![i] = p]
  PROVE  pass' \in [Instances -> PassType]
  OBVIOUS

\* What remains of a pass.
LEMMA PassLeft ==
  ASSUME NEW t, NEW x, NEW y
  PROVE  [[at |-> t, todo |-> x] EXCEPT !.todo = y] = [at |-> t, todo |-> y]
  OBVIOUS

LEMMA PassGoesOn ==
  ASSUME pass \in [Instances -> PassType], NEW i \in Instances, pass[i].todo # <<>>,
         pass' = [pass EXCEPT ![i].todo = Tail(@)]
  PROVE  pass' \in [Instances -> PassType] /\ Head(pass[i].todo) \in Subs
  <1>1. PICK t \in 0 .. MaxTime, todo \in Seq(Subs) : pass[i] = [at |-> t, todo |-> todo]
    BY Zenon DEF PassType
  <1>2. todo # <<>> /\ pass[i].todo = todo
    BY <1>1
  <1>3. Tail(todo) \in Seq(Subs) /\ Head(todo) \in Subs
    BY <1>2
  <1>4. pass' = [pass EXCEPT ![i] = [at |-> t, todo |-> Tail(todo)]]
    <2>1. [[at |-> t, todo |-> todo] EXCEPT !.todo = Tail(todo)] = [at |-> t, todo |-> Tail(todo)]
      BY PassLeft
    <2>2. pass' = [pass EXCEPT ![i] = [pass[i] EXCEPT !.todo = Tail(pass[i].todo)]]
      OBVIOUS
    <2> QED
      BY <1>1, <1>2, <2>1, <2>2, Zenon
  <1>5. [at |-> t, todo |-> Tail(todo)] \in PassType
    BY <1>3 DEF PassType
  <1> QED
    BY <1>2, <1>3, <1>4, <1>5, PassSet

LEMMA StartPassKeeps ==
  ASSUME SubInv, NEW i \in Instances, StartPass(i)
  PROVE  SubInv' /\ WorkerStep
  <1> USE DEF SubInv
  <1> DEFINE due == {s \in Subscribed : /\ sub[s].status \in CurrentStatuses
                                        /\ sub[s].ends <= now + Horizon}
  <1>1. PICK order \in SetToSeqs(due) : pass' = [pass EXCEPT ![i] = [at |-> now, todo |-> order]]
    BY DEF StartPass
  <1>2. WorkerStep /\ UNCHANGED <<notices, mailed>>
    BY DEF StartPass, WorkerStep
  <1>3. order \in Seq(Subs)
    <2>1. order \in [1 .. Cardinality(due) -> due] /\ due \subseteq Subs
      BY DEF SetToSeqs, SubsTyped
    <2>2. IsFiniteSet(due)
      <3>1. due \subseteq Subscribed /\ IsFiniteSet(Subscribed)
        BY DEF SubsTyped
      <3> HIDE DEF due
      <3> QED
        BY <3>1, FS_Subset
    <2> HIDE DEF due
    <2>3. Cardinality(due) \in Nat
      BY <2>2, FS_CardinalityType
    <2>4. order \in [1 .. Cardinality(due) -> Subs]
      BY <2>1
    <2> QED
      BY <2>3, <2>4, SeqDef
  <1>4. [at |-> now, todo |-> order] \in PassType
    BY <1>3 DEF PassType, Clocked
  <1>5. pass' \in [Instances -> PassType]
    BY <1>1, <1>4, PassSet DEF PassType
  <1>6. Noticed'
    BY <1>2, NoticesKept
  <1> QED
    BY <1>2, <1>5, <1>6, WorkerStepKeeps

LEMMA WarnKeeps ==
  ASSUME SubInv, NEW i \in Instances, Warn(i)
  PROVE  SubInv' /\ WorkerStep
  <1> USE DEF SubInv
  <1> DEFINE s == Head(pass[i].todo)
  <1>1. PICK kind \in WarningsDue(s, pass[i].at) :
          /\ <<s, kind>> \notin notices
          /\ notices' = notices \cup {<<s, kind>>}
          /\ mailed' = [mailed EXCEPT ![s][kind] = @ + 1]
    BY DEF Warn
  <1>2. WorkerStep /\ pass[i].todo # <<>> /\ pass' = [pass EXCEPT ![i].todo = Tail(@)]
    BY DEF Warn, WorkerStep
  <1>3. pass' \in [Instances -> PassType] /\ s \in Subs
    BY <1>2, PassGoesOn DEF PassType
  <1>4. kind \in DOMAIN Warnings
    BY DEF WarningsDue
  <1>5. Noticed'
    <2> HIDE DEF s
    <2>1. mailed \in [Subs -> [DOMAIN Warnings -> {0, 1}]]
      BY DEF Noticed
    <2>2. mailed[s][kind] = 0
      BY <1>1, <1>3, <1>4 DEF Noticed, OneNotice
    <2>3. mailed' = [mailed EXCEPT ![s] = [mailed[s] EXCEPT ![kind] = 1]]
      BY <1>1, <2>2
    <2>4. /\ mailed' \in [Subs -> [DOMAIN Warnings -> {0, 1}]]
          /\ \A t \in Subs, k \in DOMAIN Warnings :
               mailed'[t][k] = IF t = s /\ k = kind THEN 1 ELSE mailed[t][k]
      BY <1>3, <1>4, <2>1, <2>3
    <2>5. \A t, k : <<t, k>> \in notices' <=> <<t, k>> \in notices \/ (t = s /\ k = kind)
      BY <1>1
    <2>6. notices' \subseteq Subs \X DOMAIN Warnings
      BY <1>1, <1>3, <1>4 DEF Noticed
    <2> QED
      BY <2>4, <2>5, <2>6 DEF Noticed, OneNotice
  <1> QED
    BY <1>2, <1>3, <1>5, WorkerStepKeeps

LEMMA PassKeeps ==
  ASSUME SubInv, NEW i \in Instances, Pass(i) \/ ExpiryFails(i)
  PROVE  SubInv' /\ WorkerStep
  <1> USE DEF SubInv
  <1>1. WorkerStep /\ UNCHANGED <<notices, mailed>> /\ pass[i].todo # <<>>
    BY DEF Pass, ExpiryFails, WorkerStep
  <1>2. pass' \in [Instances -> PassType]
    <2>1. CASE Pass(i)
      BY <2>1, PassGoesOn DEF Pass, PassType
    <2>2. CASE ExpiryFails(i)
      <3>1. pass' = [pass EXCEPT ![i] = NoPass]
        BY <2>2 DEF ExpiryFails
      <3>2. NoPass \in PassType
        BY SubConstants DEF NoPass, PassType
      <3> QED
        BY <3>1, <3>2, PassSet DEF PassType
    <2> QED
      BY <2>1, <2>2
  <1>3. Noticed'
    BY <1>1, NoticesKept
  <1> QED
    BY <1>1, <1>2, <1>3, WorkerStepKeeps

-----------------------------------------------------------------------------
(* Every step. *)

\* What ReactivationOpens says of one step.
Opens ==
  /\ \A s \in Subscribed :
       (sub[s].status = "EXPIRED" /\ sub'[s].status \in CurrentStatuses)
          => Admits(sub[s].cpo, now)'
  /\ PlanGoesOn

\* Nothing is reactivated where the subscriptions stay.
LEMMA QuietStep ==
  ASSUME sub' = sub, PlanGoesOn \/ plan' = plan
  PROVE  Opens
  BY DEF Opens, PlanGoesOn, Subscribed, CurrentStatuses

LEMMA ChangeOpens ==
  ASSUME SubInv, NEW r \in Requests, NEW record \in Changes(request[r]), CommitChange(r, record)
  PROVE  Opens
  <1>1. /\ SubInv' /\ plan' = plan /\ now' = now
        /\ \A o \in Subscribed : sub'[o] = sub[o] \/ sub[o].status # "EXPIRED"
                             \/ sub'[o].ends > now
    BY CommitChangeKeeps
  <1>2. SUFFICES ASSUME NEW s \in Subscribed, sub[s].status = "EXPIRED",
                        sub'[s].status \in CurrentStatuses
                 PROVE  Admits(sub[s].cpo, now)'
    BY <1>1 DEF Opens, PlanGoesOn
  <1>3. sub'[s].ends > now'
    BY <1>1, <1>2 DEF CurrentStatuses
  <1>4. s \in Subscribed'
    BY DEF CommitChange, Subscribed
  <1>5. s \in Of(sub[s].cpo)' /\ IsCurrent(s)'
    BY <1>2, <1>4 DEF Of, IsCurrent
  <1>6. \A o \in Of(sub[s].cpo)' : IsCurrent(o)' => o = s
    BY <1>1, <1>4, <1>5 DEF SubInv, OneCurrent, Of
  <1>7. sub'[s].ends \in Int /\ now' \in Int
    <2>1. sub'[s] \in SubRows'
      BY <1>1, <1>4 DEF SubInv, SubsTyped
    <2>2. sub'[s].ends \in Ends
      BY <2>1, Zenon DEF SubRows
    <2> QED
      BY <1>1, <2>2, SubConstants DEF Ends, SubInv, Clocked
  <1>8. ~Elapsed(s, now)'
    BY <1>3, <1>7 DEF Elapsed
  <1> QED
    BY <1>5, <1>6, <1>8 DEF Admits, IsCurrent

LEMMA SubStep ==
  ASSUME SubInv, SubscriptionsNext
  PROVE  SubInv' /\ Opens
  <1>1. CASE Tick
    BY <1>1, TickKeeps, QuietStep DEF Tick
  <1>2. CASE PlanMoves
    <2>1. sub' = sub
      BY <1>2 DEF PlanMoves, CreatePlan, UpdateDraft, PublishPlan, ArchivePlan
    <2> QED
      BY <1>2, <2>1, PlanStepKeeps, QuietStep
  <1>3. ASSUME NEW r \in Requests, NEW op \in Operations, NEW c \in Cpos, NEW key \in Keys,
               NEW start \in {now, now - Period}, Begin(r, op, c, key, start)
        PROVE  SubInv' /\ Opens
    BY <1>3, BeginKeeps, QuietStep DEF RequestStep
  <1>4. ASSUME NEW r \in Requests, Read(r)
        PROVE  SubInv' /\ Opens
    BY <1>4, ReadKeeps, QuietStep DEF RequestStep
  <1>5. ASSUME NEW r \in Requests, NEW v \in PublishedVersions, FindVersion(r, v)
        PROVE  SubInv' /\ Opens
    BY <1>5, FindKeeps, QuietStep DEF RequestStep
  <1>6. ASSUME NEW r \in Requests, NEW s \in Subs, CommitIssue(r, s)
        PROVE  SubInv' /\ Opens
    BY <1>6, CommitIssueKeeps DEF Opens, PlanGoesOn, CurrentStatuses
  <1>7. ASSUME NEW r \in Requests, NEW record \in Changes(request[r]), CommitChange(r, record)
        PROVE  SubInv' /\ Opens
    BY <1>7, CommitChangeKeeps, ChangeOpens
  <1>8. ASSUME NEW r \in Requests, Abandon(r)
        PROVE  SubInv' /\ Opens
    BY <1>8, AbandonKeeps, QuietStep DEF RequestStep
  <1>9. ASSUME NEW i \in Instances, Lifecycle(i)
        PROVE  SubInv' /\ Opens
    BY <1>9, StartPassKeeps, WarnKeeps, PassKeeps, QuietStep DEF Lifecycle, WorkerStep
  <1> QED
    BY <1>1, <1>2, <1>3, <1>4, <1>5, <1>6, <1>7, <1>8, <1>9 DEF SubscriptionsNext, PlanMoves

LEMMA SubStutters ==
  ASSUME SubInv, UNCHANGED subscriptionVars
  PROVE  SubInv'
  <1> USE DEF SubInv, subscriptionVars
  <1>1. RowsHold'
    BY SubsKept DEF RowsHold, SubsStay
  <1>2. Requesting' /\ OneReader'
    BY RequestsKept
  <1>3. PlanStands' /\ Clocked' /\ Noticed'
    BY NoticesKept DEF PlanStands, Drafts, Clocked
  <1> QED
    BY <1>1, <1>2, <1>3 DEF RowsHold

\* A set whose elements are all the same has one at most.
LEMMA AtMostOne ==
  ASSUME NEW S, \A x, y \in S : x = y
  PROVE  Cardinality(S) <= 1
  <1>1. CASE S = {}
    BY <1>1, FS_EmptySet
  <1>2. CASE S # {}
    <2>1. PICK x : S = {x}
      BY <1>2
    <2> QED
      BY <2>1, FS_Singleton
  <1> QED
    BY <1>1, <1>2

LEMMA SubInvShows == SubInv => HistoryTellsTheStatus
  <1> SUFFICES ASSUME SubInv PROVE HistoryTellsTheStatus
    OBVIOUS
  <1> USE DEF SubInv
  <1>1. Cardinality(Drafts) <= 1
    BY AtMostOne DEF PlanStands
  <1>2. \A v \in DOMAIN plan.versions :
          plan.versions[v] \in [status : {"DRAFT", "PUBLISHED"}, trial : BOOLEAN]
    <2>1. \A v \in DOMAIN plan.versions : plan.versions[v] \in VersionRows
      BY DEF PlanStands
    <2> QED
      BY <2>1 DEF VersionRows
  <1>3. sub \in [Subscribed -> [cpo : Cpos, status : Statuses,
                              ends : 1 - Period .. MaxTime + Period,
                              version : DOMAIN plan.versions]]
    <2> DEFINE Rows == [cpo : Cpos, status : Statuses, ends : Ends, version : DOMAIN plan.versions]
    <2>1. \A s \in Subscribed : sub[s] \in Rows
      <3> SUFFICES ASSUME NEW s \in Subscribed PROVE sub[s] \in Rows
        OBVIOUS
      <3>1. sub[s] \in SubRows /\ sub[s].version \in DOMAIN plan.versions
        BY DEF SubsTyped
      <3> QED
        BY <3>1, Zenon DEF SubRows
    <2>2. sub = [s \in Subscribed |-> sub[s]]
      BY DEF SubsTyped
    <2> HIDE DEF Rows
    <2>3. sub \in [Subscribed -> Rows]
      BY <2>1, <2>2
    <2> QED
      BY <2>3 DEF Rows, Ends
  <1>4. SubscriptionsTyped
    BY <1>1, <1>2, <1>3 DEF SubscriptionsTyped, Clocked, Noticed
  <1>5. \A c \in Cpos : Cardinality({s \in Of(c) : sub[s].status \in CurrentStatuses}) <= 1
    <2> SUFFICES ASSUME NEW c \in Cpos
                 PROVE  Cardinality({s \in Of(c) : sub[s].status \in CurrentStatuses}) <= 1
      OBVIOUS
    <2>1. \A s, t \in {s \in Of(c) : sub[s].status \in CurrentStatuses} : s = t
      BY DEF OneCurrent, IsCurrent, Of
    <2> QED
      BY <2>1, AtMostOne
  <1>6. OneNotice
    BY DEF Noticed
  <1> QED
    BY <1>4, <1>5, <1>6 DEF HistoryTellsTheStatus, Chained, KeysOnce

\* Whatever administrators, retries and lifecycle workers do, and in whatever
\* order, the history of every subscription leads from its issue to its status,
\* with every key once, and an operator has one current subscription at most.
THEOREM HistoriesTell == SubscriptionsSpec => []HistoryTellsTheStatus
  <1>1. SubscriptionsInit => SubInv
    BY SubStart
  <1>2. SubInv /\ [SubscriptionsNext]_subscriptionVars => SubInv'
    BY SubStep, SubStutters
  <1>3. SubInv => HistoryTellsTheStatus
    BY SubInvShows
  <1> QED
    BY <1>1, <1>2, <1>3, PTL DEF SubscriptionsSpec

\* A renewal that reactivates what has expired lets customers in again, and the
\* terms of a published version never change.
THEOREM RenewalsOpen == SubscriptionsSpec => ReactivationOpens
  <1>1. SubscriptionsInit => SubInv
    BY SubStart
  <1>2. SubInv /\ [SubscriptionsNext]_subscriptionVars => SubInv'
    BY SubStep, SubStutters
  <1> DEFINE Step ==
        /\ \A s \in Subscribed :
             (sub[s].status = "EXPIRED" /\ sub'[s].status \in CurrentStatuses)
                => Admits(sub[s].cpo, now)'
        /\ plan.status = "ARCHIVED" => plan'.status = "ARCHIVED"
        /\ \A v \in DOMAIN plan.versions :
             plan.versions[v].status = "PUBLISHED" => plan'.versions[v] = plan.versions[v]
  <1>3. SubInv /\ [SubscriptionsNext]_subscriptionVars => [Step]_subscriptionVars
    <2> SUFFICES ASSUME SubInv, SubscriptionsNext PROVE Step
      OBVIOUS
    <2>1. Opens
      BY SubStep
    <2> QED
      BY <2>1 DEF Opens, PlanGoesOn
  <1> QED
    BY <1>1, <1>2, <1>3, PTL DEF SubscriptionsSpec, ReactivationOpens
===============================================================================
