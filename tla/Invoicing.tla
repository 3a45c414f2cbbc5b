------------------------------ MODULE Invoicing ------------------------------
(***************************************************************************)
(* The invoice worker (invoice/service.go).  Each CMS process runs one     *)
(* loop: issue an invoice for every settled session, render and publish    *)
(* the PDF of invoices that wait for it, mail the published ones.  A CPO   *)
(* may queue a mail again, and a download checks the file.                 *)
(*                                                                         *)
(* Issuing is one transaction under row locks (session, then the number    *)
(* sequence) and is split where it takes them; every other statement       *)
(* commits by itself.  Rendering is deterministic: "pdf" stands for the    *)
(* bytes every renderer of the invoice produces, "other" for any others.   *)
(* The numbers are those of one CPO's current financial year.              *)
(***************************************************************************)
EXTENDS Integers, FiniteSets

CONSTANTS
  Sessions,      \* charging sessions, naturals in the order they ended
  Unissuable,    \* those whose records do not hydrate into a valid invoice
  Historical,    \* those settled before invoices were introduced
  Mailed,        \* those settled since then, with an e-mail address
  Workers,       \* worker loops, one per CMS process
  BatchSize,     \* the limit of each phase of a pass
  MaxAttempts,   \* maxGenerationAttempts and max_attempts (both 8 in the code)
  MaxSerial,     \* maxInvoiceSerial (999999 in the code)
  MaxFaults,     \* bound: processes that die, transactions that fail
  MaxDamage,     \* bound: files lost or altered on disk
  MaxRecoveries  \* bound: deliveries a CPO queues by hand

ASSUME InvoicingAssumption ==
  /\ Sessions \subseteq Nat
  /\ IsFiniteSet(Sessions)
  /\ IsFiniteSet(Workers)
  /\ Historical \subseteq Sessions
  /\ Mailed \cap Historical = {}
  /\ BatchSize \in Nat \ {0}
  /\ MaxAttempts \in Nat \ {0}
  /\ MaxSerial \in Nat

VARIABLES
  settled,   \* sessions that are COMPLETED and SETTLED
  next,      \* invoice_number_sequences: next_serial of the financial year
  number,    \* number[s]: the serial of the session's invoice, 0 if it has none
  invoice,   \* invoice[s]: generation_status, attempts, and "stale": the lock
             \* time of a GENERATING one is over
  file,      \* file[s]: the object at the invoice's path
  delivery,  \* delivery[s]: status, attempts, stale, likewise
  worker,    \* worker[w]: where its pass is
  bounds,    \* faults, damage and recoveries so far
  mails      \* mails[s]: deliveries queued, mails submitted, mails accepted;
             \* "spoiled" if the file was damaged after it was published,
             \* "overrun" if a claim outlived its lock time

vars == <<settled, next, number, invoice, file, delivery, worker, bounds, mails>>

Unnumbered == 0
NoSession == -1
Idle == [phase |-> "issue", batch |-> {}, left |-> 0, step |-> "start",
         session |-> NoSession, attempt |-> 0]

Init ==
  /\ settled = Historical
  /\ next = 1
  /\ number = [s \in Sessions |-> Unnumbered]
  /\ invoice = [s \in Sessions |-> [status |-> "absent", attempts |-> 0, stale |-> FALSE]]
  /\ file = [s \in Sessions |-> "none"]
  /\ delivery = [s \in Sessions |-> [status |-> "absent", attempts |-> 0, stale |-> FALSE]]
  /\ worker = [w \in Workers |-> Idle]
  /\ bounds = [faults |-> 0, damage |-> 0, recoveries |-> 0]
  /\ mails = [s \in Sessions |-> [queued |-> 0, submitted |-> 0, accepted |-> 0,
                                  spoiled |-> FALSE, overrun |-> FALSE]]

-----------------------------------------------------------------------------
(* What other components and the outside do. *)

\* A session reaches financial finality.
Settle(s) ==
  /\ s \notin settled
  /\ settled' = settled \cup {s}
  /\ UNCHANGED <<next, number, invoice, file, delivery, worker, bounds, mails>>

\* The workers that hold a claim of the session's invoice or delivery.
Claimants(s, phase) == {w \in Workers : worker[w].session = s /\ worker[w].phase = phase}

\* Time passes: a claim is older than its lock time, whether or not its worker
\* is still at it.  (The delay of a retry is not modelled: any wait is allowed.)
InvoiceStale(s) ==
  /\ invoice[s].status = "GENERATING"
  /\ ~invoice[s].stale
  /\ invoice' = [invoice EXCEPT ![s].stale = TRUE]
  /\ mails' = [mails EXCEPT ![s].overrun = @ \/ Claimants(s, "generate") # {}]
  /\ UNCHANGED <<settled, next, number, file, delivery, worker, bounds>>

DeliveryStale(s) ==
  /\ delivery[s].status = "SENDING"
  /\ ~delivery[s].stale
  /\ delivery' = [delivery EXCEPT ![s].stale = TRUE]
  /\ mails' = [mails EXCEPT ![s].overrun = @ \/ Claimants(s, "deliver") # {}]
  /\ UNCHANGED <<settled, next, number, invoice, file, worker, bounds>>

\* The object is lost or altered on disk.
Damage(s, left) ==
  /\ bounds.damage < MaxDamage
  /\ file[s] = "pdf"
  /\ bounds' = [bounds EXCEPT !.damage = @ + 1]
  /\ file' = [file EXCEPT ![s] = left]
  /\ LET published == \/ invoice[s].status = "READY"
                      \/ \E w \in Workers : /\ worker[w].session = s
                                            /\ worker[w].step = "published" IN
     mails' = [mails EXCEPT ![s].spoiled = @ \/ published]
  /\ UNCHANGED <<settled, next, number, invoice, delivery, worker>>

-----------------------------------------------------------------------------
(* Reconcile, first half: issuing. *)

\* The worker's next place in its pass.
Goes(w, step) == worker' = [worker EXCEPT ![w].step = step]

Candidates == {s \in settled : invoice[s].status = "absent"}

\* The discovery query: the oldest settled sessions without an invoice.
Discover(w) ==
  /\ worker[w].phase = "issue"
  /\ worker[w].step = "start"
  /\ worker' = [worker EXCEPT
       ![w].batch = {s \in Candidates :
                       Cardinality({t \in Candidates : t < s}) < BatchSize},
       ![w].step = "next"]
  /\ UNCHANGED <<settled, next, number, invoice, file, delivery, bounds, mails>>

LockHolder(s) == {w \in Workers : worker[w].session = s /\ worker[w].step \in {"locked", "allocated"}}
SequenceHolder == {w \in Workers : worker[w].step = "allocated"}

\* EnsureInvoice takes the session's row lock.
LockSession(w, s) ==
  /\ worker[w].phase = "issue"
  /\ worker[w].step = "next"
  /\ s \in worker[w].batch
  /\ LockHolder(s) = {}
  /\ worker' = [worker EXCEPT ![w].batch = @ \ {s}, ![w].session = s, ![w].step = "locked"]
  /\ UNCHANGED <<settled, next, number, invoice, file, delivery, bounds, mails>>

EndsIssue(w) == worker' = [worker EXCEPT ![w].session = NoSession, ![w].step = "next"]

\* Mutant: the first issuance that fails ends the batch.
NotIssuedStops(w) ==
  LET s == worker[w].session IN
  /\ worker[w].step = "locked"
  /\ invoice[s].status # "absent" \/ s \in Unissuable \/ next > MaxSerial
  /\ worker' = [worker EXCEPT ![w].session = NoSession, ![w].step = "next", ![w].batch = {}]
  /\ UNCHANGED <<settled, next, number, invoice, file, delivery, bounds, mails>>

\* The session has an invoice by now, its records do not make one, or the
\* numbers of the year are used up: nothing is written.
NotIssued(w) ==
  LET s == worker[w].session IN
  /\ worker[w].step = "locked"
  /\ invoice[s].status # "absent" \/ s \in Unissuable \/ next > MaxSerial
  /\ EndsIssue(w)
  /\ UNCHANGED <<settled, next, number, invoice, file, delivery, bounds, mails>>

\* Mutant: the sequence advances outside the transaction.
AllocateOutside(w) ==
  LET s == worker[w].session IN
  /\ worker[w].step = "locked"
  /\ invoice[s].status = "absent" /\ s \notin Unissuable /\ next <= MaxSerial
  /\ SequenceHolder = {}
  /\ number' = [number EXCEPT ![s] = next]
  /\ next' = next + 1
  /\ Goes(w, "allocated")
  /\ UNCHANGED <<settled, invoice, file, delivery, bounds, mails>>

\* allocateSerial: the upsert keeps the sequence row locked until the end of
\* the transaction.
Allocate(w) ==
  LET s == worker[w].session IN
  /\ worker[w].step = "locked"
  /\ invoice[s].status = "absent" /\ s \notin Unissuable /\ next <= MaxSerial
  /\ SequenceHolder = {}
  /\ number' = [number EXCEPT ![s] = next]
  /\ Goes(w, "allocated")
  /\ UNCHANGED <<settled, next, invoice, file, delivery, bounds, mails>>

\* The transaction commits: number, invoice, and the delivery intent.
Issue(w) ==
  LET s == worker[w].session IN
  /\ worker[w].step = "allocated"
  /\ next' = number[s] + 1
  /\ invoice' = [invoice EXCEPT ![s] = [status |-> "PENDING", attempts |-> 0, stale |-> FALSE]]
  /\ IF s \in Mailed
       THEN /\ delivery' = [delivery EXCEPT ![s] = [status |-> "PENDING", attempts |-> 0, stale |-> FALSE]]
            /\ mails' = [mails EXCEPT ![s].queued = @ + 1]
       ELSE UNCHANGED <<delivery, mails>>
  /\ EndsIssue(w)
  /\ UNCHANGED <<settled, number, file, bounds>>

\* The number an unfinished transaction of this worker leaves behind: none.
RolledBack(w) ==
  IF worker[w].step = "allocated"
    THEN [number EXCEPT ![worker[w].session] = Unnumbered] ELSE number

\* A statement of the transaction fails: it is rolled back, the next one is tried.
IssueFails(w) ==
  /\ bounds.faults < MaxFaults
  /\ worker[w].step \in {"locked", "allocated"}
  /\ bounds' = [bounds EXCEPT !.faults = @ + 1]
  /\ number' = RolledBack(w)
  /\ EndsIssue(w)
  /\ UNCHANGED <<settled, next, invoice, file, delivery, mails>>

\* The worker goes on to the next phase of its pass.
Enters(w, phase) ==
  worker' = [worker EXCEPT
    ![w] = IF phase = "issue" THEN Idle
           ELSE [Idle EXCEPT !.phase = phase, !.left = BatchSize, !.step = "next"]]

BatchDone(w) ==
  /\ worker[w].phase = "issue"
  /\ worker[w].step = "next"
  /\ worker[w].batch = {}
  /\ Enters(w, "generate")
  /\ UNCHANGED <<settled, next, number, invoice, file, delivery, bounds, mails>>

-----------------------------------------------------------------------------
(* Reconcile, second half: generation. *)

\* The sweep before a claim: a lost claim that was the last one has failed.
Swept ==
  [s \in Sessions |->
     IF invoice[s].status = "GENERATING" /\ invoice[s].stale /\ invoice[s].attempts >= MaxAttempts
       THEN [invoice[s] EXCEPT !.status = "FAILED", !.stale = FALSE]
       ELSE invoice[s]]

Generatable(s) ==
  /\ invoice[s].status = "PENDING" \/ (invoice[s].status = "GENERATING" /\ invoice[s].stale)
  /\ invoice[s].attempts < MaxAttempts

\* claimGeneration: an invoice that waits, or whose claim is stale.
ClaimGeneration(w, s) ==
  /\ worker[w].phase = "generate" /\ worker[w].step = "next" /\ worker[w].left > 0
  /\ Generatable(s)
  /\ invoice' = [Swept EXCEPT ![s] = [status |-> "GENERATING", attempts |-> @.attempts + 1,
                                      stale |-> FALSE]]
  /\ worker' = [worker EXCEPT ![w].left = @ - 1, ![w].step = "claimed", ![w].session = s,
                              ![w].attempt = invoice[s].attempts + 1]
  /\ UNCHANGED <<settled, next, number, file, delivery, bounds, mails>>

GenerationDone(w) ==
  /\ worker[w].phase = "generate" /\ worker[w].step = "next"
  /\ \/ worker[w].left = 0 /\ UNCHANGED invoice
     \/ /\ worker[w].left > 0
        /\ \A s \in Sessions : ~Generatable(s)
        /\ invoice' = Swept
  /\ Enters(w, "deliver")
  /\ UNCHANGED <<settled, next, number, file, delivery, bounds, mails>>

\* The snapshot does not decode, its logo cannot be read, the PDF cannot be
\* rendered or written.
GenerateFails(w) ==
  /\ worker[w].step = "claimed"
  /\ Goes(w, "failed")
  /\ UNCHANGED <<settled, next, number, invoice, file, delivery, bounds, mails>>

\* publish reads the object at the invoice's path: equal bytes are adopted,
\* different ones are an error.
LookForObject(w) ==
  /\ worker[w].step = "claimed"
  /\ Goes(w, CASE file[worker[w].session] = "none" -> "unpublished"
               [] file[worker[w].session] = "pdf" -> "published"
               [] OTHER -> "failed")
  /\ UNCHANGED <<settled, next, number, invoice, file, delivery, bounds, mails>>

\* publish renames its file into place.
Publish(w) ==
  /\ worker[w].step = "unpublished"
  /\ file' = [file EXCEPT ![worker[w].session] = "pdf"]
  /\ Goes(w, "published")
  /\ UNCHANGED <<settled, next, number, invoice, delivery, bounds, mails>>

\* A claim is over: on to the next one of the phase.
EndsClaim(w) ==
  worker' = [worker EXCEPT ![w].step = "next", ![w].session = NoSession, ![w].attempt = 0]

\* generate records the published artifact if the invoice is still GENERATING.
MarkReady(w) ==
  LET s == worker[w].session IN
  /\ worker[w].step = "published"
  /\ invoice' = IF invoice[s].status = "GENERATING"
                  THEN [invoice EXCEPT ![s].status = "READY", ![s].stale = FALSE] ELSE invoice
  /\ EndsClaim(w)
  /\ UNCHANGED <<settled, next, number, file, delivery, bounds, mails>>

\* failGeneration: a retry after a delay, or FAILED, by the attempts of the
\* claimed copy.
FailGeneration(w) ==
  LET s == worker[w].session IN
  /\ worker[w].step = "failed"
  /\ invoice' = IF invoice[s].status = "GENERATING"
                  THEN [invoice EXCEPT
                          ![s].status = IF worker[w].attempt >= MaxAttempts THEN "FAILED" ELSE "PENDING",
                          ![s].stale = FALSE]
                  ELSE invoice
  /\ EndsClaim(w)
  /\ UNCHANGED <<settled, next, number, file, delivery, bounds, mails>>

-----------------------------------------------------------------------------
(* DeliverPending. *)

Deliverable(s) ==
  \/ delivery[s].status = "PENDING" /\ delivery[s].attempts < MaxAttempts
  \/ delivery[s].status = "SENDING" /\ delivery[s].stale

\* claimDelivery: a delivery that waits becomes SENDING; a stale claim becomes
\* AMBIGUOUS and there is nothing more to do for it.
ClaimDelivery(w, s) ==
  /\ worker[w].phase = "deliver" /\ worker[w].step = "next" /\ worker[w].left > 0
  /\ Deliverable(s)
  /\ \/ /\ delivery[s].status = "SENDING"
        /\ delivery' = [delivery EXCEPT ![s].status = "AMBIGUOUS", ![s].stale = FALSE]
        /\ worker' = [worker EXCEPT ![w].left = @ - 1]
     \/ /\ delivery[s].status = "PENDING"
        /\ delivery' = [delivery EXCEPT ![s] = [status |-> "SENDING", stale |-> FALSE,
                                                attempts |-> @.attempts + 1]]
        /\ worker' = [worker EXCEPT ![w].left = @ - 1, ![w].step = "mail", ![w].session = s,
                                    ![w].attempt = delivery[s].attempts + 1]
  /\ UNCHANGED <<settled, next, number, invoice, file, bounds, mails>>

DeliveryDone(w) ==
  /\ worker[w].phase = "deliver" /\ worker[w].step = "next"
  /\ worker[w].left = 0 \/ \A s \in Sessions : ~Deliverable(s)
  /\ Enters(w, "issue")
  /\ UNCHANGED <<settled, next, number, invoice, file, delivery, bounds, mails>>

\* The integrity check found a READY invoice's file wrong.
Corrupted(s) ==
  IF invoice[s].status = "READY" THEN [invoice EXCEPT ![s].status = "CORRUPT"] ELSE invoice

\* openInternal: an invoice that failed, or whose file does not match, ends
\* the delivery; one that is not READY yet is a failure before SMTP, and so is
\* a message that cannot be prepared.
OpenArtifact(w) ==
  LET s == worker[w].session
      broken == \/ invoice[s].status \in {"CORRUPT", "FAILED"}
                \/ invoice[s].status = "READY" /\ file[s] # "pdf" IN
  /\ worker[w].step = "mail"
  /\ invoice' = IF broken THEN Corrupted(s) ELSE invoice
  /\ IF broken THEN Goes(w, "terminal")
     ELSE Goes(w, "before") \/ (invoice[s].status = "READY" /\ Goes(w, "opened"))
  /\ UNCHANGED <<settled, next, number, file, delivery, bounds, mails>>

\* The prepared send: the server takes the mail or not, and the worker hears
\* of success or of an error, a timeout after acceptance included.
Submit(w, taken, success) ==
  /\ worker[w].step = "opened"
  /\ success => taken
  /\ Goes(w, IF success THEN "sent" ELSE "unsure")
  /\ mails' = [mails EXCEPT ![worker[w].session].submitted = @ + 1,
                            ![worker[w].session].accepted = IF taken THEN @ + 1 ELSE @]
  /\ UNCHANGED <<settled, next, number, invoice, file, delivery, bounds>>

\* Mutant: an error of the send is taken for a failure before it.
OutcomeRetried(w) ==
  CASE worker[w].step = "sent" -> "SENT"
    [] worker[w].step = "terminal" -> "FAILED"
    [] worker[w].step \in {"unsure", "before"} /\ worker[w].attempt >= MaxAttempts -> "FAILED"
    [] OTHER -> "PENDING"

\* What the end of a claim makes of the delivery.
Outcome(w) ==
  CASE worker[w].step = "sent" -> "SENT"
    [] worker[w].step = "unsure" -> "AMBIGUOUS"
    [] worker[w].step = "terminal" -> "FAILED"
    [] worker[w].step = "before" /\ worker[w].attempt >= MaxAttempts -> "FAILED"
    [] OTHER -> "PENDING"

\* The update that records it, if the delivery is SENDING, by whomever.
RecordDelivery(w) ==
  LET s == worker[w].session IN
  /\ worker[w].step \in {"sent", "unsure", "terminal", "before"}
  /\ delivery' = IF delivery[s].status = "SENDING"
                   THEN [delivery EXCEPT ![s].status = Outcome(w), ![s].stale = FALSE]
                   ELSE delivery
  /\ EndsClaim(w)
  /\ UNCHANGED <<settled, next, number, invoice, file, bounds, mails>>

-----------------------------------------------------------------------------
\* The process dies at any point and is started again.
Crash(w) ==
  /\ bounds.faults < MaxFaults
  /\ worker[w] # Idle
  /\ bounds' = [bounds EXCEPT !.faults = @ + 1]
  /\ number' = RolledBack(w)
  /\ worker' = [worker EXCEPT ![w] = Idle]
  /\ UNCHANGED <<settled, next, invoice, file, delivery, mails>>

\* open, for a download or before a recovery, finds the file wrong.
Download(s) ==
  /\ invoice[s].status = "READY"
  /\ file[s] # "pdf"
  /\ invoice' = Corrupted(s)
  /\ UNCHANGED <<settled, next, number, file, delivery, worker, bounds, mails>>

\* A delivery in flight or still queued is not queued again.
Recoverable(s) == delivery[s].status \in {"absent", "SENT", "FAILED", "AMBIGUOUS"}

\* RecoverDelivery: the artifact is checked, and one new delivery is queued.
RecoverDelivery(s) ==
  /\ bounds.recoveries < MaxRecoveries
  /\ invoice[s].status = "READY"
  /\ file[s] = "pdf"
  /\ Recoverable(s)
  /\ bounds' = [bounds EXCEPT !.recoveries = @ + 1]
  /\ delivery' = [delivery EXCEPT ![s] = [status |-> "PENDING", attempts |-> 0, stale |-> FALSE]]
  /\ mails' = [mails EXCEPT ![s].queued = @ + 1]
  /\ UNCHANGED <<settled, next, number, invoice, file, worker>>

-----------------------------------------------------------------------------
Work(w) ==
  \/ Discover(w) \/ (\E s \in Sessions : LockSession(w, s)) \/ NotIssued(w)
  \/ Allocate(w) \/ Issue(w) \/ BatchDone(w)
  \/ (\E s \in Sessions : ClaimGeneration(w, s)) \/ GenerationDone(w)
  \/ GenerateFails(w) \/ LookForObject(w) \/ Publish(w) \/ MarkReady(w) \/ FailGeneration(w)
  \/ (\E s \in Sessions : ClaimDelivery(w, s)) \/ DeliveryDone(w)
  \/ OpenArtifact(w)
  \/ (\E taken, success \in BOOLEAN : Submit(w, taken, success))
  \/ RecordDelivery(w)

Next ==
  \/ \E s \in Sessions : Settle(s) \/ InvoiceStale(s) \/ DeliveryStale(s)
                         \/ Download(s) \/ RecoverDelivery(s)
                         \/ \E left \in {"none", "other"} : Damage(s, left)
  \/ \E w \in Workers : Work(w) \/ IssueFails(w) \/ Crash(w)

Spec == Init /\ [][Next]_vars

\* A worker's loop keeps running (its process is restarted), and time passes.
FairSpec ==
  /\ Spec
  /\ \A w \in Workers : WF_vars(Work(w))
  /\ \A s \in Sessions : WF_vars(InvoiceStale(s)) /\ WF_vars(DeliveryStale(s))

-----------------------------------------------------------------------------
\* The range of every variable, and who holds what: a number belongs to an
\* issued invoice or to the transaction about to issue it, and nobody shares a
\* row lock.
TypeOK ==
  /\ settled \subseteq Sessions
  /\ next \in 1..(MaxSerial + 1)
  /\ number \in [Sessions -> 0..MaxSerial]
  /\ \A s \in Sessions :
       /\ invoice[s].status \in {"absent", "PENDING", "GENERATING", "READY", "FAILED", "CORRUPT"}
       /\ invoice[s].attempts \in 0..MaxAttempts
       /\ file[s] \in {"none", "pdf", "other"}
       /\ delivery[s].status \in {"absent", "PENDING", "SENDING", "SENT", "FAILED", "AMBIGUOUS"}
       /\ delivery[s].attempts \in 0..MaxAttempts
       /\ Cardinality(LockHolder(s)) <= 1
       /\ number[s] # Unnumbered <=>
            invoice[s].status # "absent" \/ \E w \in LockHolder(s) : worker[w].step = "allocated"
  /\ \A w \in Workers : /\ worker[w].batch \subseteq Sessions
                        /\ worker[w].left \in 0..BatchSize

Issued == {s \in Sessions : invoice[s].status # "absent"}

\* The numbers of a financial year are consecutive and each names one invoice:
\* an issuance that fails or dies takes no number with it, and two workers
\* never draw the same one (EnsureInvoice, allocateSerial).
NumbersAreConsecutive ==
  /\ TypeOK
  /\ {number[s] : s \in Issued} = 1..(next - 1)
  /\ \A s, t \in Issued : number[s] = number[t] => s = t

\* A READY invoice's file holds the bytes whose hash it records, whichever
\* worker published them and whatever was there before, unless the file was
\* damaged afterwards (publish, generate).
ReadyIsPublished ==
  \A s \in Sessions : invoice[s].status = "READY" => file[s] = "pdf" \/ mails[s].spoiled

\* A mail is handed to SMTP at most once per delivery queued, by the issuance
\* or by a CPO who confirmed the duplicate, however workers die, overrun their
\* claims or lose the server's answer; and SENT means a mail was accepted
\* (claimDelivery, deliver, RecoverDelivery).
SubmittedAsQueued ==
  \A s \in Sessions :
    /\ mails[s].submitted <= mails[s].queued
    /\ delivery[s].status = "SENT" => mails[s].accepted > 0

\* What is issued goes out as it is and as often as it was asked for.
IssuedGoesOutOnce == ReadyIsPublished /\ SubmittedAsQueued

\* Every settled session whose records are valid gets its invoice, sessions
\* that cannot be issued notwithstanding, and every invoice and every delivery
\* comes to an end, lost claims included, as long as no worker overran its
\* claim (Reconcile, DeliverPending).
InvoiceEnds ==
  \A s \in Sessions \ Unissuable :
    (s \in settled) ~> \/ mails[s].overrun
                       \/ /\ invoice[s].status \in {"READY", "FAILED", "CORRUPT"}
                          /\ delivery[s].status \in {"absent", "SENT", "FAILED", "AMBIGUOUS"}
=============================================================================
