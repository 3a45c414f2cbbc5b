------------------------------ MODULE MailOutbox ------------------------------
(***************************************************************************)
(* The mail outbox (mail/outbox.go) with its operator commands             *)
(* (superadmin/mail.go): a business transaction enqueues a job, workers in *)
(* several CMS processes claim jobs under a lease, hand the message to the *)
(* SMTP server and record the outcome.  A worker may die, or be slower     *)
(* than its lease, at any point.                                           *)
(*                                                                         *)
(* Every statement is a transaction of its own; the commands lock the job  *)
(* they change and are one step each.                                      *)
(***************************************************************************)
EXTENDS Integers, FiniteSets

CONSTANTS
  Jobs,          \* the mails a business transaction may enqueue
  Workers,       \* worker loops, one per CMS process
  MaxAttempts,   \* max_attempts of a job (8 in the code)
  MaxCrashes,    \* bound: workers that die
  MaxRetries     \* bound: retries an operator asks for

VARIABLES
  job,       \* mail_outbox: status, attempts, and "ripe": the wait is over,
             \* for available_at if PENDING, for the lease if PROCESSING
  worker,    \* worker[w]: the job it has claimed, with that row's attempts
  crashes,   \* workers that died so far
  history    \* per job: mails submitted, mails accepted, retries asked for,
             \* "faulted" if something could have caused a duplicate, "lost"
             \* if a claim was cut short by a crash or outlived its lease

vars == <<job, worker, crashes, history>>

NoJob == "none"

ASSUME OutboxAssumption ==
  /\ MaxAttempts \in Nat \ {0}
  /\ IsFiniteSet(Workers)
  /\ NoJob \notin Jobs

Idle == [step |-> "idle", job |-> NoJob, attempt |-> 0]

Init ==
  /\ job = [j \in Jobs |-> [status |-> "absent", attempts |-> 0, ripe |-> FALSE]]
  /\ worker = [w \in Workers |-> Idle]
  /\ crashes = 0
  /\ history = [j \in Jobs |-> [submitted |-> 0, accepted |-> 0, retries |-> 0,
                                faulted |-> FALSE, lost |-> FALSE]]

-----------------------------------------------------------------------------
\* EnqueueMessageWithContext, in the transaction of the business change.
Enqueue(j) ==
  /\ job[j].status = "absent"
  /\ job' = [job EXCEPT ![j] = [status |-> "PENDING", attempts |-> 0, ripe |-> TRUE]]
  /\ UNCHANGED <<worker, crashes, history>>

\* The worker loops that hold a claim of the job, the current one or a lost one.
Holders(j) == {w \in Workers : worker[w].job = j}

\* Time passes: available_at is reached, or the lease is older than
\* staleJobAge.  A worker that still works on the job has lost its lease.
Ripen(j) ==
  /\ job[j].status \in {"PENDING", "PROCESSING"}
  /\ ~job[j].ripe
  /\ job' = [job EXCEPT ![j].ripe = TRUE]
  /\ LET outlived == job[j].status = "PROCESSING" /\ Holders(j) # {} IN
     history' = [history EXCEPT ![j].faulted = @ \/ outlived, ![j].lost = @ \/ outlived]
  /\ UNCHANGED <<worker, crashes>>

-----------------------------------------------------------------------------
(* processOne. *)

\* Mutant: a job in PROCESSING is claimed without looking at its lease.
ClaimableAnyLease(j) ==
  /\ job[j].attempts < MaxAttempts
  /\ job[j].status = "PROCESSING" \/ (job[j].status = "PENDING" /\ job[j].ripe)

\* The claim skips jobs that have used up their attempts, wait for their
\* retry, or are under a lease.
Claimable(j) ==
  /\ job[j].attempts < MaxAttempts
  /\ job[j].status \in {"PENDING", "PROCESSING"}
  /\ job[j].ripe

Claim(w, j) ==
  /\ worker[w] = Idle
  /\ Claimable(j)
  /\ job' = [job EXCEPT ![j] = [status |-> "PROCESSING", attempts |-> @.attempts + 1,
                                ripe |-> FALSE]]
  /\ worker' = [worker EXCEPT ![w] = [step |-> "claimed", job |-> j,
                                      attempt |-> job[j].attempts + 1]]
  /\ UNCHANGED <<crashes, history>>

\* The key is not the worker's, or the payload cannot be opened or decoded.
Unreadable(w) ==
  /\ worker[w].step = "claimed"
  /\ worker' = [worker EXCEPT ![w].step = "failed"]
  /\ UNCHANGED <<job, crashes, history>>

\* SendMessage: the server has taken the mail or not, and the worker hears of
\* success, or of an error (a timeout, say, after the server took it).
Send(w, taken, success) ==
  LET j == worker[w].job IN
  /\ worker[w].step = "claimed"
  /\ success => taken
  /\ worker' = [worker EXCEPT ![w].step = IF success THEN "sent" ELSE "failed"]
  /\ history' = [history EXCEPT ![j].submitted = @ + 1,
                                ![j].accepted = IF taken THEN @ + 1 ELSE @,
                                ![j].faulted = @ \/ (taken /\ ~success)]
  /\ UNCHANGED <<job, crashes>>

\* Success is recorded if the job is in PROCESSING, by whomever it was claimed.
MarkSent(w) ==
  LET j == worker[w].job IN
  /\ worker[w].step = "sent"
  /\ job' = IF job[j].status = "PROCESSING"
              THEN [job EXCEPT ![j].status = "SENT", ![j].ripe = FALSE] ELSE job
  /\ worker' = [worker EXCEPT ![w] = Idle]
  /\ UNCHANGED <<crashes, history>>

\* Mutant: the retry limit is compared with "greater than".
FailJobPastLimit(w) ==
  LET j == worker[w].job IN
  /\ worker[w].step = "failed"
  /\ job' = IF job[j].status = "PROCESSING"
              THEN [job EXCEPT ![j].status = IF worker[w].attempt > MaxAttempts
                                               THEN "FAILED" ELSE "PENDING",
                               ![j].ripe = FALSE] ELSE job
  /\ worker' = [worker EXCEPT ![w] = Idle]
  /\ UNCHANGED <<crashes, history>>

\* failJob: back to PENDING with a delay, or FAILED when the attempts of the
\* claimed copy are used up.
FailJob(w) ==
  LET j == worker[w].job IN
  /\ worker[w].step = "failed"
  /\ job' = IF job[j].status = "PROCESSING"
              THEN [job EXCEPT ![j].status = IF worker[w].attempt >= MaxAttempts
                                               THEN "FAILED" ELSE "PENDING",
                               ![j].ripe = FALSE] ELSE job
  /\ worker' = [worker EXCEPT ![w] = Idle]
  /\ UNCHANGED <<crashes, history>>

\* The process dies, or the statement that records the outcome fails.
Crash(w) ==
  LET j == worker[w].job IN
  /\ worker[w] # Idle
  /\ crashes < MaxCrashes
  /\ crashes' = crashes + 1
  /\ worker' = [worker EXCEPT ![w] = Idle]
  /\ history' = [history EXCEPT ![j].faulted = @ \/ worker[w].step = "sent",
                                ![j].lost = TRUE]
  /\ UNCHANGED job

-----------------------------------------------------------------------------
(* Commands of the platform administrator. *)

RetryMailJob(j) ==
  /\ job[j].status \in {"FAILED", "CANCELED"}
  /\ history[j].retries < MaxRetries
  /\ job' = [job EXCEPT ![j] = [status |-> "PENDING", attempts |-> 0, ripe |-> TRUE]]
  /\ history' = [history EXCEPT ![j].retries = @ + 1]
  /\ UNCHANGED <<worker, crashes>>

CancelMailJob(j) ==
  /\ job[j].status \in {"PENDING", "FAILED"}
  /\ job' = [job EXCEPT ![j].status = "CANCELED", ![j].ripe = FALSE]
  /\ UNCHANGED <<worker, crashes, history>>

\* All jobs under a stale lease become available; their attempts stay.
ReconcileMailJobs ==
  LET stale == {j \in Jobs : job[j].status = "PROCESSING" /\ job[j].ripe} IN
  /\ stale # {}
  /\ job' = [j \in Jobs |-> IF j \in stale THEN [job[j] EXCEPT !.status = "PENDING"]
                                           ELSE job[j]]
  /\ UNCHANGED <<worker, crashes, history>>

\* Retention deletes what was sent or canceled long ago.
RetainMailJobs ==
  \E old \in SUBSET {j \in Jobs : job[j].status \in {"SENT", "CANCELED"}} :
     /\ old # {}
     /\ job' = [j \in Jobs |-> IF j \in old THEN [job[j] EXCEPT !.status = "deleted"]
                                            ELSE job[j]]
     /\ UNCHANGED <<worker, crashes, history>>

-----------------------------------------------------------------------------
Work(w) ==
  \/ \E j \in Jobs : Claim(w, j)
  \/ Unreadable(w)
  \/ \E taken, success \in BOOLEAN : Send(w, taken, success)
  \/ MarkSent(w)
  \/ FailJob(w)

Next ==
  \/ \E w \in Workers : Work(w) \/ Crash(w)
  \/ \E j \in Jobs : Enqueue(j) \/ Ripen(j) \/ RetryMailJob(j) \/ CancelMailJob(j)
  \/ ReconcileMailJobs
  \/ RetainMailJobs

Spec == Init /\ [][Next]_vars

\* A loop that is not dead comes round, and time passes.  Nothing is assumed
\* of the operator or of the server.
FairSpec ==
  /\ Spec
  /\ \A w \in Workers : WF_vars(Work(w))
  /\ \A j \in Jobs : WF_vars(Ripen(j))

-----------------------------------------------------------------------------
\* Types, and the number of attempts stays within its limit.
TypeOK ==
  /\ job \in [Jobs -> [status : {"absent", "PENDING", "PROCESSING", "SENT", "FAILED",
                                 "CANCELED", "deleted"},
                       attempts : 0 .. MaxAttempts, ripe : BOOLEAN]]
  /\ \A w \in Workers :
        worker[w] = Idle \/ worker[w] \in [step : {"claimed", "sent", "failed"},
                                           job : Jobs, attempt : 1 .. MaxAttempts]

\* A job is recorded as sent only if the server took the mail, also when a
\* worker that lost its lease records its outcome over the claim of another
\* (MarkSent does not ask whose claim it is).
SentWasAccepted ==
  \A j \in Jobs : job[j].status = "SENT" => history[j].accepted > 0

\* A recipient gets a mail more often than it was asked for only if a worker
\* died after the server took it, outlived its lease, or was told of an error
\* by a server that took the mail: claims of two workers never overlap.
DuplicatesNeedAFault ==
  \A j \in Jobs : history[j].accepted > 1 + history[j].retries => history[j].faulted

\* No mix of crashes, lost leases and reconciliations makes the workers submit
\* a mail more often than its attempts, afresh for every retry.
SubmissionsBounded ==
  \A j \in Jobs : history[j].submitted <= MaxAttempts * (1 + history[j].retries)

\* The outbox keeps its promises to the recipient.
DeliveryHonest == TypeOK /\ SentWasAccepted /\ DuplicatesNeedAFault /\ SubmissionsBounded

\* The attempts are used up and one was cut short: no claim will take the job.
Stranded(j) == job[j].attempts = MaxAttempts /\ history[j].lost

\* Every job reaches an end although workers die, leases are lost and no
\* operator looks at it, unless one of its attempts was cut short.
JobEnds ==
  \A j \in Jobs :
     job[j].status \in {"PENDING", "PROCESSING"}
       ~> (job[j].status \notin {"PENDING", "PROCESSING"} \/ Stranded(j))
=============================================================================
