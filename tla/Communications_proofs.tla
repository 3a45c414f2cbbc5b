------------------------- MODULE Communications_proofs -------------------------
(***************************************************************************)
(* Theorems about what the backend tells people, for any number of jobs,   *)
(* workers, requests, rows, keys and events: the outbox is honest          *)
(* about what it delivers (MailOutbox), a ticket, its history and its      *)
(* notices say the same (Support), a list read to its end is read whole    *)
(* (Paging) and a trace that is followed misses nothing (ChargingTrace).   *)
(***************************************************************************)
EXTENDS MCCommunications, FiniteSetTheorems, SequenceTheorems, NaturalsInduction,
        WellFoundedInduction, TLAPS

-----------------------------------------------------------------------------
(* The outbox. *)

\* Types, of the histories too; a job that was never enqueued has no attempts.
Types ==
  /\ TypeOK
  /\ worker \in [Workers -> [step : {"idle", "claimed", "sent", "failed"},
                             job : Jobs \cup {NoJob}, attempt : 0 .. MaxAttempts]]
  /\ history \in [Jobs -> [submitted : Nat, accepted : Nat, retries : Nat,
                           faulted : BOOLEAN, lost : BOOLEAN]]
  /\ \A j \in Jobs : job[j].status = "absent" => job[j].attempts = 0

\* A job that was sent, or is about to be recorded so, was accepted.
Accepted ==
  /\ SentWasAccepted
  /\ \A w \in Workers : worker[w].step = "sent" => history[worker[w].job].accepted > 0

\* Without a fault a claim has one holder, its lease has not run out, and the
\* mail was taken at most once, as that holder or the end of the job says.
Undisturbed(j) ==
  /\ \A v, w \in Workers : worker[v].job = j /\ worker[w].job = j => v = w
  /\ \A w \in Workers : worker[w].job = j => job[j].status = "PROCESSING" /\ ~job[j].ripe
  /\ history[j].accepted <= 1
  /\ history[j].accepted = 1 =>
       \/ job[j].status \in {"SENT", "deleted"}
       \/ \E w \in Workers : worker[w].job = j /\ worker[w].step = "sent"

FaultsExplain == \A j \in Jobs : ~history[j].faulted => Undisturbed(j)

\* Each attempt that was counted is a mail submitted, or one that may still be.
Unsubmitted(j) == {w \in Workers : worker[w].job = j /\ worker[w].step = "claimed"}
AttemptsCount ==
  \A j \in Jobs :
    history[j].submitted + Cardinality(Unsubmitted(j))
      <= job[j].attempts + MaxAttempts * history[j].retries

IInv == Types /\ Accepted /\ FaultsExplain /\ AttemptsCount

-----------------------------------------------------------------------------
LEMMA InitInv == Init => IInv
  <1> SUFFICES ASSUME Init PROVE IInv
    OBVIOUS
  <1> USE OutboxAssumption DEF Init, Idle
  <1>1. Types
    BY DEF Types, TypeOK
  <1>2. Accepted
    BY DEF Accepted, SentWasAccepted
  <1>3. FaultsExplain
    BY DEF FaultsExplain, Undisturbed
  <1>4. AttemptsCount
    <2> SUFFICES ASSUME NEW j \in Jobs
                 PROVE  Cardinality(Unsubmitted(j)) = 0 /\ MaxAttempts * 0 = 0
      BY DEF AttemptsCount
    <2>1. Unsubmitted(j) = {}
      BY DEF Unsubmitted
    <2> QED
      BY <2>1, FS_EmptySet
  <1> QED
    BY <1>1, <1>2, <1>3, <1>4 DEF IInv

\* A worker that is at work holds a claim of a job.
LEMMA HolderType ==
  ASSUME Types, NEW w \in Workers, worker[w].step # "idle"
  PROVE  worker[w].job \in Jobs /\ worker[w].attempt \in 1 .. MaxAttempts
  BY DEF Types, TypeOK, Idle

-----------------------------------------------------------------------------
Recorded == [submitted : Nat, accepted : Nat, retries : Nat,
             faulted : BOOLEAN, lost : BOOLEAN]
LEMMA SubmissionRecorded ==
  ASSUME NEW h \in Recorded, NEW m \in Nat, NEW n \in Nat, NEW b \in BOOLEAN
  PROVE  [h EXCEPT !.submitted = m, !.accepted = n, !.faulted = b] \in Recorded
  BY DEF Recorded

LEMMA TypesKept == Types /\ [Next]_vars => Types'
  <1> SUFFICES ASSUME Types, [Next]_vars PROVE Types'
    OBVIOUS
  <1> USE OutboxAssumption DEF Types, TypeOK, Idle
  <1>1. ASSUME NEW j \in Jobs, Enqueue(j) PROVE Types'
    BY <1>1 DEF Enqueue
  <1>2. ASSUME NEW j \in Jobs, Ripen(j) PROVE Types'
    <2>1. PICK b \in BOOLEAN, c \in BOOLEAN :
            history' = [history EXCEPT ![j].faulted = b, ![j].lost = c]
      BY <1>2, Zenon DEF Ripen
    <2>2. history' \in [Jobs -> [submitted : Nat, accepted : Nat, retries : Nat,
                                 faulted : BOOLEAN, lost : BOOLEAN]]
      BY <2>1
    <2>3. job' = [job EXCEPT ![j].ripe = TRUE] /\ worker' = worker
      BY <1>2, Zenon DEF Ripen
    <2> QED
      BY <2>2, <2>3
  <1>3. ASSUME NEW w \in Workers, NEW j \in Jobs, Claim(w, j) PROVE Types'
    BY <1>3 DEF Claim, Claimable
  <1>4. ASSUME NEW w \in Workers, Unreadable(w) PROVE Types'
    BY <1>4 DEF Unreadable
  <1>5. ASSUME NEW w \in Workers, NEW taken \in BOOLEAN, NEW success \in BOOLEAN,
               Send(w, taken, success)
        PROVE  Types'
    <2> DEFINE j == worker[w].job
    <2>0. j \in Jobs /\ history[j].accepted \in Nat
      BY <1>5, HolderType DEF Send
    <2>1. PICK b \in BOOLEAN, n \in Nat :
            history' = [history EXCEPT ![j].submitted = history[j].submitted + 1,
                                       ![j].accepted = n, ![j].faulted = b]
      <3>2. (IF taken THEN history[j].accepted + 1 ELSE history[j].accepted) \in Nat
        BY <2>0
      <3>3. history' = [history EXCEPT
              ![j].submitted = history[j].submitted + 1,
              ![j].accepted = IF taken THEN history[j].accepted + 1 ELSE history[j].accepted,
              ![j].faulted = history[j].faulted \/ (taken /\ ~success)]
        BY <1>5, Zenon DEF Send
      <3> QED
        BY <3>2, <3>3, Zenon
    <2>2. history' \in [Jobs -> [submitted : Nat, accepted : Nat, retries : Nat,
                                 faulted : BOOLEAN, lost : BOOLEAN]]
      <3>1. [history[j] EXCEPT !.submitted = @ + 1, !.accepted = n, !.faulted = b]
              \in [submitted : Nat, accepted : Nat, retries : Nat,
                   faulted : BOOLEAN, lost : BOOLEAN]
        <4>1. history[j] \in Recorded /\ history[j].submitted + 1 \in Nat
          BY <2>0 DEF Recorded
        <4>2. [history[j] EXCEPT !.submitted = @ + 1, !.accepted = n, !.faulted = b]
                \in Recorded
          BY <4>1, SubmissionRecorded, Zenon
        <4> QED
          BY <4>2 DEF Recorded
      <3>2. history' = [history EXCEPT
                ![j] = [history[j] EXCEPT !.submitted = @ + 1, !.accepted = n, !.faulted = b]]
        BY <2>1, <2>0, Zenon
      <3> QED
        BY <3>1, <3>2, <2>0
    <2>3. PICK step \in {"sent", "failed"} : worker' = [worker EXCEPT ![w].step = step]
      BY <1>5, Zenon DEF Send
    <2>4. job' = job /\ worker[w].step = "claimed"
      BY <1>5 DEF Send
    <2>5. worker'[w] \in [step : {"claimed", "sent", "failed"}, job : Jobs,
                          attempt : 1 .. MaxAttempts]
      BY <2>3, <2>4
    <2> HIDE DEF j
    <2> QED
      BY <2>2, <2>3, <2>4, <2>5
  <1>6. ASSUME NEW w \in Workers, MarkSent(w) PROVE Types'
    BY <1>6 DEF MarkSent
  <1>7. ASSUME NEW w \in Workers, FailJob(w) PROVE Types'
    BY <1>7 DEF FailJob
  <1>8. ASSUME NEW w \in Workers, Crash(w) PROVE Types'
    BY <1>8 DEF Crash
  <1>9. ASSUME NEW j \in Jobs, RetryMailJob(j) PROVE Types'
    BY <1>9 DEF RetryMailJob
  <1>10. ASSUME NEW j \in Jobs, CancelMailJob(j) PROVE Types'
    BY <1>10 DEF CancelMailJob
  <1>11. CASE ReconcileMailJobs
    BY <1>11 DEF ReconcileMailJobs
  <1>12. CASE RetainMailJobs
    BY <1>12 DEF RetainMailJobs
  <1>13. CASE UNCHANGED vars
    BY <1>13 DEF vars
  <1> QED
    BY <1>1, <1>2, <1>3, <1>4, <1>5, <1>6, <1>7, <1>8, <1>9, <1>10, <1>11, <1>12, <1>13
    DEF Next, Work

-----------------------------------------------------------------------------
LEMMA AcceptedKept == Types /\ Accepted /\ [Next]_vars => Accepted'
  <1> SUFFICES ASSUME Types, Accepted, [Next]_vars PROVE Accepted'
    OBVIOUS
  <1> USE DEF Accepted, SentWasAccepted, Types, TypeOK, Idle
  <1>1. ASSUME NEW j \in Jobs, Enqueue(j) PROVE Accepted'
    BY <1>1, HolderType DEF Enqueue
  <1>2. ASSUME NEW j \in Jobs, Ripen(j) PROVE Accepted'
    <2>1. \A k \in Jobs : history'[k].accepted = history[k].accepted
      BY <1>2 DEF Ripen
    <2>2. job' = [job EXCEPT ![j].ripe = TRUE] /\ worker' = worker
      BY <1>2, Zenon DEF Ripen
    <2> QED
      BY <2>1, <2>2, HolderType
  <1>3. ASSUME NEW w \in Workers, NEW j \in Jobs, Claim(w, j) PROVE Accepted'
    BY <1>3 DEF Claim, Claimable
  <1>4. ASSUME NEW w \in Workers, Unreadable(w) PROVE Accepted'
    BY <1>4 DEF Unreadable
  <1>5. ASSUME NEW w \in Workers, NEW taken \in BOOLEAN, NEW success \in BOOLEAN,
               Send(w, taken, success)
        PROVE  Accepted'
    <2> DEFINE j == worker[w].job
    <2>1. j \in Jobs /\ worker[w].step = "claimed" /\ job' = job
      BY <1>5, HolderType DEF Send
    <2>2. \A k \in Jobs : history[k].accepted > 0 => history'[k].accepted > 0
      BY <1>5, <2>1 DEF Send
    <2>3. /\ success => taken
          /\ worker' = [worker EXCEPT ![w].step = IF success THEN "sent" ELSE "failed"]
          /\ taken => history'[j].accepted > 0
      BY <1>5, <2>1 DEF Send
    <2>4. CASE success
      <3>1. worker' = [worker EXCEPT ![w].step = "sent"] /\ history'[j].accepted > 0
        BY <2>3, <2>4
      <3> QED
        BY <2>1, <2>2, <3>1, HolderType
    <2>5. CASE ~success
      <3>1. worker' = [worker EXCEPT ![w].step = "failed"]
        BY <2>3, <2>5
      <3> QED
        BY <2>1, <2>2, <3>1, HolderType
    <2> QED
      BY <2>4, <2>5
  <1>6. ASSUME NEW w \in Workers, MarkSent(w) PROVE Accepted'
    BY <1>6, HolderType DEF MarkSent
  <1>7. ASSUME NEW w \in Workers, FailJob(w) PROVE Accepted'
    BY <1>7, HolderType DEF FailJob
  <1>8. ASSUME NEW w \in Workers, Crash(w) PROVE Accepted'
    <2>1. \A k \in Jobs : history'[k].accepted = history[k].accepted
      BY <1>8 DEF Crash
    <2>2. job' = job /\ worker' = [worker EXCEPT ![w] = Idle]
      BY <1>8 DEF Crash
    <2> QED
      BY <2>1, <2>2, HolderType
  <1>9. ASSUME NEW j \in Jobs, RetryMailJob(j) PROVE Accepted'
    BY <1>9, HolderType DEF RetryMailJob
  <1>10. ASSUME NEW j \in Jobs, CancelMailJob(j) PROVE Accepted'
    BY <1>10 DEF CancelMailJob
  <1>11. CASE ReconcileMailJobs
    BY <1>11 DEF ReconcileMailJobs
  <1>12. CASE RetainMailJobs
    BY <1>12 DEF RetainMailJobs
  <1>13. CASE UNCHANGED vars
    BY <1>13 DEF vars
  <1> QED
    BY <1>1, <1>2, <1>3, <1>4, <1>5, <1>6, <1>7, <1>8, <1>9, <1>10, <1>11, <1>12, <1>13
    DEF Next, Work

-----------------------------------------------------------------------------
LEMMA FaultsKept == Types /\ FaultsExplain /\ [Next]_vars => FaultsExplain'
  <1> SUFFICES ASSUME Types, FaultsExplain, [Next]_vars,
                      NEW k \in Jobs, ~history'[k].faulted
               PROVE  Undisturbed(k)'
    BY DEF FaultsExplain
  <1> USE DEF Undisturbed, Types, TypeOK, Idle
  <1>0. ASSUME ~history[k].faulted PROVE Undisturbed(k)
    BY <1>0 DEF FaultsExplain
  <1>1. ASSUME NEW j \in Jobs, Enqueue(j) PROVE Undisturbed(k)'
    BY <1>0, <1>1 DEF Enqueue
  <1>2. ASSUME NEW j \in Jobs, Ripen(j) PROVE Undisturbed(k)'
    <2>1. job' = [job EXCEPT ![j].ripe = TRUE] /\ worker' = worker
      BY <1>2, Zenon DEF Ripen
    <2>2. history'[k].accepted = history[k].accepted
      BY <1>2 DEF Ripen
    <2>3. ~history[k].faulted
      BY <1>2 DEF Ripen
    <2>4. CASE j = k
      <3>1. Holders(k) = {} \/ job[k].status # "PROCESSING"
        BY <1>2, <2>4 DEF Ripen
      <3>2. \A w \in Workers : worker[w].job # k
        BY <3>1, <2>3, <1>0 DEF Holders
      <3> QED
        BY <2>1, <2>2, <2>3, <2>4, <3>2, <1>0
    <2>5. CASE j # k
      BY <2>1, <2>2, <2>3, <2>5, <1>0
    <2> QED
      BY <2>4, <2>5
  <1>3. ASSUME NEW w \in Workers, NEW j \in Jobs, Claim(w, j) PROVE Undisturbed(k)'
    BY <1>0, <1>3, OutboxAssumption DEF Claim, Claimable
  <1>4. ASSUME NEW w \in Workers, Unreadable(w) PROVE Undisturbed(k)'
    BY <1>0, <1>4 DEF Unreadable
  <1>5. ASSUME NEW w \in Workers, NEW taken \in BOOLEAN, NEW success \in BOOLEAN,
               Send(w, taken, success)
        PROVE  Undisturbed(k)'
    <2> DEFINE j == worker[w].job
    <2>1. /\ j \in Jobs /\ worker[w].step = "claimed" /\ job' = job
          /\ worker' = [worker EXCEPT ![w].step = IF success THEN "sent" ELSE "failed"]
      BY <1>5, HolderType DEF Send
    <2>2. ~history[k].faulted
      BY <1>5 DEF Send
    <2>3. CASE j = k
      <3>1. history[k].accepted = 0
        <4>0. Undisturbed(k)
          BY <1>0, <2>2
        <4>1. job[k].status = "PROCESSING"
          BY <4>0, <2>1, <2>3
        <4>3. history[k].accepted <= 1
          BY <4>0
        <4>2. \A v \in Workers : worker[v].job = k => worker[v].step # "sent"
          BY <1>0, <2>1, <2>2, <2>3
        <4>4. history[k].accepted # 1
          BY <4>0, <4>1, <4>2
        <4>5. history[k].accepted \in Nat
          OBVIOUS
        <4> HIDE DEF Undisturbed, Types, TypeOK
        <4> QED
          BY <4>3, <4>4, <4>5
      <3>2. taken => success
        BY <1>5, <2>1, <2>3 DEF Send
      <3>3. history'[k].accepted = IF taken THEN 1 ELSE 0
        BY <1>5, <2>1, <2>3, <3>1 DEF Send
      <3> QED
        BY <1>0, <2>1, <2>2, <2>3, <3>2, <3>3
    <2>4. CASE j # k
      <3>1. history'[k].accepted = history[k].accepted
        BY <1>5, <2>1, <2>4 DEF Send
      <3> QED
        BY <1>0, <2>1, <2>2, <2>4, <3>1
    <2> QED
      BY <2>3, <2>4
  <1>6. ASSUME NEW w \in Workers, MarkSent(w) PROVE Undisturbed(k)'
    BY <1>0, <1>6, HolderType, OutboxAssumption DEF MarkSent
  <1>7. ASSUME NEW w \in Workers, FailJob(w) PROVE Undisturbed(k)'
    BY <1>0, <1>7, HolderType, OutboxAssumption DEF FailJob
  <1>8. ASSUME NEW w \in Workers, Crash(w) PROVE Undisturbed(k)'
    <2>1. job' = job /\ worker' = [worker EXCEPT ![w] = Idle]
      BY <1>8 DEF Crash
    <2>2. history'[k].accepted = history[k].accepted /\ ~history[k].faulted
      BY <1>8 DEF Crash
    <2>3. worker[w].job = k => worker[w].step # "sent"
      BY <1>8 DEF Crash
    <2> QED
      BY <1>0, <2>1, <2>2, <2>3, OutboxAssumption
  <1>9. ASSUME NEW j \in Jobs, RetryMailJob(j) PROVE Undisturbed(k)'
    BY <1>0, <1>9 DEF RetryMailJob
  <1>10. ASSUME NEW j \in Jobs, CancelMailJob(j) PROVE Undisturbed(k)'
    BY <1>0, <1>10 DEF CancelMailJob
  <1>11. CASE ReconcileMailJobs
    BY <1>0, <1>11 DEF ReconcileMailJobs
  <1>12. CASE RetainMailJobs
    BY <1>0, <1>12 DEF RetainMailJobs
  <1>13. CASE UNCHANGED vars
    BY <1>0, <1>13 DEF vars
  <1> QED
    BY <1>1, <1>2, <1>3, <1>4, <1>5, <1>6, <1>7, <1>8, <1>9, <1>10, <1>11, <1>12, <1>13
    DEF Next, Work

-----------------------------------------------------------------------------
LEMMA UnsubmittedFinite ==
  ASSUME NEW j \in Jobs
  PROVE  IsFiniteSet(Unsubmitted(j)) /\ Cardinality(Unsubmitted(j)) \in Nat
  <1>1. Unsubmitted(j) \subseteq Workers
    BY DEF Unsubmitted
  <1> QED
    BY <1>1, OutboxAssumption, FS_Subset, FS_CardinalityType

\* The workers that may still submit do not grow, nor does what was submitted.
LEMMA FewerUnsubmitted ==
  ASSUME NEW k \in Jobs, Unsubmitted(k)' \subseteq Unsubmitted(k)
  PROVE  /\ Cardinality(Unsubmitted(k)') \in Nat
         /\ Cardinality(Unsubmitted(k)') <= Cardinality(Unsubmitted(k))
  BY UnsubmittedFinite, FS_Subset, FS_CardinalityType

LEMMA AttemptsKept == Types /\ AttemptsCount /\ [Next]_vars => AttemptsCount'
  <1> SUFFICES ASSUME Types, AttemptsCount, [Next]_vars, NEW k \in Jobs
               PROVE  history'[k].submitted + Cardinality(Unsubmitted(k)')
                        <= job'[k].attempts + MaxAttempts * history'[k].retries
    BY DEF AttemptsCount
  <1> DEFINE Goal == history'[k].submitted + Cardinality(Unsubmitted(k)')
                       <= job'[k].attempts + MaxAttempts * history'[k].retries
  <1>0. /\ history[k].submitted \in Nat /\ history[k].retries \in Nat
        /\ job[k].attempts \in 0 .. MaxAttempts /\ MaxAttempts \in Nat
        /\ Cardinality(Unsubmitted(k)) \in Nat
        /\ MaxAttempts * history[k].retries \in Nat
        /\ history[k].submitted + Cardinality(Unsubmitted(k))
              <= job[k].attempts + MaxAttempts * history[k].retries
    <2>1. /\ history[k].submitted \in Nat /\ history[k].retries \in Nat
          /\ job[k].attempts \in 0 .. MaxAttempts /\ MaxAttempts \in Nat
      BY OutboxAssumption DEF Types, TypeOK
    <2> QED
      BY <2>1, UnsubmittedFinite DEF AttemptsCount
  \* Most steps change none of the numbers, and leave nobody new to submit.
  <1>u. ASSUME Unsubmitted(k)' \subseteq Unsubmitted(k),
               history'[k].submitted = history[k].submitted,
               history'[k].retries = history[k].retries,
               job'[k].attempts = job[k].attempts
        PROVE  Goal
    BY <1>u, <1>0, FewerUnsubmitted
  <1> HIDE DEF Goal
  <1>1. ASSUME NEW j \in Jobs, Enqueue(j) PROVE Goal
    <2>1. job'[k].attempts = job[k].attempts
      BY <1>1 DEF Enqueue, Types, TypeOK
    <2> QED
      BY <1>1, <1>u, <2>1 DEF Enqueue, Unsubmitted
  <1>2. ASSUME NEW j \in Jobs, Ripen(j) PROVE Goal
    <2>1. /\ history'[k].submitted = history[k].submitted
          /\ history'[k].retries = history[k].retries
      BY <1>2 DEF Ripen, Types
    <2>2. job'[k].attempts = job[k].attempts /\ worker' = worker
      BY <1>2 DEF Ripen, Types, TypeOK
    <2> QED
      BY <1>u, <2>1, <2>2 DEF Unsubmitted
  <1>3. ASSUME NEW w \in Workers, NEW j \in Jobs, Claim(w, j) PROVE Goal
    <2>1. CASE j = k
      <3>1. Unsubmitted(k)' = Unsubmitted(k) \cup {w} /\ w \notin Unsubmitted(k)
        BY <1>3, <2>1 DEF Claim, Unsubmitted, Types, Idle
      <3>2. Cardinality(Unsubmitted(k)') = Cardinality(Unsubmitted(k)) + 1
        BY <3>1, UnsubmittedFinite, FS_AddElement
      <3>3. job'[k].attempts = job[k].attempts + 1 /\ history' = history
        BY <1>3, <2>1 DEF Claim, Types, TypeOK
      <3> QED
        BY <1>0, <3>2, <3>3 DEF Goal
    <2>2. CASE j # k
      <3>1. Unsubmitted(k)' = Unsubmitted(k)
        BY <1>3, <2>2, OutboxAssumption DEF Claim, Unsubmitted, Types, Idle
      <3> QED
        BY <1>3, <1>u, <2>2, <3>1 DEF Claim, Types, TypeOK
    <2> QED
      BY <2>1, <2>2
  <1>4. ASSUME NEW w \in Workers, Unreadable(w) PROVE Goal
    BY <1>4, <1>u DEF Unreadable, Unsubmitted, Types
  <1>5. ASSUME NEW w \in Workers, NEW taken \in BOOLEAN, NEW success \in BOOLEAN,
               Send(w, taken, success)
        PROVE  Goal
    <2> DEFINE j == worker[w].job
    <2>1. j \in Jobs /\ worker[w].step = "claimed" /\ job' = job
      BY <1>5, HolderType DEF Send
    <2>2. PICK step \in {"sent", "failed"} : worker' = [worker EXCEPT ![w].step = step]
      BY <1>5, Zenon DEF Send
    <2>3. history'[k].retries = history[k].retries
      BY <1>5 DEF Send, Types
    <2>4. CASE j = k
      <3>1. history'[k].submitted = history[k].submitted + 1
        BY <1>5, <2>1, <2>4 DEF Send, Types
      <3>2. Unsubmitted(k)' = Unsubmitted(k) \ {w} /\ w \in Unsubmitted(k)
        BY <2>1, <2>2, <2>4 DEF Unsubmitted, Types
      <3>3. Cardinality(Unsubmitted(k)') = Cardinality(Unsubmitted(k)) - 1
        BY <3>2, UnsubmittedFinite, FS_RemoveElement
      <3> QED
        BY <1>0, <2>1, <2>3, <3>1, <3>3 DEF Goal
    <2>5. CASE j # k
      <3>1. history'[k].submitted = history[k].submitted
        BY <1>5, <2>1, <2>5 DEF Send, Types
      <3>2. Unsubmitted(k)' = Unsubmitted(k)
        BY <2>1, <2>2, <2>5 DEF Unsubmitted, Types
      <3> QED
        BY <1>u, <2>1, <2>3, <3>1, <3>2
    <2> QED
      BY <2>4, <2>5
  <1>6. ASSUME NEW w \in Workers, MarkSent(w) PROVE Goal
    <2>1. job'[k].attempts = job[k].attempts /\ history' = history
      BY <1>6 DEF MarkSent, Types, TypeOK
    <2>2. Unsubmitted(k)' \subseteq Unsubmitted(k)
      BY <1>6 DEF MarkSent, Unsubmitted, Types, Idle
    <2> QED
      BY <1>u, <2>1, <2>2
  <1>7. ASSUME NEW w \in Workers, FailJob(w) PROVE Goal
    <2>1. job'[k].attempts = job[k].attempts /\ history' = history
      BY <1>7 DEF FailJob, Types, TypeOK
    <2>2. Unsubmitted(k)' \subseteq Unsubmitted(k)
      BY <1>7 DEF FailJob, Unsubmitted, Types, Idle
    <2> QED
      BY <1>u, <2>1, <2>2
  <1>8. ASSUME NEW w \in Workers, Crash(w) PROVE Goal
    <2>1. /\ history'[k].submitted = history[k].submitted
          /\ history'[k].retries = history[k].retries
          /\ job' = job
      BY <1>8 DEF Crash, Types
    <2>2. Unsubmitted(k)' \subseteq Unsubmitted(k)
      BY <1>8 DEF Crash, Unsubmitted, Types, Idle
    <2> QED
      BY <1>u, <2>1, <2>2
  <1>9. ASSUME NEW j \in Jobs, RetryMailJob(j) PROVE Goal
    <2>1. Unsubmitted(k)' = Unsubmitted(k) /\ history'[k].submitted = history[k].submitted
      BY <1>9 DEF RetryMailJob, Unsubmitted, Types
    <2>2. CASE j = k
      <3>1. job'[k].attempts = 0 /\ history'[k].retries = history[k].retries + 1
        BY <1>9, <2>2 DEF RetryMailJob, Types, TypeOK
      <3>2. MaxAttempts * (history[k].retries + 1) = MaxAttempts * history[k].retries + MaxAttempts
        BY <1>0
      <3> QED
        BY <1>0, <2>1, <3>1, <3>2 DEF Goal
    <2>3. CASE j # k
      BY <1>9, <1>u, <2>1, <2>3 DEF RetryMailJob, Types, TypeOK
    <2> QED
      BY <2>2, <2>3
  <1>10. ASSUME NEW j \in Jobs, CancelMailJob(j) PROVE Goal
    BY <1>10, <1>u DEF CancelMailJob, Unsubmitted, Types, TypeOK
  <1>11. ASSUME ReconcileMailJobs PROVE Goal
    <2>1. job'[k].attempts = job[k].attempts /\ worker' = worker /\ history' = history
      BY <1>11 DEF ReconcileMailJobs, Types, TypeOK
    <2>2. Unsubmitted(k)' \subseteq Unsubmitted(k)
      BY <2>1 DEF Unsubmitted
    <2> QED
      BY <1>u, <2>1, <2>2
  <1>12. ASSUME RetainMailJobs PROVE Goal
    <2>1. job'[k].attempts = job[k].attempts /\ worker' = worker /\ history' = history
      BY <1>12 DEF RetainMailJobs, Types, TypeOK
    <2>2. Unsubmitted(k)' \subseteq Unsubmitted(k)
      BY <2>1 DEF Unsubmitted
    <2> QED
      BY <1>u, <2>1, <2>2
  <1>13. ASSUME UNCHANGED vars PROVE Goal
    <2>1. job' = job /\ worker' = worker /\ history' = history
      BY <1>13 DEF vars
    <2>2. Unsubmitted(k)' \subseteq Unsubmitted(k)
      BY <2>1 DEF Unsubmitted
    <2> QED
      BY <1>u, <2>1, <2>2
  <1> QED
    BY <1>1, <1>2, <1>3, <1>4, <1>5, <1>6, <1>7, <1>8, <1>9, <1>10, <1>11, <1>12, <1>13
    DEF Next, Work, Goal

-----------------------------------------------------------------------------
LEMMA OutboxKept ==
  ASSUME IInv, [Next]_vars
  PROVE  IInv'
  BY TypesKept, AcceptedKept, FaultsKept, AttemptsKept DEF IInv

\* The invariant holds of every run of the outbox.
THEOREM OutboxInductive == Spec => []IInv
  BY InitInv, OutboxKept, PTL DEF Spec

LEMMA HonestOutbox ==
  ASSUME IInv
  PROVE  DeliveryHonest
  <1>1. TypeOK /\ SentWasAccepted
    BY DEF IInv, Types, Accepted
  <1>2. DuplicatesNeedAFault
    <2> SUFFICES ASSUME NEW j \in Jobs, ~history[j].faulted
                 PROVE  ~(history[j].accepted > 1 + history[j].retries)
      BY DEF DuplicatesNeedAFault
    <2>1. /\ history[j].accepted \in Nat
          /\ history[j].retries \in Nat
      BY DEF IInv, Types
    <2>2. history[j].accepted <= 1
      BY DEF IInv, FaultsExplain, Undisturbed
    <2> QED
      BY <2>1, <2>2
  <1>3. SubmissionsBounded
    <2> SUFFICES ASSUME NEW j \in Jobs
                 PROVE  history[j].submitted <= MaxAttempts * (1 + history[j].retries)
      BY DEF SubmissionsBounded
    <2>1. /\ history[j].submitted \in Nat /\ history[j].retries \in Nat
          /\ job[j].attempts \in 0 .. MaxAttempts /\ MaxAttempts \in Nat
      BY OutboxAssumption DEF IInv, Types, TypeOK
    <2>2. Cardinality(Unsubmitted(j)) \in Nat
      BY UnsubmittedFinite
    <2>3. history[j].submitted + Cardinality(Unsubmitted(j))
            <= job[j].attempts + MaxAttempts * history[j].retries
      BY DEF IInv, AttemptsCount
    <2>4. MaxAttempts * (1 + history[j].retries) = MaxAttempts + MaxAttempts * history[j].retries
          /\ MaxAttempts * history[j].retries \in Nat
      BY <2>1
    <2> QED
      BY <2>1, <2>2, <2>3, <2>4
  <1> QED
    BY <1>1, <1>2, <1>3 DEF DeliveryHonest
\* Whatever workers, crashes, lost leases and an administrator do: SENT means
\* that the server took the mail, a duplicate needs a fault, and a mail is not
\* submitted more often than its attempts, afresh for every retry.
THEOREM OutboxIsHonest == Spec => []DeliveryHonest
  BY OutboxInductive, HonestOutbox, PTL

-----------------------------------------------------------------------------
(* The traces.  Whoever takes a number holds the root's lock until it is    *)
(* committed, so that the numbers become visible in their order.           *)

Evidence == Trace!Events
Positive == Nat \ {0}

TraceTypes ==
  /\ root \in [row : {"none", "committed"}, lock : Writers \cup {Nobody}]
  /\ sequence \in 0 .. MaxSequence
  /\ stored \in [Evidence -> 0 .. sequence]
  /\ writer \in [Writers -> [event : Evidence \cup {0}, number : 0 .. sequence,
                             at : {"free", "adopt", "append", "commit"}]]
  /\ acknowledged \subseteq HALEvents
  /\ came \in BOOLEAN
  /\ traceReader \in [cursor : 0 .. sequence, shown : SUBSET Evidence, end : Nat,
                      verdict : {"PENDING", "OBSERVED", "NOT_OBSERVED"}]

\* What a writer has begun is an event; one that appends or commits has the lock.
Writes(w) ==
  /\ writer[w].at # "free" => writer[w].event \in Evidence
  /\ writer[w].at \in {"append", "commit"} => root.lock = w

\* The number that waits to be committed is beyond all that were.
NumberIsNext(w) ==
  writer[w].at = "commit" =>
    /\ writer[w].number > traceReader.cursor
    /\ \A e \in Evidence : writer[w].number > stored[e]

TraceInv ==
  /\ TraceTypes
  /\ \A w \in Writers : Writes(w) /\ NumberIsNext(w)
  /\ Trace!ReplayIsWhole /\ Trace!VerdictIsTrue /\ Trace!AcknowledgedIsStored

LEMMA Leastness ==
  ASSUME NEW S \in SUBSET Nat, S # {}
  PROVE  \E n \in S : \A m \in S : n <= m
  <1>1. PICK n \in S : \A m \in S : ~ (<<m, n>> \in OpToRel(<, Nat))
    BY NatLessThanWellFounded, WFMin, Zenon
  <1>2. \A m \in S : ~ (m < n)
    BY <1>1 DEF OpToRel
  <1> QED
    BY <1>2

LEMMA Greatest ==
  ASSUME NEW S \in SUBSET Nat, S # {}, NEW b \in Nat, \A m \in S : m <= b
  PROVE  /\ Trace!MaxOf(S) \in S
         /\ \A m \in S : m <= Trace!MaxOf(S)
  <1> DEFINE bounds == {n \in Nat : \A m \in S : m <= n}
             top == Trace!MaxOf(S)
  <1>1. PICK n \in bounds : \A m \in bounds : n <= m
    <2>1. b \in bounds /\ bounds \in SUBSET Nat
      OBVIOUS
    <2> HIDE DEF bounds
    <2> QED
      BY <2>1, Leastness
  <1>2. n \in S
    <2> SUFFICES ASSUME n \notin S
                 PROVE  FALSE
      OBVIOUS
    <2>1. \A m \in S : m <= n - 1
      OBVIOUS
    <2>2. n - 1 \in Nat
      <3>1. PICK m \in S : TRUE
        OBVIOUS
      <3>2. m \in Nat /\ n \in Nat /\ m <= n - 1
        BY <2>1, <3>1
      <3> QED
        BY <3>2
    <2> QED
      BY <1>1, <2>1, <2>2
  <1>3. \E x \in S \cup {0} : \A y \in S : y <= x
    BY <1>1, <1>2
  <1>4. top \in S \cup {0} /\ \A y \in S : y <= top
    BY <1>3, Zenon DEF Trace!MaxOf
  <1> HIDE DEF top
  <1>5. top = n
    <2>1. n \in Nat /\ top \in Nat /\ n <= top
      BY <1>2, <1>4
    <2>2. top <= n
      BY <1>1, <1>4, <2>1
    <2> QED
      BY <2>1, <2>2
  <1> QED
    BY <1>2, <1>4, <1>5 DEF top

\* A page is closed: whatever comes before one of its events is on it, too.
LEMMA FewerBefore ==
  ASSUME NEW S \in SUBSET Evidence, NEW T \in SUBSET S,
         Trace!Cardinality(S) < PageSize
  PROVE  Trace!Cardinality(T) < PageSize
  <1>1. IsFiniteSet(S)
    BY TraceAssumption, FS_Subset DEF Evidence, Trace!Events
  <1>2. /\ Cardinality(T) <= Cardinality(S)
        /\ Cardinality(T) \in Nat /\ Cardinality(S) \in Nat
    BY <1>1, FS_Subset, FS_CardinalityType
  <1>3. Trace!Cardinality(S) = Cardinality(S) /\ Trace!Cardinality(T) = Cardinality(T)
    BY DEF Trace!Cardinality, Cardinality
  <1> QED
    BY <1>2, <1>3, TraceAssumption

\* The numbers of some events, and the greatest of them
LEMMA GreatestNumber ==
  ASSUME TraceTypes, NEW S \in SUBSET Evidence, S # {}
  PROVE  /\ Trace!MaxOf({stored[e] : e \in S}) \in 0 .. sequence
         /\ \E e \in S : stored[e] = Trace!MaxOf({stored[f] : f \in S})
         /\ \A e \in S : stored[e] <= Trace!MaxOf({stored[f] : f \in S})
  <1> DEFINE N == {stored[e] : e \in S}
  <1>1. /\ N \in SUBSET Nat /\ N # {} /\ sequence \in Nat
        /\ \A m \in N : m <= sequence
    BY DEF TraceTypes
  <1>2. N \in SUBSET (0 .. sequence)
    BY DEF TraceTypes
  <1>3. Trace!MaxOf(N) \in N /\ \A m \in N : m <= Trace!MaxOf(N)
    <2> HIDE DEF N
    <2> QED
      BY <1>1, Greatest
  <1> QED
    BY <1>2, <1>3

LEMMA TraceStarts ==
  ASSUME Trace!TraceInit
  PROVE  TraceInv
  <1>1. /\ root = [row |-> "none", lock |-> Nobody] /\ sequence = 0
        /\ stored = [e \in Evidence |-> 0] /\ writer = [w \in Writers |-> Trace!Free]
        /\ acknowledged = {} /\ came \in BOOLEAN
        /\ traceReader = [cursor |-> 0, shown |-> {}, end |-> 0, verdict |-> "PENDING"]
    BY DEF Trace!TraceInit, Evidence
  <1>2. TraceTypes
    BY <1>1, TraceAssumption DEF TraceTypes, Trace!Free
  <1>3. \A w \in Writers : Writes(w) /\ NumberIsNext(w)
    BY <1>1 DEF Writes, NumberIsNext, Trace!Free
  <1> QED
    BY <1>1, <1>2, <1>3 DEF TraceInv, Trace!ReplayIsWhole, Trace!VerdictIsTrue, Trace!AcknowledgedIsStored

\* One writer moves on, and nothing is stored or shown.
WriterMoves(w, q) ==
  /\ writer' = [writer EXCEPT ![w] = q]
  /\ UNCHANGED <<stored, acknowledged, came, traceReader>>

LEMMA WriterMoved ==
  ASSUME TraceInv, NEW w \in Writers, NEW q, WriterMoves(w, q), TraceTypes',
         sequence <= sequence',
         \A v \in Writers \ {w} : writer[v].at \in {"append", "commit"} => root'.lock = root.lock,
         q.at # "free" => q.event \in Evidence,
         q.at \in {"append", "commit"} => root'.lock = w,
         q.at = "commit" => q.number = sequence + 1
  PROVE  TraceInv'
  <1>1. writer'[w] = q /\ \A v \in Writers \ {w} : writer'[v] = writer[v]
    BY DEF TraceInv, TraceTypes, WriterMoves
  <1>2. stored' = stored /\ traceReader' = traceReader /\ acknowledged' = acknowledged /\ came' = came
    BY DEF WriterMoves
  <1>3. /\ traceReader.cursor \in 0 .. sequence /\ sequence \in Nat
        /\ \A e \in Evidence : stored[e] \in 0 .. sequence
    BY TraceAssumption DEF TraceInv, TraceTypes
  <1>4. Writes(w)' /\ NumberIsNext(w)'
    BY <1>1, <1>2, <1>3 DEF Writes, NumberIsNext
  <1>5. ASSUME NEW v \in Writers \ {w}
        PROVE  Writes(v)' /\ NumberIsNext(v)'
    BY <1>1, <1>2 DEF TraceInv, Writes, NumberIsNext
  <1>6. \A v \in Writers : Writes(v)' /\ NumberIsNext(v)'
    BY <1>4, <1>5
  <1>7. Trace!ReplayIsWhole' /\ Trace!VerdictIsTrue' /\ Trace!AcknowledgedIsStored'
    BY <1>2 DEF TraceInv, Trace!ReplayIsWhole, Trace!VerdictIsTrue, Trace!AcknowledgedIsStored, Trace!IsStored
  <1> QED
    BY <1>6, <1>7 DEF TraceInv

LEMMA TraceReplays ==
  ASSUME TraceInv, NEW e \in Evidence, Trace!Replay(e)
  PROVE  TraceInv'
  <1>1. /\ e \in HALEvents /\ Trace!IsStored(e) /\ acknowledged' = acknowledged \cup {e}
        /\ UNCHANGED <<root, stored, sequence, writer, came, traceReader>>
    BY DEF Trace!Replay
  <1>2. TraceTypes'
    BY <1>1 DEF TraceInv, TraceTypes
  <1>3. \A w \in Writers : Writes(w)' /\ NumberIsNext(w)'
    BY <1>1 DEF TraceInv, Writes, NumberIsNext
  <1> QED
    BY <1>1, <1>2, <1>3
       DEF TraceInv, Trace!ReplayIsWhole, Trace!VerdictIsTrue, Trace!AcknowledgedIsStored, Trace!IsStored

LEMMA WriteBegins ==
  ASSUME TraceInv, NEW w \in Writers, NEW e \in Evidence, Trace!BeginWrite(w, e)
  PROVE  TraceInv'
  <1> DEFINE q == [event |-> e, at |-> "adopt", number |-> 0]
  <1>1. /\ WriterMoves(w, q) /\ UNCHANGED <<root, sequence>>
    BY DEF Trace!BeginWrite, WriterMoves
  <1>2. q.at = "adopt" /\ q.event = e
    OBVIOUS
  <1>3. TraceTypes'
    BY <1>1, TraceAssumption DEF WriterMoves, TraceInv, TraceTypes
  <1>4. sequence \in Nat
    BY TraceAssumption DEF TraceInv, TraceTypes
  <1> HIDE DEF q
  <1> QED
    BY <1>1, <1>2, <1>3, <1>4, WriterMoved

LEMMA RootAdopted ==
  ASSUME TraceInv, NEW w \in Writers, Trace!AdoptRoot(w)
  PROVE  TraceInv'
  <1> DEFINE q == [writer[w] EXCEPT !.at = "append"]
  <1>1. /\ writer[w].at = "adopt" /\ root.lock = Nobody /\ root' = [root EXCEPT !.lock = w]
        /\ writer' = [writer EXCEPT ![w] = q]
        /\ UNCHANGED <<stored, sequence, acknowledged, came, traceReader>>
    BY DEF Trace!AdoptRoot, TraceInv, TraceTypes
  <1>2. /\ q.at = "append" /\ q.event = writer[w].event /\ q.event \in Evidence
        /\ q.number \in 0 .. sequence /\ q \in [event : Evidence \cup {0}, number : 0 .. sequence,
                                                at : {"free", "adopt", "append", "commit"}]
    BY <1>1 DEF TraceInv, TraceTypes, Writes
  <1> HIDE DEF q
  <1>3. TraceTypes'
    BY <1>1, <1>2 DEF TraceInv, TraceTypes
  <1>4. root'.lock = w /\ \A v \in Writers : ~ (writer[v].at \in {"append", "commit"})
    BY <1>1, TraceAssumption DEF TraceInv, TraceTypes, Writes
  <1>5. WriterMoves(w, q) /\ sequence \in Nat
    BY <1>1, TraceAssumption DEF WriterMoves, TraceInv, TraceTypes
  <1> QED
    BY <1>1, <1>2, <1>3, <1>4, <1>5, WriterMoved

LEMMA RootContradicts ==
  ASSUME TraceInv, NEW w \in Writers, Trace!RootConflict(w)
  PROVE  TraceInv'
  <1> DEFINE q == Trace!Free
  <1>1. WriterMoves(w, q) /\ UNCHANGED <<root, sequence>>
    BY DEF Trace!RootConflict, WriterMoves
  <1>2. q.at = "free" /\ q.event = 0 /\ q.number = 0
    BY DEF Trace!Free
  <1>3. TraceTypes' /\ sequence \in Nat
    BY <1>1, TraceAssumption DEF WriterMoves, TraceInv, TraceTypes, Trace!Free
  <1> HIDE DEF q
  <1> QED
    BY <1>1, <1>2, <1>3, WriterMoved

LEMMA EventAppended ==
  ASSUME TraceInv, NEW w \in Writers, Trace!AppendEvent(w)
  PROVE  TraceInv'
  <1> DEFINE n == sequence + 1
             q == [writer[w] EXCEPT !.at = "commit", !.number = n]
  <1>1. /\ writer[w].at = "append" /\ sequence < MaxSequence /\ sequence' = n
        /\ writer' = [writer EXCEPT ![w] = q]
        /\ UNCHANGED <<root, stored, acknowledged, came, traceReader>>
    BY DEF Trace!AppendEvent, TraceInv, TraceTypes
  <1>2. sequence \in Nat /\ n \in 0 .. MaxSequence /\ MaxSequence \in Nat
    BY <1>1, TraceAssumption DEF TraceInv, TraceTypes
  <1>3. /\ q.at = "commit" /\ q.event = writer[w].event /\ q.event \in Evidence
        /\ q.number = n /\ q \in [event : Evidence \cup {0}, number : 0 .. n,
                                  at : {"free", "adopt", "append", "commit"}]
        /\ root.lock = w
    <2>1. /\ writer[w] \in [event : Evidence \cup {0}, number : 0 .. sequence,
                            at : {"free", "adopt", "append", "commit"}]
          /\ writer[w].event \in Evidence /\ root.lock = w
      BY <1>1 DEF TraceInv, TraceTypes, Writes
    <2>2. n \in 0 .. n
      BY <1>2
    <2> HIDE DEF n
    <2> QED
      BY <2>1, <2>2
  <1>4. /\ stored \in [Evidence -> 0 .. n] /\ traceReader.cursor \in 0 .. n
        /\ writer \in [Writers -> [event : Evidence \cup {0}, number : 0 .. n,
                                   at : {"free", "adopt", "append", "commit"}]]
    BY <1>2 DEF TraceInv, TraceTypes
  <1> HIDE DEF q
  <1>5. TraceTypes'
    BY <1>1, <1>2, <1>3, <1>4 DEF TraceInv, TraceTypes
  <1>6. WriterMoves(w, q) /\ root' = root
    BY <1>1 DEF WriterMoves
  <1> QED
    BY <1>1, <1>2, <1>3, <1>5, <1>6, WriterMoved

LEMMA WriteRolledBack ==
  ASSUME TraceInv, NEW w \in Writers, Trace!RollBack(w)
  PROVE  TraceInv'
  <1> DEFINE q == Trace!Free
  <1>1. /\ writer[w].at \in {"append", "commit"} /\ root' = Trace!Release(w)
        /\ WriterMoves(w, q) /\ UNCHANGED sequence
    BY DEF Trace!RollBack, WriterMoves
  <1>2. root.lock = w /\ \A v \in Writers \ {w} : ~ (writer[v].at \in {"append", "commit"})
    BY <1>1 DEF TraceInv, Writes
  <1>3. q.at = "free" /\ q.event = 0 /\ q.number = 0
    BY DEF Trace!Free
  <1>4. TraceTypes' /\ sequence \in Nat
    BY <1>1, TraceAssumption
       DEF WriterMoves, TraceInv, TraceTypes, Trace!Free, Trace!Release, Trace!Holds
  <1> HIDE DEF q
  <1> QED
    BY <1>1, <1>2, <1>3, <1>4, WriterMoved

LEMMA EventCommitted ==
  ASSUME TraceInv, NEW w \in Writers, Trace!CommitEvent(w)
  PROVE  TraceInv'
  <1> DEFINE c == writer[w].event
             n == writer[w].number
  <1>1. /\ writer[w].at = "commit" /\ stored' = [stored EXCEPT ![c] = n]
        /\ root' = [Trace!Release(w) EXCEPT !.row = "committed"]
        /\ acknowledged' = IF c \in HALEvents THEN acknowledged \cup {c} ELSE acknowledged
        /\ writer' = [writer EXCEPT ![w] = Trace!Free]
        /\ UNCHANGED <<sequence, came, traceReader>>
    BY DEF Trace!CommitEvent
  <1>2. /\ root.lock = w /\ c \in Evidence /\ n \in 0 .. sequence /\ n > traceReader.cursor
        /\ sequence \in Nat /\ traceReader.cursor \in 0 .. sequence
        /\ \A v \in Writers \ {w} : ~ (writer[v].at \in {"append", "commit"})
    BY <1>1, TraceAssumption DEF TraceInv, TraceTypes, Writes, NumberIsNext
  <1>3. n > 0 /\ stored'[c] = n /\ \A e \in Evidence \ {c} : stored'[e] = stored[e]
    BY <1>1, <1>2 DEF TraceInv, TraceTypes
  <1>4. TraceTypes'
    <2>1. stored' \in [Evidence -> 0 .. sequence]
      BY <1>1, <1>2 DEF TraceInv, TraceTypes
    <2>2. root' \in [row : {"none", "committed"}, lock : Writers \cup {Nobody}]
      BY <1>1 DEF TraceInv, TraceTypes, Trace!Release
    <2>3. acknowledged' \subseteq HALEvents
      BY <1>1 DEF TraceInv, TraceTypes
    <2>4. writer' \in [Writers -> [event : Evidence \cup {0}, number : 0 .. sequence,
                                  at : {"free", "adopt", "append", "commit"}]]
      BY <1>1, <1>2 DEF TraceInv, TraceTypes, Trace!Free
    <2> QED
      BY <1>1, <2>1, <2>2, <2>3, <2>4 DEF TraceInv, TraceTypes
  <1>5. writer'[w].at = "free" /\ \A v \in Writers \ {w} : writer'[v] = writer[v]
    BY <1>1 DEF TraceInv, TraceTypes, Trace!Free
  <1>6. \A v \in Writers : Writes(v)' /\ NumberIsNext(v)'
    BY <1>1, <1>2, <1>5 DEF TraceInv, Writes, NumberIsNext
  <1>7. Trace!ReplayIsWhole'
    <2>1. ASSUME NEW e \in Evidence, stored'[e] > 0, stored'[e] <= traceReader.cursor
          PROVE  stored[e] > 0 /\ stored[e] <= traceReader.cursor
      BY <1>2, <1>3, <2>1
    <2>2. traceReader' = traceReader
      BY <1>1
    <2> QED
      BY <2>1, <2>2 DEF TraceInv, Trace!ReplayIsWhole, Trace!IsStored, Evidence
  <1>8. Trace!VerdictIsTrue'
    BY <1>1 DEF TraceInv, Trace!VerdictIsTrue
  <1>9. Trace!AcknowledgedIsStored'
    <2>1. ASSUME NEW e \in acknowledged'
          PROVE  stored'[e] > 0
      <3>1. CASE e = c
        BY <1>3, <3>1
      <3>2. CASE e # c
        <4>1. e \in acknowledged /\ e \in Evidence
          BY <1>1, <2>1, <3>2 DEF TraceInv, TraceTypes, Evidence, Trace!Events
        <4> QED
          BY <1>3, <3>2, <4>1 DEF TraceInv, Trace!AcknowledgedIsStored, Trace!IsStored
      <3> QED
        BY <3>1, <3>2
    <2> QED
      BY <2>1 DEF Trace!AcknowledgedIsStored, Trace!IsStored
  <1> QED
    BY <1>4, <1>6, <1>7, <1>8, <1>9 DEF TraceInv

\* What a reader is shown next
LEMMA ShownMore ==
  ASSUME TraceInv, UNCHANGED <<root, stored, sequence, writer, acknowledged, came>>,
         traceReader' \in [cursor : 0 .. sequence, shown : SUBSET Evidence, end : Nat,
                           verdict : {"PENDING", "OBSERVED", "NOT_OBSERVED"}],
         \E e \in Evidence : traceReader'.cursor <= stored[e],
         traceReader'.verdict = traceReader.verdict, Trace!ReplayIsWhole'
  PROVE  TraceInv'
  <1>1. TraceTypes'
    BY DEF TraceInv, TraceTypes
  <1>2. ASSUME NEW w \in Writers, writer[w].at = "commit"
        PROVE  writer[w].number > traceReader'.cursor
    <2>1. PICK e \in Evidence : traceReader'.cursor <= stored[e]
      OBVIOUS
    <2>2. writer[w].number > stored[e]
      BY <1>2 DEF TraceInv, NumberIsNext
    <2>3. /\ stored[e] \in 0 .. sequence /\ sequence \in Nat
          /\ writer[w].number \in 0 .. sequence /\ traceReader'.cursor \in 0 .. sequence
      BY TraceAssumption DEF TraceInv, TraceTypes
    <2> QED
      BY <2>1, <2>2, <2>3
  <1>3. \A w \in Writers : Writes(w)' /\ NumberIsNext(w)'
    BY <1>2 DEF TraceInv, Writes, NumberIsNext
  <1>4. Trace!VerdictIsTrue' /\ Trace!AcknowledgedIsStored'
    BY DEF TraceInv, Trace!VerdictIsTrue, Trace!AcknowledgedIsStored, Trace!IsStored
  <1> QED
    BY <1>1, <1>3, <1>4 DEF TraceInv

LEMMA TraceOpens ==
  ASSUME TraceInv, Trace!OpenTrace
  PROVE  TraceInv'
  <1> DEFINE page == Trace!NewestEvents
             first == CHOOSE e \in page : \A f \in page : e <= f
             top == Trace!MaxOf({stored[e] : e \in page})
  <1>1. /\ page # {} /\ UNCHANGED <<root, stored, sequence, writer, acknowledged, came>>
        /\ traceReader' = [traceReader EXCEPT !.shown = page, !.end = first, !.cursor = top]
    BY DEF Trace!OpenTrace
  <1>2. page \in SUBSET Evidence /\ Evidence \in SUBSET Nat
    BY TraceAssumption DEF Trace!NewestEvents, Evidence, Trace!Events
  <1>3. first \in page /\ \A f \in page : first <= f
    <2>1. \E e \in page : \A f \in page : e <= f
      <3> HIDE DEF page
      <3> QED
        BY <1>1, <1>2, Leastness
    <2> HIDE DEF page
    <2> QED
      BY <2>1, Zenon
  <1>4. /\ top \in 0 .. sequence /\ \E e \in page : stored[e] = top
        /\ \A e \in page : stored[e] <= top
    <2> HIDE DEF page
    <2> QED
      BY <1>1, <1>2, GreatestNumber DEF TraceInv
  <1>5. ASSUME NEW e \in Evidence, stored[e] > 0, e >= first
        PROVE  e \in page
    <2> DEFINE S == {f \in Evidence : Trace!IsStored(f) /\ f > first}
               T == {f \in Evidence : Trace!IsStored(f) /\ f > e}
    <2>1. Trace!Cardinality(S) < PageSize
      BY <1>3, Zenon DEF Trace!NewestEvents, Evidence
    <2>2. T \in SUBSET S /\ S \in SUBSET Evidence
      <3>1. e \in Nat /\ first \in Nat /\ first <= e /\ \A f \in Evidence : f \in Nat
        BY <1>2, <1>3, <1>5
      <3> HIDE DEF first
      <3>2. \A f \in Evidence : f > e => f > first
        BY <3>1
      <3> QED
        BY <3>2
    <2> HIDE DEF S, T
    <2>3. Trace!Cardinality(T) < PageSize
      BY <2>1, <2>2, FewerBefore
    <2> QED
      BY <1>5, <2>3, Zenon DEF T, Trace!NewestEvents, Evidence, Trace!IsStored
  <1> HIDE DEF page, first, top
  <1>6. /\ traceReader' \in [cursor : 0 .. sequence, shown : SUBSET Evidence, end : Nat,
                             verdict : {"PENDING", "OBSERVED", "NOT_OBSERVED"}]
        /\ traceReader'.shown = page /\ traceReader'.end = first /\ traceReader'.cursor = top
        /\ traceReader'.verdict = traceReader.verdict
    BY <1>1, <1>2, <1>3, <1>4 DEF TraceInv, TraceTypes
  <1>7. Trace!ReplayIsWhole'
    <2>1. \A e \in Evidence : e \in Nat /\ first \in Nat
      BY <1>2, <1>3
    <2>2. ASSUME NEW e \in Evidence, stored[e] > 0
          PROVE  e \in page \/ e < first
      BY <1>5, <2>1, <2>2
    <2> QED
      BY <1>1, <1>6, <2>2 DEF Trace!ReplayIsWhole, Trace!IsStored, Evidence
  <1>8. \E e \in Evidence : traceReader'.cursor <= stored[e]
    <2>1. PICK e \in page : stored[e] = top
      BY <1>4
    <2>2. top <= top
      BY <1>4
    <2> QED
      BY <1>2, <1>6, <2>1, <2>2
  <1> QED
    BY <1>1, <1>6, <1>7, <1>8, ShownMore

LEMMA ReplayFollows ==
  ASSUME TraceInv, Trace!ListReplay
  PROVE  TraceInv'
  <1> DEFINE page == Trace!NextEvents
             top == Trace!MaxOf({stored[e] : e \in page})
  <1>1. /\ page # {} /\ UNCHANGED <<root, stored, sequence, writer, acknowledged, came>>
        /\ traceReader.shown # {}
        /\ traceReader' = [traceReader EXCEPT !.shown = traceReader.shown \cup page, !.cursor = top]
    BY DEF Trace!ListReplay
  <1>2. page \in SUBSET Evidence
    BY DEF Trace!NextEvents, Evidence
  <1>3. /\ top \in 0 .. sequence /\ \E e \in page : stored[e] = top
        /\ \A e \in page : stored[e] <= top
    <2> HIDE DEF page
    <2> QED
      BY <1>1, <1>2, GreatestNumber DEF TraceInv
  <1>4. \A e \in Evidence : stored[e] \in Nat
    BY TraceAssumption DEF TraceInv, TraceTypes
  <1>5. ASSUME NEW e \in Evidence, stored[e] > traceReader.cursor, stored[e] <= top
        PROVE  e \in page
    <2>1. PICK g \in page : stored[g] = top
      BY <1>3
    <2> DEFINE S == {f \in Evidence : Trace!Following(f) /\ stored[f] < stored[g]}
               T == {f \in Evidence : Trace!Following(f) /\ stored[f] < stored[e]}
    <2>2. Trace!Cardinality(S) < PageSize
      BY <2>1, Zenon DEF Trace!NextEvents, Evidence
    <2>3. T \in SUBSET S /\ S \in SUBSET Evidence
      BY <1>2, <1>3, <1>4, <1>5, <2>1
    <2> HIDE DEF S, T
    <2>4. Trace!Cardinality(T) < PageSize
      BY <2>2, <2>3, FewerBefore
    <2> QED
      BY <1>5, <2>4, Zenon DEF T, Trace!NextEvents, Evidence, Trace!Following
  <1> HIDE DEF page, top
  <1>6. /\ traceReader' \in [cursor : 0 .. sequence, shown : SUBSET Evidence, end : Nat,
                             verdict : {"PENDING", "OBSERVED", "NOT_OBSERVED"}]
        /\ traceReader'.shown = traceReader.shown \cup page
        /\ traceReader'.end = traceReader.end /\ traceReader'.cursor = top
        /\ traceReader'.verdict = traceReader.verdict
    BY <1>1, <1>2, <1>3 DEF TraceInv, TraceTypes
  <1>7. Trace!ReplayIsWhole'
    <2>1. ASSUME NEW e \in Evidence, stored[e] > 0, stored[e] <= top
          PROVE  e \in traceReader.shown \cup page \/ e < traceReader.end
      <3>1. CASE stored[e] <= traceReader.cursor
        BY <1>1, <2>1, <3>1 DEF TraceInv, Trace!ReplayIsWhole, Trace!IsStored, Evidence
      <3>2. CASE stored[e] > traceReader.cursor
        BY <1>5, <2>1, <3>2
      <3>3. traceReader.cursor \in Nat /\ stored[e] \in Nat
        BY <1>4, TraceAssumption DEF TraceInv, TraceTypes
      <3> QED
        BY <3>1, <3>2, <3>3
    <2> QED
      BY <1>1, <1>6, <2>1 DEF Trace!ReplayIsWhole, Trace!IsStored, Evidence
  <1>8. \E e \in Evidence : traceReader'.cursor <= stored[e]
    <2>1. PICK e \in page : stored[e] = top
      BY <1>3
    <2>2. top <= top
      BY <1>3
    <2> QED
      BY <1>2, <1>6, <2>1, <2>2
  <1> QED
    BY <1>1, <1>6, <1>7, <1>8, ShownMore

LEMMA VerdictTold ==
  ASSUME TraceInv, Trace!GetExchanges
  PROVE  TraceInv'
  <1> DEFINE v == Trace!Classify
  <1>1. /\ traceReader' = [traceReader EXCEPT !.verdict = v]
        /\ UNCHANGED <<root, stored, sequence, writer, acknowledged, came>>
    BY DEF Trace!GetExchanges
  <1>2. /\ v \in {"PENDING", "OBSERVED", "NOT_OBSERVED"}
        /\ v = "OBSERVED" => came
        /\ v = "NOT_OBSERVED" => ~came
    BY DEF Trace!Classify
  <1> HIDE DEF v
  <1>3. /\ traceReader'.shown = traceReader.shown /\ traceReader'.end = traceReader.end
        /\ traceReader'.cursor = traceReader.cursor /\ traceReader'.verdict = v
        /\ TraceTypes'
    BY <1>1, <1>2 DEF TraceInv, TraceTypes
  <1>4. \A w \in Writers : Writes(w)' /\ NumberIsNext(w)'
    BY <1>1, <1>3 DEF TraceInv, Writes, NumberIsNext
  <1>5. Trace!ReplayIsWhole' /\ Trace!AcknowledgedIsStored'
    BY <1>1, <1>3 DEF TraceInv, Trace!ReplayIsWhole, Trace!AcknowledgedIsStored, Trace!IsStored
  <1>6. Trace!VerdictIsTrue'
    BY <1>1, <1>2, <1>3 DEF Trace!VerdictIsTrue
  <1> QED
    BY <1>3, <1>4, <1>5, <1>6 DEF TraceInv

LEMMA TraceInvStays ==
  ASSUME TraceInv, [Trace!TraceNext]_evidenceVars
  PROVE  TraceInv'
  <1>1. CASE UNCHANGED evidenceVars
    BY <1>1 DEF evidenceVars, TraceInv, TraceTypes, Writes, NumberIsNext, Trace!ReplayIsWhole, Trace!VerdictIsTrue, Trace!AcknowledgedIsStored, Trace!IsStored
  <1> QED
    BY <1>1, TraceReplays, WriteBegins, RootAdopted, RootContradicts, EventAppended,
       EventCommitted, WriteRolledBack, TraceOpens, ReplayFollows, VerdictTold
       DEF Trace!TraceNext, Evidence

LEMMA EvidenceHolds ==
  ASSUME TraceInv
  PROVE  EvidenceIsWhole
  <1>1. Trace!TypeOK
    BY TraceAssumption DEF TraceInv, TraceTypes, Trace!TypeOK, Evidence
  <1> QED
    BY <1>1 DEF TraceInv, EvidenceIsWhole, Trace!EvidenceIsWhole

-----------------------------------------------------------------------------
(* The lists.  A cursor is a place in the list's order, which is total:    *)
(* what stays in the list is shown once it is before the cursor, and       *)
(* continues after it until then.                                          *)

SortKeys == Keys \cup {Null}
Comes(k, a, l, b) ==
  IF k = l THEN Lists!Beyond(b, a) ELSE k # Null /\ (l = Null \/ Lists!Beyond(l, k))

LEMMA ComesIsTotal ==
  ASSUME NEW k \in SortKeys, NEW l \in SortKeys, NEW a \in RowIds, NEW b \in RowIds
  PROVE  /\ ~Comes(k, a, k, a)
         /\ (k = l /\ a = b) \/ Comes(k, a, l, b) \/ Comes(l, b, k, a)
         /\ ~ (Comes(k, a, l, b) /\ Comes(l, b, k, a))
  <1>1. /\ a \in Int /\ b \in Int
        /\ k = Null \/ (k \in Int /\ k # Null)
        /\ l = Null \/ (l \in Int /\ l # Null)
    BY ListAssumption DEF SortKeys
  <1>2. CASE list.order = "ASC"
    BY <1>1, <1>2 DEF Comes, Lists!Beyond
  <1>3. CASE list.order # "ASC"
    BY <1>1, <1>3 DEF Comes, Lists!Beyond
  <1> QED
    BY <1>2, <1>3

LEMMA ComesIsTransitive ==
  ASSUME NEW k \in SortKeys, NEW l \in SortKeys, NEW m \in SortKeys,
         NEW a \in RowIds, NEW b \in RowIds, NEW c \in RowIds,
         Comes(k, a, l, b), Comes(l, b, m, c)
  PROVE  Comes(k, a, m, c)
  <1>1. /\ a \in Int /\ b \in Int /\ c \in Int
        /\ k = Null \/ (k \in Int /\ k # Null)
        /\ l = Null \/ (l \in Int /\ l # Null)
        /\ m = Null \/ (m \in Int /\ m # Null)
    BY ListAssumption DEF SortKeys
  <1>2. CASE list.order = "ASC"
    BY <1>1, <1>2 DEF Comes, Lists!Beyond
  <1>3. CASE list.order # "ASC"
    BY <1>1, <1>3 DEF Comes, Lists!Beyond
  <1> QED
    BY <1>2, <1>3

ListRows == [key : Lists!KeysOf(list), listed : BOOLEAN]
ListTypes ==
  /\ list \in Lists!Lists
  /\ rows \in [RowIds -> {Absent} \cup ListRows]
  /\ reader \in [at : {"start", "next", "again", "end"},
                 cursor : [id : RowIds \cup {Null}, key : Lists!KeysOf(list) \cup {Null}],
                 shown : Seq(SUBSET RowIds), steady : SUBSET RowIds]

InShown(r, pages) == \E p \in 1 .. Len(pages) : r \in pages[p]

\* Where the reader is says what it was shown.
Place ==
  /\ reader.at = "start" => reader.shown = <<>> /\ reader.steady = {}
  /\ reader.at \in {"next", "again"} =>
       /\ reader.cursor.id \in RowIds /\ Lists!Exists(reader.cursor.id)
       /\ \A r \in reader.steady :
            InShown(r, reader.shown) <=> ~Lists!Continues(reader.cursor, r)
  /\ reader.at = "end" => \A r \in reader.steady : InShown(r, reader.shown)

InOrder(pages) ==
  \A p, q \in 1 .. Len(pages) : p < q =>
    \A r \in pages[p], s \in pages[q] : Lists!Precedes(r, s)

ListInv ==
  /\ ListTypes /\ Place /\ InOrder(reader.shown)
  /\ \A r \in reader.steady : Lists!Listed(r)
  /\ \A p \in 1 .. Len(reader.shown) : reader.shown[p] \subseteq reader.steady

LEMMA RowKeys ==
  ASSUME ListTypes, NEW r \in RowIds, Lists!Exists(r)
  PROVE  rows[r] \in ListRows /\ rows[r].key \in SortKeys
  <1>1. rows[r] \in ListRows
    BY DEF ListTypes, Lists!Exists
  <1> QED
    BY <1>1 DEF ListRows, SortKeys, Lists!KeysOf

LEMMA CursorKeys ==
  ASSUME ListTypes
  PROVE  reader.cursor.key \in SortKeys
  BY DEF ListTypes, SortKeys, Lists!KeysOf

\* ORDER BY and WHERE are the same order.
LEMMA OrderedRows ==
  ASSUME NEW r, NEW s
  PROVE  Lists!Precedes(r, s) = Comes(rows[r].key, r, rows[s].key, s)
  BY DEF Lists!Precedes, Comes

LEMMA ContinuedRows ==
  ASSUME ListTypes, NEW c, c.key \in SortKeys, c.id \in RowIds,
         NEW r \in RowIds, Lists!Exists(r)
  PROVE  Lists!Continues(c, r) <=> Comes(c.key, c.id, rows[r].key, r)
  <1> DEFINE k == rows[r].key
             l == c.key
  <1>1. k \in SortKeys /\ l \in SortKeys
    BY RowKeys
  <1>2. /\ k = Null \/ (k \in Int /\ k # Null)
        /\ l = Null \/ (l \in Int /\ l # Null)
    BY <1>1, ListAssumption DEF SortKeys
  <1>3. Lists!Continues(c, r) <=> IF l = Null THEN k = Null /\ Lists!Beyond(r, c.id)
                                  ELSE k = Null \/ Lists!Beyond(k, l)
                                         \/ (k = l /\ Lists!Beyond(r, c.id))
    BY DEF Lists!Continues
  <1>4. k = l /\ l # Null => ~Lists!Beyond(k, l)
    BY <1>2 DEF Lists!Beyond
  <1> HIDE DEF k, l
  <1>5. CASE l = Null
    BY <1>3, <1>4, <1>5 DEF Comes, k, l
  <1>6. CASE l # Null /\ k = l
    BY <1>3, <1>4, <1>6 DEF Comes, k, l
  <1>7. CASE l # Null /\ k # l
    BY <1>3, <1>7 DEF Comes, k, l
  <1> QED
    BY <1>5, <1>6, <1>7

LEMMA FoundRows ==
  ASSUME ListTypes
  PROVE  /\ Lists!Found \in SUBSET RowIds /\ IsFiniteSet(Lists!Found)
         /\ \A r \in Lists!Found : Lists!Exists(r)
  <1>1. Lists!Found \in SUBSET RowIds
    BY DEF Lists!Found
  <1> QED
    BY <1>1, ListAssumption, FS_Subset DEF Lists!Found, Lists!FromCursor, Lists!Queried, Lists!Listed

\* How many rows a page has to hold to reach r
Ahead(r) == {s \in Lists!Found : Lists!Precedes(s, r)}
Rank(r) == Cardinality(Ahead(r))

LEMMA PageByRank ==
  Lists!Page = {r \in Lists!Found : Rank(r) < Limit}
  BY DEF Lists!Page, Rank, Ahead, Lists!Cardinality, Cardinality

LEMMA RankGrows ==
  ASSUME ListTypes, NEW r \in Lists!Found, NEW s \in Lists!Found, Lists!Precedes(r, s)
  PROVE  /\ Rank(r) \in Nat /\ Rank(s) \in Nat /\ Rank(r) < Rank(s)
  <1>1. /\ Lists!Found \in SUBSET RowIds /\ IsFiniteSet(Lists!Found)
        /\ \A t \in Lists!Found : t \in RowIds /\ rows[t].key \in SortKeys
    BY FoundRows, RowKeys
  <1>2. IsFiniteSet(Ahead(s)) /\ IsFiniteSet(Ahead(r))
    <2>1. Ahead(s) \in SUBSET Lists!Found /\ Ahead(r) \in SUBSET Lists!Found
      BY DEF Ahead
    <2> QED
      BY <1>1, <2>1, FS_Subset
  <1>3. Ahead(r) \in SUBSET Ahead(s)
    <2>1. ASSUME NEW t \in Lists!Found, Lists!Precedes(t, r)
          PROVE  Lists!Precedes(t, s)
      BY <1>1, <2>1, OrderedRows, ComesIsTransitive
    <2> QED
      BY <2>1 DEF Ahead
  <1>4. r \in Ahead(s) /\ r \notin Ahead(r)
    BY <1>1, OrderedRows, ComesIsTotal DEF Ahead
  <1>5. /\ Rank(r) \in Nat /\ Rank(s) \in Nat /\ Rank(r) <= Rank(s)
        /\ Rank(s) = Rank(r) => Ahead(s) = Ahead(r)
    BY <1>2, <1>3, FS_Subset, FS_CardinalityType DEF Rank
  <1> QED
    BY <1>4, <1>5

LEMMA RankType ==
  ASSUME ListTypes, NEW r
  PROVE  Rank(r) \in Nat
  <1>1. Ahead(r) \in SUBSET Lists!Found
    BY DEF Ahead
  <1> QED
    BY <1>1, FoundRows, FS_Subset, FS_CardinalityType DEF Rank

LEMMA RowsCompare ==
  ASSUME ListTypes, NEW r \in Lists!Found, NEW s \in Lists!Found, r # s
  PROVE  Lists!Precedes(r, s) \/ Lists!Precedes(s, r)
  <1>1. r \in RowIds /\ s \in RowIds /\ rows[r].key \in SortKeys /\ rows[s].key \in SortKeys
    BY FoundRows, RowKeys
  <1> QED
    BY <1>1, OrderedRows, ComesIsTotal

\* A page is the beginning of what was found, and not empty if more follows.
LEMMA PageBegins ==
  ASSUME ListTypes
  PROVE  /\ Lists!Page \in SUBSET Lists!Found
         /\ \A r \in Lists!Found \ Lists!Page : \A s \in Lists!Page : Lists!Precedes(s, r)
         /\ Lists!HasMore =>
              /\ Lists!LastOfPage \in Lists!Page
              /\ \A s \in Lists!Page \ {Lists!LastOfPage} : Lists!Precedes(s, Lists!LastOfPage)
  <1> DEFINE found == Lists!Found
             page == Lists!Page
  <1>1. page = {r \in found : Rank(r) < Limit} /\ Limit \in Nat \ {0}
    BY PageByRank, ListAssumption
  <1>2. \A r \in found : Rank(r) \in Nat
    BY RankType
  <1>3. ASSUME NEW r \in found \ page, NEW s \in page
        PROVE  Lists!Precedes(s, r)
    <2>1. r \in Lists!Found /\ s \in Lists!Found /\ r # s /\ Rank(s) < Limit /\ ~ (Rank(r) < Limit)
      BY <1>1
    <2>2. CASE Lists!Precedes(r, s)
      <3>1. Rank(r) < Rank(s) /\ Rank(r) \in Nat /\ Rank(s) \in Nat
        BY <2>1, <2>2, RankGrows
      <3> QED
        BY <1>1, <2>1, <3>1
    <2> QED
      BY <2>1, <2>2, RowsCompare
  <1>4. ASSUME Lists!HasMore
        PROVE  page # {}
    <2> DEFINE ranks == {Rank(r) : r \in found}
    <2>1. ranks # {} /\ ranks \in SUBSET Nat
      BY <1>1, <1>2, <1>4 DEF Lists!HasMore
    <2>2. PICK n \in ranks : \A m \in ranks : n <= m
      <3> HIDE DEF ranks
      <3> QED
        BY <2>1, Leastness
    <2>3. PICK r \in found : Rank(r) = n
      BY <2>2
    <2>4. ASSUME NEW s \in Ahead(r)
          PROVE  FALSE
      <3>1. s \in Lists!Found /\ Lists!Precedes(s, r) /\ r \in Lists!Found
        BY DEF Ahead
      <3>2. Rank(s) < Rank(r) /\ Rank(s) \in Nat /\ Rank(r) \in Nat
        BY <3>1, RankGrows
      <3>3. n <= Rank(s)
        BY <2>2, <3>1
      <3> QED
        BY <2>3, <3>2, <3>3
    <2>5. Ahead(r) = {}
      BY <2>4
    <2>6. Rank(r) = 0
      BY <2>5, FS_EmptySet DEF Rank
    <2> QED
      BY <1>1, <2>6
  <1>5. ASSUME Lists!HasMore
        PROVE  \E r \in page : \A s \in page \ {r} : Lists!Precedes(s, r)
    <2> DEFINE ranks == {Rank(r) : r \in page}
    <2>1. ranks # {} /\ ranks \in SUBSET Nat /\ \A m \in ranks : m <= Limit
      BY <1>1, <1>2, <1>4, <1>5
    <2>2. PICK n \in ranks : \A m \in ranks : m <= n
      <3> HIDE DEF ranks
      <3> QED
        BY <1>1, <2>1, Greatest
    <2>3. PICK r \in page : Rank(r) = n
      BY <2>2
    <2>4. ASSUME NEW s \in page \ {r}
          PROVE  Lists!Precedes(s, r)
      <3>1. r \in Lists!Found /\ s \in Lists!Found /\ r # s
        BY <1>1
      <3>2. CASE Lists!Precedes(r, s)
        <4>1. Rank(r) < Rank(s) /\ Rank(s) \in Nat /\ Rank(r) \in Nat
          BY <3>1, <3>2, RankGrows
        <4>2. Rank(s) <= n
          BY <2>2
        <4> QED
          BY <2>3, <4>1, <4>2
      <3> QED
        BY <3>1, <3>2, RowsCompare
    <2> QED
      BY <2>4
  <1>6. Lists!HasMore => /\ Lists!LastOfPage \in page
                         /\ \A s \in page \ {Lists!LastOfPage} : Lists!Precedes(s, Lists!LastOfPage)
    BY <1>5, Zenon DEF Lists!LastOfPage
  <1> QED
    BY <1>1, <1>3, <1>6

LEMMA ListStarts ==
  ASSUME Lists!PagingInit
  PROVE  ListInv
  <1>1. /\ list \in Lists!Lists
        /\ rows \in [RowIds -> {Lists!Row(k) : k \in Lists!KeysOf(list)} \cup {Absent}]
        /\ reader = [at |-> "start", cursor |-> [id |-> Null, key |-> Null],
                     shown |-> <<>>, steady |-> {}]
    BY DEF Lists!PagingInit, Lists!TheStart
  <1>2. \A k \in Lists!KeysOf(list) : Lists!Row(k) \in ListRows
    BY DEF Lists!Row, ListRows
  <1>3. rows \in [RowIds -> {Absent} \cup ListRows]
    BY <1>1, <1>2
  <1>4. <<>> \in Seq(SUBSET RowIds) /\ Len(<<>>) = 0
    BY EmptySeq
  <1>5. ListTypes
    BY <1>1, <1>3, <1>4 DEF ListTypes
  <1> QED
    BY <1>1, <1>4, <1>5 DEF ListInv, Place, InOrder

LEMMA PagesLen ==
  ASSUME ListTypes
  PROVE  /\ Len(reader.shown) \in Nat /\ DOMAIN reader.shown = 1 .. Len(reader.shown)
         /\ \A p \in 1 .. Len(reader.shown) : reader.shown[p] \in SUBSET RowIds
  <1>1. reader.shown \in Seq(SUBSET RowIds)
    BY DEF ListTypes
  <1> QED
    BY <1>1, LenProperties

\* One row appears, changes or leaves: the reader is not told, and the row does
\* not count as one that stayed.
RowMoves(r) ==
  /\ list' = list
  /\ rows' \in [RowIds -> {Absent} \cup ListRows] /\ rows'[r] # Absent
  /\ \A s \in RowIds \ {r} : rows'[s] = rows[s]
  /\ reader'.at = reader.at /\ reader'.cursor = reader.cursor
  /\ reader'.steady = reader.steady \ {r}
  /\ reader' = [at |-> reader'.at, cursor |-> reader'.cursor,
                shown |-> reader'.shown, steady |-> reader'.steady]
  /\ reader'.shown \in Seq(SUBSET RowIds)
  /\ Len(reader'.shown) = Len(reader.shown)
  /\ \A p \in 1 .. Len(reader.shown) : reader'.shown[p] = reader.shown[p] \ {r}

LEMMA RowMoved ==
  ASSUME ListInv, NEW r \in RowIds, RowMoves(r)
  PROVE  ListInv'
  <1> DEFINE n == Len(reader.shown)
  <1>1. /\ n \in Nat /\ Len(reader'.shown) = n
        /\ \A p \in 1 .. n : reader'.shown[p] = reader.shown[p] \ {r}
        /\ \A p \in 1 .. n : reader.shown[p] \subseteq reader.steady
        /\ reader.steady \subseteq RowIds
    BY PagesLen DEF ListInv, RowMoves, ListTypes
  <1>2. ListTypes'
    <2>1. ListRows' = ListRows /\ Lists!KeysOf(list)' = Lists!KeysOf(list)
      BY DEF ListRows, Lists!KeysOf, RowMoves
    <2>2. /\ reader.at \in {"start", "next", "again", "end"}
          /\ reader.cursor \in [id : RowIds \cup {Null}, key : Lists!KeysOf(list) \cup {Null}]
          /\ reader.steady \in SUBSET RowIds /\ list \in Lists!Lists
      BY DEF ListInv, ListTypes
    <2> DEFINE pages == reader'.shown
               places == [id : RowIds \cup {Null}, key : Lists!KeysOf(list) \cup {Null}]
               cur == reader.cursor
    <2>3. /\ reader' = [at |-> reader.at, cursor |-> cur, shown |-> pages,
                        steady |-> reader.steady \ {r}]
          /\ pages \in Seq(SUBSET RowIds) /\ cur \in places
          /\ list' = list /\ rows' \in [RowIds -> {Absent} \cup ListRows]
      BY <2>2 DEF RowMoves
    <2> HIDE DEF pages, places, cur
    <2>4. reader' \in [at : {"start", "next", "again", "end"}, cursor : places,
                       shown : Seq(SUBSET RowIds), steady : SUBSET RowIds]
      BY <2>2, <2>3
    <2> QED
      BY <2>1, <2>2, <2>3, <2>4 DEF ListTypes, places
  <1>3. \A s \in reader'.steady : s \in reader.steady /\ s # r /\ rows'[s] = rows[s]
    BY <1>1 DEF RowMoves
  <1>4. \A s \in reader'.steady :
          Lists!Listed(s)' /\ (InShown(s, reader'.shown) <=> InShown(s, reader.shown))
    <2> SUFFICES ASSUME NEW s \in reader'.steady
                 PROVE  Lists!Listed(s)' /\ (InShown(s, reader'.shown) <=> InShown(s, reader.shown))
      OBVIOUS
    <2>1. Lists!Listed(s)'
      BY <1>3 DEF ListInv, Lists!Listed, Lists!Exists
    <2>2. InShown(s, reader'.shown) <=> InShown(s, reader.shown)
      BY <1>1, <1>3 DEF InShown
    <2> QED
      BY <2>1, <2>2
  <1>5. \A s \in reader'.steady :
          Lists!Continues(reader.cursor, s)' <=> Lists!Continues(reader.cursor, s)
    BY <1>3 DEF RowMoves, Lists!Continues, Lists!Beyond
  <1>6. Place'
    <2>1. reader.at = "start" => reader'.shown = <<>> /\ reader'.steady = {}
      <3>1. reader.at = "start" => n = 0 /\ reader.steady = {}
        BY EmptySeq DEF ListInv, Place
      <3>2. n = 0 => reader'.shown = <<>>
        BY <1>1, EmptySeq DEF RowMoves
      <3> QED
        BY <3>1, <3>2 DEF RowMoves
    <2>2. \A s \in RowIds : Lists!Exists(s) => Lists!Exists(s)'
      BY DEF Lists!Exists, RowMoves
    <2> QED
      BY <1>3, <1>4, <1>5, <2>1, <2>2 DEF ListInv, Place, RowMoves
  <1>7. InOrder(reader.shown)'
    <2> SUFFICES ASSUME NEW p \in 1 .. n, NEW q \in 1 .. n, p < q,
                        NEW s \in reader'.shown[p], NEW t \in reader'.shown[q]
                 PROVE  Lists!Precedes(s, t)'
      BY <1>1 DEF InOrder
    <2>1. /\ s \in reader.shown[p] /\ t \in reader.shown[q] /\ s # r /\ t # r
          /\ s \in RowIds /\ t \in RowIds
      BY <1>1
    <2>2. Lists!Precedes(s, t)
      BY <2>1 DEF ListInv, InOrder
    <2> QED
      BY <2>1, <2>2 DEF RowMoves, Lists!Precedes, Lists!Beyond
  <1>8. \A p \in 1 .. Len(reader'.shown) : reader'.shown[p] \subseteq reader'.steady
    BY <1>1 DEF RowMoves
  <1> QED
    BY <1>2, <1>4, <1>6, <1>7, <1>8 DEF ListInv

LEMMA RowDisturbed ==
  ASSUME ListInv, NEW r \in RowIds, Lists!Disturbs(r), list' = list,
         rows' \in [RowIds -> {Absent} \cup ListRows], rows'[r] # Absent,
         \A s \in RowIds \ {r} : rows'[s] = rows[s]
  PROVE  ListInv'
  <1> DEFINE n == Len(reader.shown)
             pages == [p \in 1 .. n |-> reader.shown[p] \ {r}]
  <1>1. n \in Nat /\ DOMAIN reader.shown = 1 .. n
        /\ \A p \in 1 .. n : reader.shown[p] \in SUBSET RowIds
    BY PagesLen DEF ListInv
  <1>2. reader' = [reader EXCEPT !.steady = reader.steady \ {r}, !.shown = pages]
    BY <1>1 DEF Lists!Disturbs
  <1>3. pages \in Seq(SUBSET RowIds) /\ Len(pages) = n
    BY <1>1, SeqDef, LenProperties
  <1>4. \A p \in 1 .. n : pages[p] = reader.shown[p] \ {r}
    OBVIOUS
  <1> HIDE DEF pages
  <1>5. /\ reader'.at = reader.at /\ reader'.cursor = reader.cursor
        /\ reader'.steady = reader.steady \ {r} /\ reader'.shown = pages
        /\ reader' = [at |-> reader.at, cursor |-> reader.cursor,
                      shown |-> pages, steady |-> reader.steady \ {r}]
    BY <1>2 DEF ListInv, ListTypes
  <1>6. RowMoves(r)
    BY <1>3, <1>4, <1>5 DEF RowMoves
  <1> QED
    BY <1>6, RowMoved

LEMMA RowInserted ==
  ASSUME ListInv, NEW r \in RowIds, Lists!Insert(r)
  PROVE  ListInv'
  <1>1. PICK k \in Lists!KeysOf(list) : rows' = [rows EXCEPT ![r] = Lists!Row(k)]
    BY DEF Lists!Insert
  <1>2. list' = list /\ reader' = reader /\ rows[r] = Absent
    BY DEF Lists!Insert, Lists!Exists
  <1>3. Lists!Row(k) \in ListRows /\ ListRows \cap {Absent} = {}
    <2>1. Lists!KeysOf(list) \subseteq Keys \cup {Null}
      BY DEF Lists!KeysOf
    <2> QED
      BY <2>1, ListAssumption DEF Lists!Row, ListRows
  <1>4. /\ rows' \in [RowIds -> {Absent} \cup ListRows] /\ rows'[r] # Absent
        /\ \A s \in RowIds \ {r} : rows'[s] = rows[s]
    BY <1>1, <1>3 DEF ListInv, ListTypes
  <1>5. r \notin reader.steady
    BY <1>2 DEF ListInv, Lists!Listed, Lists!Exists
  <1>6. \A p \in 1 .. Len(reader.shown) : reader.shown[p] = reader.shown[p] \ {r}
    BY <1>5 DEF ListInv
  <1>7. /\ reader.shown \in Seq(SUBSET RowIds) /\ reader.steady = reader.steady \ {r}
        /\ reader = [at |-> reader.at, cursor |-> reader.cursor,
                     shown |-> reader.shown, steady |-> reader.steady]
    BY <1>5 DEF ListInv, ListTypes
  <1>8. RowMoves(r)
    BY <1>2, <1>4, <1>6, <1>7 DEF RowMoves
  <1> QED
    BY <1>8, RowMoved

LEMMA RowChanged ==
  ASSUME ListInv, NEW r \in RowIds, Lists!Change(r)
  PROVE  ListInv'
  <1>1. PICK k \in Lists!LaterKeys(rows[r].key) : rows' = [rows EXCEPT ![r].key = k]
    BY DEF Lists!Change
  <1>2. k \in Lists!KeysOf(list)
    BY DEF Lists!LaterKeys, Lists!KeysOf
  <1>3. list' = list /\ Lists!Disturbs(r) /\ rows[r] \in ListRows
    BY RowKeys DEF Lists!Change, ListInv
  <1> DEFINE x == [rows[r] EXCEPT !.key = k]
  <1>4. x \in ListRows /\ ListRows \cap {Absent} = {}
    <2>1. Lists!KeysOf(list) \subseteq Keys \cup {Null}
      BY DEF Lists!KeysOf
    <2> QED
      BY <1>2, <1>3, <2>1, ListAssumption DEF ListRows
  <1>5. rows' = [rows EXCEPT ![r] = x]
    BY <1>1
  <1> HIDE DEF x
  <1>6. /\ rows' \in [RowIds -> {Absent} \cup ListRows] /\ rows'[r] # Absent
        /\ \A s \in RowIds \ {r} : rows'[s] = rows[s]
    BY <1>4, <1>5 DEF ListInv, ListTypes
  <1> QED
    BY <1>3, <1>6, RowDisturbed

LEMMA RowLeaves ==
  ASSUME ListInv, NEW r \in RowIds, Lists!LeaveOrReturn(r)
  PROVE  ListInv'
  <1> DEFINE x == [rows[r] EXCEPT !.listed = ~rows[r].listed]
  <1>1. /\ list' = list /\ Lists!Disturbs(r) /\ rows' = [rows EXCEPT ![r] = x]
    BY DEF Lists!LeaveOrReturn
  <1>2. rows[r] \in ListRows
    BY RowKeys DEF Lists!LeaveOrReturn, ListInv
  <1>3. PICK b \in BOOLEAN : x = [rows[r] EXCEPT !.listed = b]
    BY Zenon
  <1> HIDE DEF x
  <1>5. x \in ListRows /\ ListRows \cap {Absent} = {}
    <2>1. Lists!KeysOf(list) \subseteq Keys \cup {Null}
      BY DEF Lists!KeysOf
    <2> QED
      BY <1>2, <1>3, <2>1, ListAssumption DEF ListRows
  <1>6. /\ rows' \in [RowIds -> {Absent} \cup ListRows] /\ rows'[r] # Absent
        /\ \A s \in RowIds \ {r} : rows'[s] = rows[s]
    BY <1>1, <1>5 DEF ListInv, ListTypes
  <1> QED
    BY <1>1, <1>6, RowDisturbed

\* What a reader who reads a page goes on with.
StillSteady == IF reader.at = "start" THEN {r \in RowIds : Lists!Listed(r)} ELSE reader.steady
NewlyShown == Lists!Page \cap StillSteady
LastPlace == [id |-> Lists!LastOfPage, key |-> rows[Lists!LastOfPage].key]

LEMMA PageTurned ==
  ASSUME ListInv, Lists!ReadPage
  PROVE  /\ list' = list /\ rows' = rows /\ reader.at \in {"start", "next"}
         /\ reader'.shown = Append(reader.shown, NewlyShown)
         /\ reader'.steady = StillSteady
         /\ Lists!HasMore => reader'.at \in {"next", "again"} /\ reader'.cursor = LastPlace
         /\ ~Lists!HasMore => reader'.at = "end" /\ reader'.cursor = [id |-> Null, key |-> Null]
         /\ reader' = [at |-> reader'.at, cursor |-> reader'.cursor,
                       shown |-> reader'.shown, steady |-> reader'.steady]
  <1> DEFINE at == IF ~Lists!HasMore THEN "end" ELSE IF list.cursor = "row" THEN "next" ELSE "again"
             cursor == IF Lists!HasMore THEN LastPlace ELSE [id |-> Null, key |-> Null]
             pages == Append(reader.shown, NewlyShown)
  <1>1. /\ list' = list /\ rows' = rows /\ reader.at \in {"start", "next"}
        /\ reader' = [reader EXCEPT !.at = at, !.cursor = cursor, !.shown = pages,
                                    !.steady = StillSteady]
    BY DEF Lists!ReadPage, StillSteady, NewlyShown, LastPlace, Lists!TheStart
  <1>2. /\ Lists!HasMore => at \in {"next", "again"} /\ cursor = LastPlace
        /\ ~Lists!HasMore => at = "end" /\ cursor = [id |-> Null, key |-> Null]
    OBVIOUS
  <1> HIDE DEF at, cursor, pages
  <1>3. /\ reader' = [at |-> at, cursor |-> cursor, shown |-> pages, steady |-> StillSteady]
        /\ reader'.at = at /\ reader'.cursor = cursor /\ reader'.shown = pages
        /\ reader'.steady = StillSteady
    BY <1>1 DEF ListInv, ListTypes
  <1> QED
    BY <1>1, <1>2, <1>3 DEF pages

\* A row that stayed was shown before, or it is found now; and what was shown
\* before precedes what is found.
LEMMA StillThere ==
  ASSUME ListInv, reader.at \in {"start", "next"}
  PROVE  /\ StillSteady \in SUBSET RowIds
         /\ \A r \in StillSteady : Lists!Listed(r)
         /\ \A p \in 1 .. Len(reader.shown) : reader.shown[p] \subseteq StillSteady
         /\ \A r \in StillSteady : InShown(r, reader.shown) \/ r \in Lists!Found
         /\ \A r \in StillSteady, s \in Lists!Found :
              InShown(r, reader.shown) => Lists!Precedes(r, s)
  <1>1. reader.at = "start" => Len(reader.shown) = 0
    BY EmptySeq DEF ListInv, Place
  <1>2. /\ StillSteady \in SUBSET RowIds
        /\ \A r \in StillSteady : Lists!Listed(r)
        /\ \A p \in 1 .. Len(reader.shown) : reader.shown[p] \subseteq StillSteady
    BY <1>1 DEF StillSteady, ListInv, ListTypes
  <1>3. ASSUME NEW r \in StillSteady
        PROVE  InShown(r, reader.shown) \/ r \in Lists!Found
    <2>1. r \in RowIds /\ Lists!Queried(r)
      BY <1>2 DEF Lists!Queried, Lists!Listed
    <2>2. reader.at = "next" => InShown(r, reader.shown) \/ Lists!Continues(reader.cursor, r)
      BY DEF ListInv, Place, StillSteady
    <2> QED
      BY <2>1, <2>2 DEF Lists!Found, Lists!FromCursor
  <1>4. ASSUME NEW r \in StillSteady, NEW s \in Lists!Found, InShown(r, reader.shown)
        PROVE  Lists!Precedes(r, s)
    <2> DEFINE c == reader.cursor
    <2>1. reader.at = "next"
      BY <1>1, <1>4 DEF InShown
    <2>2. /\ c.id \in RowIds /\ ~Lists!Continues(c, r)
      BY <1>4, <2>1 DEF ListInv, Place, StillSteady
    <2>3. c.key \in SortKeys
      BY CursorKeys DEF ListInv
    <2>4. /\ r \in RowIds /\ Lists!Exists(r) /\ s \in RowIds /\ Lists!Exists(s)
          /\ Lists!Continues(c, s)
      BY <1>2, <2>1, FoundRows DEF ListInv, Lists!Listed, Lists!Found, Lists!FromCursor
    <2>5. rows[r].key \in SortKeys /\ rows[s].key \in SortKeys
      BY <2>4, RowKeys DEF ListInv
    <2> HIDE DEF c
    <2>6. Comes(c.key, c.id, rows[s].key, s) /\ ~Comes(c.key, c.id, rows[r].key, r)
      BY <2>2, <2>3, <2>4, ContinuedRows DEF ListInv
    <2>7. (c.key = rows[r].key /\ c.id = r) \/ Comes(rows[r].key, r, c.key, c.id)
      BY <2>2, <2>3, <2>4, <2>5, <2>6, ComesIsTotal
    <2>8. Comes(rows[r].key, r, rows[s].key, s)
      BY <2>2, <2>3, <2>4, <2>5, <2>6, <2>7, ComesIsTransitive
    <2> QED
      BY <2>8, OrderedRows
  <1> QED
    BY <1>2, <1>3, <1>4

\* The cursor of the next page divides the rows that stayed into those that
\* were shown and those that were not.
LEMMA CursorDivides ==
  ASSUME ListInv, reader.at \in {"start", "next"}, Lists!HasMore, NEW r \in StillSteady
  PROVE  /\ Lists!LastOfPage \in RowIds /\ Lists!Exists(Lists!LastOfPage)
         /\ InShown(r, reader.shown) \/ r \in NewlyShown <=> ~Lists!Continues(LastPlace, r)
  <1> DEFINE last == Lists!LastOfPage
  <1>1. /\ last \in Lists!Page /\ Lists!Page \in SUBSET Lists!Found
        /\ \A s \in Lists!Page \ {last} : Lists!Precedes(s, last)
        /\ \A s \in Lists!Found \ Lists!Page : Lists!Precedes(last, s)
    BY PageBegins DEF ListInv
  <1> HIDE DEF last
  <1>2. /\ last \in RowIds /\ Lists!Exists(last) /\ r \in RowIds /\ Lists!Exists(r)
    BY <1>1, FoundRows, StillThere DEF ListInv, Lists!Listed
  <1>3. rows[r].key \in SortKeys /\ rows[last].key \in SortKeys
    BY <1>2, RowKeys DEF ListInv
  <1>4. Lists!Continues(LastPlace, r) <=> Lists!Precedes(last, r)
    <2>1. LastPlace.id = last /\ LastPlace.key = rows[last].key
      BY DEF LastPlace, last
    <2>2. Lists!Continues(LastPlace, r) <=> Comes(rows[last].key, last, rows[r].key, r)
      BY <1>2, <1>3, <2>1, ContinuedRows DEF ListInv
    <2> QED
      BY <2>2, OrderedRows
  <1>5. /\ Lists!Precedes(r, last) => ~Lists!Precedes(last, r)
        /\ r = last => ~Lists!Precedes(last, r)
    BY <1>2, <1>3, OrderedRows, ComesIsTotal
  <1>6. InShown(r, reader.shown) => Lists!Precedes(r, last)
    BY <1>1, StillThere
  <1>7. r \in NewlyShown => r = last \/ Lists!Precedes(r, last)
    BY <1>1 DEF NewlyShown
  <1>8. ~InShown(r, reader.shown) /\ r \notin NewlyShown => Lists!Precedes(last, r)
    BY <1>1, StillThere DEF NewlyShown
  <1> QED
    BY <1>2, <1>4, <1>5, <1>6, <1>7, <1>8 DEF last

LEMMA PageRead ==
  ASSUME ListInv, Lists!ReadPage
  PROVE  ListInv'
  <1> DEFINE n == Len(reader.shown)
             pages == Append(reader.shown, NewlyShown)
  <1>1. /\ list' = list /\ rows' = rows /\ reader.at \in {"start", "next"}
        /\ reader'.shown = pages /\ reader'.steady = StillSteady
        /\ Lists!HasMore => reader'.at \in {"next", "again"} /\ reader'.cursor = LastPlace
        /\ ~Lists!HasMore => reader'.at = "end" /\ reader'.cursor = [id |-> Null, key |-> Null]
        /\ reader' = [at |-> reader'.at, cursor |-> reader'.cursor,
                      shown |-> reader'.shown, steady |-> reader'.steady]
    BY PageTurned
  <1>2. /\ Lists!Page \in SUBSET Lists!Found /\ Lists!Found \in SUBSET RowIds
        /\ Lists!HasMore => Lists!LastOfPage \in Lists!Page
        /\ NewlyShown \subseteq StillSteady /\ NewlyShown \subseteq Lists!Found
        /\ NewlyShown \in SUBSET RowIds
    BY PageBegins, FoundRows DEF ListInv, NewlyShown
  <1>3. /\ StillSteady \in SUBSET RowIds
        /\ \A r \in StillSteady : Lists!Listed(r)
        /\ \A p \in 1 .. n : reader.shown[p] \subseteq StillSteady
        /\ \A r \in StillSteady : InShown(r, reader.shown) \/ r \in Lists!Found
        /\ \A r \in StillSteady, s \in Lists!Found :
             InShown(r, reader.shown) => Lists!Precedes(r, s)
    BY <1>1, StillThere
  <1>4. /\ n \in Nat /\ pages \in Seq(SUBSET RowIds) /\ Len(pages) = n + 1
        /\ \A p \in 1 .. n : pages[p] = reader.shown[p]
        /\ pages[n + 1] = NewlyShown
    <2>1. reader.shown \in Seq(SUBSET RowIds)
      BY DEF ListInv, ListTypes
    <2> QED
      BY <1>2, <2>1, AppendProperties, LenProperties
  <1> HIDE DEF pages, n
  <1>5. \A r : InShown(r, pages) <=> InShown(r, reader.shown) \/ r \in NewlyShown
    <2>1. \A p : p \in 1 .. n + 1 <=> p \in 1 .. n \/ p = n + 1
      BY <1>4
    <2> QED
      BY <1>4, <2>1 DEF InShown, n
  <1>6. ListTypes'
    <2>1. ListRows' = ListRows /\ Lists!KeysOf(list)' = Lists!KeysOf(list)
      BY <1>1 DEF ListRows, Lists!KeysOf
    <2> DEFINE places == [id : RowIds \cup {Null}, key : Lists!KeysOf(list) \cup {Null}]
    <2>2. reader'.cursor \in places /\ reader'.at \in {"next", "again", "end"}
      <3>1. CASE Lists!HasMore
        <4>1. Lists!LastOfPage \in RowIds /\ Lists!Exists(Lists!LastOfPage)
          BY <1>2, <3>1, FoundRows DEF ListInv
        <4>2. rows[Lists!LastOfPage].key \in Lists!KeysOf(list)
          BY <4>1, RowKeys DEF ListInv, ListRows
        <4> QED
          BY <1>1, <3>1, <4>1, <4>2 DEF LastPlace
      <3>2. CASE ~Lists!HasMore
        BY <1>1, <3>2
      <3> QED
        BY <3>1, <3>2
    <2> HIDE DEF places
    <2>3. reader' \in [at : {"start", "next", "again", "end"}, cursor : places,
                       shown : Seq(SUBSET RowIds), steady : SUBSET RowIds]
      BY <1>1, <1>3, <1>4, <2>2
    <2>4. list \in Lists!Lists /\ rows \in [RowIds -> {Absent} \cup ListRows]
      BY DEF ListInv, ListTypes
    <2> QED
      BY <1>1, <2>1, <2>3, <2>4 DEF ListTypes, places
  <1>7. Place'
    <2>1. CASE Lists!HasMore
      <3>1. LastPlace.id = Lists!LastOfPage
        BY DEF LastPlace
      <3>2. Lists!LastOfPage \in RowIds /\ Lists!Exists(Lists!LastOfPage)
        BY <1>2, <2>1, FoundRows DEF ListInv
      <3>3. \A r \in StillSteady : InShown(r, pages) <=> ~Lists!Continues(LastPlace, r)
        BY <1>1, <1>5, <2>1, CursorDivides
      <3>5. \A r \in RowIds : Lists!Exists(r)' <=> Lists!Exists(r)
        BY <1>1 DEF Lists!Exists
      <3>6. \A r \in RowIds : Lists!Continues(reader.cursor, r)' <=> Lists!Continues(LastPlace, r)
        BY <1>1, <2>1 DEF Lists!Continues, Lists!Beyond
      <3> QED
        BY <1>1, <1>3, <2>1, <3>1, <3>2, <3>3, <3>5, <3>6 DEF Place
    <2>2. CASE ~Lists!HasMore
      <3>1. \A r \in StillSteady : InShown(r, pages)
        BY <1>3, <1>5, <2>2 DEF Lists!HasMore, NewlyShown
      <3> QED
        BY <1>1, <2>2, <3>1 DEF Place
    <2> QED
      BY <2>1, <2>2
  <1>8. InOrder(reader.shown)'
    <2> SUFFICES ASSUME NEW p \in 1 .. n + 1, NEW q \in 1 .. n + 1, p < q,
                        NEW s \in pages[p], NEW t \in pages[q]
                 PROVE  Lists!Precedes(s, t)'
      BY <1>1, <1>4 DEF InOrder
    <2>1. p \in 1 .. n /\ s \in reader.shown[p] /\ s \in StillSteady
      BY <1>3, <1>4
    <2>3. Lists!Precedes(s, t)
      <3>1. CASE q \in 1 .. n
        BY <1>4, <2>1, <3>1 DEF ListInv, InOrder, n
      <3>2. CASE q = n + 1
        <4>1. t \in Lists!Found /\ InShown(s, reader.shown)
          BY <1>2, <1>4, <2>1, <3>2 DEF InShown, n
        <4> QED
          BY <1>3, <2>1, <4>1
      <3> QED
        BY <1>4, <3>1, <3>2
    <2> QED
      BY <1>1, <2>3 DEF Lists!Precedes, Lists!Beyond
  <1>9. \A r \in reader'.steady : Lists!Listed(r)'
    BY <1>1, <1>3 DEF Lists!Listed, Lists!Exists
  <1>10. \A p \in 1 .. Len(reader'.shown) : reader'.shown[p] \subseteq reader'.steady
    BY <1>1, <1>2, <1>3, <1>4
  <1> QED
    BY <1>6, <1>7, <1>8, <1>9, <1>10 DEF ListInv

LEMMA CursorReadAgain ==
  ASSUME ListInv, Lists!ReadCursorAgain
  PROVE  ListInv'
  <1> DEFINE c == reader.cursor
             now == rows[c.id].key
             places == [id : RowIds \cup {Null}, key : Lists!KeysOf(list) \cup {Null}]
             moved == [c EXCEPT !.key = now]
  <1>1. /\ reader.at = "again" /\ list' = list /\ rows' = rows
        /\ reader' = IF now = c.key THEN [reader EXCEPT !.at = "next"]
                     ELSE [reader EXCEPT !.at = "next", !.cursor = moved, !.steady = {},
                                         !.shown = <<>>]
    BY DEF Lists!ReadCursorAgain
  <1>2. c \in places /\ c.id \in RowIds /\ Lists!Exists(c.id)
    BY <1>1 DEF ListInv, ListTypes, Place
  <1>3. now \in Lists!KeysOf(list)
    BY <1>2, RowKeys DEF ListInv, ListRows
  <1>4. moved \in places /\ moved.id = c.id
    BY <1>2, <1>3
  <1>5. <<>> \in Seq(SUBSET RowIds) /\ Len(<<>>) = 0
    BY EmptySeq
  <1>6. /\ ListRows' = ListRows /\ Lists!KeysOf(list)' = Lists!KeysOf(list)
        /\ list \in Lists!Lists /\ rows \in [RowIds -> {Absent} \cup ListRows]
        /\ reader \in [at : {"start", "next", "again", "end"}, cursor : places,
                       shown : Seq(SUBSET RowIds), steady : SUBSET RowIds]
    BY <1>1 DEF ListInv, ListTypes, ListRows, Lists!KeysOf
  <1>7. \A r \in RowIds : /\ Lists!Exists(r)' <=> Lists!Exists(r)
                          /\ Lists!Listed(r)' <=> Lists!Listed(r)
    BY <1>1 DEF Lists!Exists, Lists!Listed
  <1> HIDE DEF moved, now, places
  <1>8. CASE now = c.key
    <2>1. reader' = [at |-> "next", cursor |-> c, shown |-> reader.shown, steady |-> reader.steady]
      BY <1>1, <1>6, <1>8
    <2> HIDE DEF c
    <2>2. /\ reader'.at = "next" /\ reader'.cursor = c
          /\ reader'.shown = reader.shown /\ reader'.steady = reader.steady
      BY <2>1
    <2>3. ListTypes'
      <3>1. reader' \in [at : {"start", "next", "again", "end"}, cursor : places,
                         shown : Seq(SUBSET RowIds), steady : SUBSET RowIds]
        BY <1>2, <1>6, <2>1
      <3> QED
        BY <1>1, <1>6, <3>1 DEF ListTypes, places
    <2>4. \A r \in RowIds : Lists!Continues(reader.cursor, r)' <=> Lists!Continues(reader.cursor, r)
      BY <1>1, <2>2 DEF Lists!Continues, Lists!Beyond, c
    <2>5. reader.steady \subseteq RowIds
      BY <1>6
    <2>6. Place'
      BY <1>1, <1>2, <1>7, <2>2, <2>4, <2>5 DEF ListInv, Place
    <2>7. InOrder(reader.shown)'
      BY <1>1, <2>2 DEF ListInv, InOrder, Lists!Precedes, Lists!Beyond
    <2> QED
      BY <1>7, <2>2, <2>3, <2>5, <2>6, <2>7 DEF ListInv
  <1>9. CASE now # c.key
    <2>1. reader' = [at |-> "next", cursor |-> moved, shown |-> <<>>, steady |-> {}]
      BY <1>1, <1>6, <1>9
    <2>2. /\ reader'.at = "next" /\ reader'.cursor = moved
          /\ reader'.shown = <<>> /\ reader'.steady = {}
      BY <2>1
    <2>3. reader' \in [at : {"start", "next", "again", "end"}, cursor : places,
                       shown : Seq(SUBSET RowIds), steady : SUBSET RowIds]
      BY <1>4, <1>5, <2>1
    <2>4. ListTypes'
      BY <1>1, <1>6, <2>3 DEF ListTypes, places
    <2>5. Place'
      BY <1>2, <1>4, <1>7, <2>2 DEF Place
    <2> QED
      BY <1>5, <2>2, <2>4, <2>5 DEF ListInv, InOrder
  <1> QED
    BY <1>8, <1>9

LEMMA ListInvStays ==
  ASSUME ListInv, [Lists!PagingNext]_listVars
  PROVE  ListInv'
  <1>1. CASE UNCHANGED listVars
    <2>1. list' = list /\ rows' = rows /\ reader' = reader
      BY <1>1 DEF listVars
    <2>2. ListTypes'
      BY <2>1 DEF ListInv, ListTypes, ListRows, Lists!KeysOf
    <2>3. Place' /\ InOrder(reader.shown)' /\ \A r \in RowIds : Lists!Listed(r)' <=> Lists!Listed(r)
      BY <2>1 DEF ListInv, Place, InShown, InOrder, Lists!Exists, Lists!Listed, Lists!Continues,
                  Lists!Precedes, Lists!Beyond
    <2>4. reader.steady \subseteq RowIds
      BY DEF ListInv, ListTypes
    <2> QED
      BY <2>1, <2>2, <2>3, <2>4 DEF ListInv
  <1>2. CASE Lists!ReadPage
    BY <1>2, PageRead
  <1>3. CASE Lists!ReadCursorAgain
    BY <1>3, CursorReadAgain
  <1>4. ASSUME NEW r \in RowIds, Lists!Insert(r) \/ Lists!Change(r) \/ Lists!LeaveOrReturn(r)
        PROVE  ListInv'
    BY <1>4, RowInserted, RowChanged, RowLeaves
  <1> QED
    BY <1>1, <1>2, <1>3, <1>4 DEF Lists!PagingNext

LEMMA ListHolds ==
  ASSUME ListInv
  PROVE  ReadOnceAndWhole
  <1>1. /\ Len(reader.shown) \in Nat /\ DOMAIN reader.shown = 1 .. Len(reader.shown)
    BY PagesLen DEF ListInv
  <1>2. Lists!TypeOK
    BY <1>1 DEF ListInv, ListTypes, ListRows, Lists!TypeOK
  <1>3. reader.at = "end" =>
          \A r \in reader.steady : \E p \in DOMAIN reader.shown : r \in reader.shown[p]
    BY <1>1 DEF ListInv, Place, InShown
  <1>4. \A p, q \in DOMAIN reader.shown : p < q =>
          \A r \in reader.shown[p], s \in reader.shown[q] : Lists!Precedes(r, s)
    BY <1>1 DEF ListInv, InOrder
  <1> QED
    BY <1>2, <1>3, <1>4 DEF ReadOnceAndWhole, Lists!ReadOnceAndWhole

-----------------------------------------------------------------------------
(* The tickets.  A commit adds events to a ticket and notices about each of  *)
(* them; what a tale says, it says after one more event.                     *)

Sides == {"raiser", "desk"}
TicketEvents ==
  {Ticket!Created}
  \cup [type : {"MESSAGE_ADDED"}, by : Sides, key : ReplyKeys]
  \cup [type : {"STATUS_CHANGED"}, by : {"desk"}, from : Ticket!Statuses, to : Ticket!Statuses]
  \cup [type : {"STATUS_CHANGED"}, by : {"raiser"}, from : Ticket!Statuses, to : {"OPEN"}]
TicketNotices == [to : Sides, about : TicketEvents]

LeadsTo(es, i, status) ==
  \/ status = "OPEN" /\ \A j \in 1 .. i - 1 : es[j].type # "STATUS_CHANGED"
  \/ \E j \in 1 .. i - 1 : /\ es[j].type = "STATUS_CHANGED" /\ es[j].to = status
                           /\ \A k \in j + 1 .. i - 1 : es[k].type # "STATUS_CHANGED"

StoryOf(es) ==
  \A i \in 1 .. Len(es) : es[i].type = "STATUS_CHANGED" =>
    /\ LeadsTo(es, i, es[i].from)
    /\ Ticket!ValidTransition(es[i].from, es[i].to)

KeysOnce(es) ==
  \A i, j \in 1 .. Len(es) :
    es[i].type = "MESSAGE_ADDED" /\ es[j].type = "MESSAGE_ADDED" /\ es[i].key = es[j].key => i = j

Calling(es, side) == {i \in 1 .. Len(es) : Ticket!CallsFor(es[i], side)}
Received(ns, side) == {n \in 1 .. Len(ns) : ns[n].to = side /\ ns[n].about.by # side}
Before(S, i) == Cardinality({j \in S : j < i})
InTurn(es, ns, side) ==
  /\ Cardinality(Received(ns, side)) = Cardinality(Calling(es, side))
  /\ \A n \in Received(ns, side), i \in Calling(es, side) :
       Before(Received(ns, side), n) = Before(Calling(es, side), i) => ns[n].about = es[i]

\* What the events and the notices of a ticket say, which lead to a status.
Tale(es, ns, status) ==
  /\ es \in Seq(TicketEvents) /\ ns \in Seq(TicketNotices)
  /\ StoryOf(es) /\ LeadsTo(es, Len(es) + 1, status)
  /\ KeysOnce(es)
  /\ \A side \in Sides : InTurn(es, ns, side)

Longer(es, e) == Append(es, e)
Further(ns, e) == ns \o Ticket!NoticesOf(e)
After(status, e) == IF e.type = "STATUS_CHANGED" THEN e.to ELSE status

LEMMA LongerStory ==
  ASSUME NEW es \in Seq(TicketEvents), NEW e \in TicketEvents
  PROVE  /\ Longer(es, e) \in Seq(TicketEvents) /\ Len(es) \in Nat
         /\ Len(Longer(es, e)) = Len(es) + 1
         /\ \A i \in 1 .. Len(es) : Longer(es, e)[i] = es[i]
         /\ Longer(es, e)[Len(es) + 1] = e
  BY AppendProperties, LenProperties DEF Longer

LEMMA StoryGoesOn ==
  ASSUME NEW es \in Seq(TicketEvents), NEW e \in TicketEvents, NEW status,
         StoryOf(es), LeadsTo(es, Len(es) + 1, status),
         e.type = "STATUS_CHANGED" => e.from = status /\ Ticket!ValidTransition(e.from, e.to)
  PROVE  /\ StoryOf(Longer(es, e))
         /\ LeadsTo(Longer(es, e), Len(Longer(es, e)) + 1, After(status, e))
  <1> DEFINE n == Len(es)
             more == Longer(es, e)
  <1>1. /\ n \in Nat /\ Len(more) = n + 1 /\ more[n + 1] = e
        /\ \A i \in 1 .. n : more[i] = es[i]
    BY LongerStory
  <1> HIDE DEF more
  <1>2. ASSUME NEW i \in 1 .. n + 1, NEW s
        PROVE  LeadsTo(more, i, s) <=> LeadsTo(es, i, s)
    <2>1. \A j \in 1 .. i - 1 : more[j] = es[j]
      BY <1>1
    <2>2. \A j \in 1 .. i - 1 : \A k \in j + 1 .. i - 1 : more[k] = es[k]
      BY <2>1
    <2> QED
      BY <2>1, <2>2 DEF LeadsTo
  <1>3. StoryOf(more)
    <2> SUFFICES ASSUME NEW i \in 1 .. n + 1, more[i].type = "STATUS_CHANGED"
                 PROVE  LeadsTo(more, i, more[i].from) /\ Ticket!ValidTransition(more[i].from, more[i].to)
      BY <1>1 DEF StoryOf
    <2>1. CASE i \in 1 .. n
      BY <1>1, <1>2, <2>1 DEF StoryOf
    <2>2. CASE i = n + 1
      BY <1>1, <1>2, <2>2
    <2> QED
      BY <1>1, <2>1, <2>2
  <1>4. LeadsTo(more, n + 2, After(status, e))
    <2>0. n + 2 - 1 = n + 1 /\ n + 1 - 1 = n
      BY <1>1
    <2>1. CASE e.type = "STATUS_CHANGED"
      <3>1. n + 1 \in 1 .. n + 1 /\ \A k \in n + 1 + 1 .. n + 1 : FALSE
        BY <1>1
      <3> QED
        BY <1>1, <2>0, <2>1, <3>1 DEF LeadsTo, After
    <2>2. CASE e.type # "STATUS_CHANGED"
      <3>1. LeadsTo(more, n + 1, status)
        BY <1>1, <1>2
      <3>2. CASE status = "OPEN" /\ \A j \in 1 .. n : more[j].type # "STATUS_CHANGED"
        <4>1. \A j \in 1 .. n + 1 : more[j].type # "STATUS_CHANGED"
          BY <1>1, <2>2, <3>2
        <4> QED
          BY <2>0, <2>2, <3>2, <4>1 DEF LeadsTo, After
      <3>3. ASSUME NEW j \in 1 .. n, more[j].type = "STATUS_CHANGED", more[j].to = status,
                   \A k \in j + 1 .. n : more[k].type # "STATUS_CHANGED"
            PROVE  LeadsTo(more, n + 2, After(status, e))
        <4>1. j \in 1 .. n + 1 /\ \A k \in j + 1 .. n + 1 : more[k].type # "STATUS_CHANGED"
          BY <1>1, <2>2, <3>3
        <4> QED
          BY <2>0, <2>2, <3>3, <4>1 DEF LeadsTo, After
      <3> QED
        BY <2>0, <3>1, <3>2, <3>3 DEF LeadsTo
    <2> QED
      BY <2>1, <2>2
  <1> QED
    BY <1>1, <1>3, <1>4 DEF more

LEMMA KeysStayApart ==
  ASSUME NEW es \in Seq(TicketEvents), NEW e \in TicketEvents, KeysOnce(es),
         e.type = "MESSAGE_ADDED" => ~Ticket!UsedIn(es, e.key)
  PROVE  KeysOnce(Longer(es, e))
  <1> DEFINE n == Len(es)
             more == Longer(es, e)
  <1>1. /\ n \in Nat /\ Len(more) = n + 1 /\ more[n + 1] = e
        /\ \A i \in 1 .. n : more[i] = es[i]
        /\ DOMAIN es = 1 .. n
    BY LongerStory, LenProperties
  <1> HIDE DEF more
  <1>2. e.type = "MESSAGE_ADDED" =>
          \A i \in 1 .. n : ~ (es[i].type = "MESSAGE_ADDED" /\ es[i].key = e.key)
    BY <1>1 DEF Ticket!UsedIn
  <1>3. \A i : i \in 1 .. n + 1 <=> i \in 1 .. n \/ i = n + 1
    BY <1>1
  <1> QED
    BY <1>1, <1>2, <1>3 DEF KeysOnce, more

With(S, x) == S \cup {x}

\* Of two sets of the same size, each with one more beyond the others.
LEMMA GrowTogether ==
  ASSUME NEW S \in SUBSET Nat, NEW T \in SUBSET Nat, IsFiniteSet(S), IsFiniteSet(T),
         Cardinality(S) = Cardinality(T), NEW x \in Nat, NEW y \in Nat,
         \A s \in S : s < x, \A t \in T : t < y
  PROVE  /\ Cardinality(With(S, x)) = Cardinality(With(T, y))
         /\ \A s \in With(S, x), t \in With(T, y) :
              Before(With(S, x), s) = Before(With(T, y), t) =>
                (s = x /\ t = y) \/ (s \in S /\ t \in T /\ Before(S, s) = Before(T, t))
  <1>1. x \notin S /\ y \notin T
    OBVIOUS
  <1>2. Cardinality(S \cup {x}) = Cardinality(S) + 1 /\ Cardinality(T \cup {y}) = Cardinality(T) + 1
    BY <1>1, FS_AddElement
  <1>3. Before(S \cup {x}, x) = Cardinality(S) /\ Before(T \cup {y}, y) = Cardinality(T)
    <2>1. ~ (x < x) /\ ~ (y < y)
      OBVIOUS
    <2>2. {s \in S \cup {x} : s < x} = S
      BY <2>1
    <2>3. {t \in T \cup {y} : t < y} = T
      BY <2>1
    <2> QED
      BY <2>2, <2>3 DEF Before
  <1>4. ASSUME NEW s \in S
        PROVE  Before(S \cup {x}, s) = Before(S, s) /\ Before(S, s) < Cardinality(S)
                 /\ Before(S, s) \in Nat
    <2>1. {r \in S \cup {x} : r < s} = {r \in S : r < s}
      OBVIOUS
    <2>2. {r \in S : r < s} \subseteq S /\ {r \in S : r < s} # S
      OBVIOUS
    <2>3. /\ Before(S, s) <= Cardinality(S) /\ Before(S, s) # Cardinality(S)
          /\ Before(S, s) \in Nat /\ Cardinality(S) \in Nat
      BY <2>2, FS_Subset, FS_CardinalityType DEF Before
    <2> QED
      BY <2>1, <2>3 DEF Before
  <1>5. ASSUME NEW t \in T
        PROVE  Before(T \cup {y}, t) = Before(T, t) /\ Before(T, t) < Cardinality(T)
                 /\ Before(T, t) \in Nat
    <2>1. {r \in T \cup {y} : r < t} = {r \in T : r < t}
      OBVIOUS
    <2>2. {r \in T : r < t} \subseteq T /\ {r \in T : r < t} # T
      OBVIOUS
    <2>3. /\ Before(T, t) <= Cardinality(T) /\ Before(T, t) # Cardinality(T)
          /\ Before(T, t) \in Nat /\ Cardinality(T) \in Nat
      BY <2>2, FS_Subset, FS_CardinalityType DEF Before
    <2> QED
      BY <2>1, <2>3 DEF Before
  <1> DEFINE n == Cardinality(S)
  <1>6. n \in Nat /\ Cardinality(T) = n
    BY FS_CardinalityType
  <1>7. ASSUME NEW s \in S \cup {x}, NEW t \in T \cup {y},
               Before(S \cup {x}, s) = Before(T \cup {y}, t)
        PROVE  (s = x /\ t = y) \/ (s \in S /\ t \in T /\ Before(S, s) = Before(T, t))
    <2> HIDE DEF n
    <2>1. CASE s \in S /\ t \in T
      BY <1>4, <1>5, <1>7, <2>1
    <2>2. CASE s \in S /\ t = y
      <3>1. Before(S \cup {x}, s) < n /\ Before(S \cup {x}, s) \in Nat
        BY <1>4, <2>2 DEF n
      <3> QED
        BY <1>3, <1>6, <1>7, <2>2, <3>1 DEF n
    <2>3. CASE s = x /\ t \in T
      <3>1. Before(T \cup {y}, t) < n /\ Before(T \cup {y}, t) \in Nat
        BY <1>5, <1>6, <2>3
      <3> QED
        BY <1>3, <1>6, <1>7, <2>3, <3>1 DEF n
    <2> QED
      BY <2>1, <2>2, <2>3
  <1> QED
    BY <1>2, <1>6, <1>7 DEF With

\* An event is told to the other side by one notice, or not at all.
LEMMA ToldOnce ==
  ASSUME NEW e \in TicketEvents, NEW side \in Sides, channel \in {"CPO_PLATFORM", "CUSTOMER_CPO"}
  PROVE  LET ms == Ticket!NoticesOf(e) IN
         /\ ms \in Seq(TicketNotices)
         /\ \A k \in 1 .. Len(ms) : ms[k].about = e
         /\ ~Ticket!CallsFor(e, side) =>
              \A k \in 1 .. Len(ms) : ~ (ms[k].to = side /\ ms[k].about.by # side)
         /\ Ticket!CallsFor(e, side) =>
              \E k \in 1 .. Len(ms) : \A l \in 1 .. Len(ms) :
                (ms[l].to = side /\ ms[l].about.by # side) <=> l = k
  <1> DEFINE readers == IF channel = "CPO_PLATFORM" THEN Ticket!PlatformNotices(e)
                        ELSE Ticket!CustomerNotices(e)
             ms == [i \in DOMAIN readers |-> [to |-> readers[i], about |-> e]]
  <1>1. Ticket!NoticesOf(e) = ms
    BY DEF Ticket!NoticesOf
  <1>2. readers \in {<<>>, <<"raiser">>, <<"desk">>, <<"raiser", "desk">>}
    BY DEF Ticket!PlatformNotices, Ticket!CustomerNotices
  <1> HIDE DEF readers
  <1>3. /\ readers \in Seq(Sides) /\ Len(readers) \in Nat
        /\ DOMAIN readers = 1 .. Len(readers)
    <2>1. CASE readers = <<>>
      BY <2>1, EmptySeq
    <2>2. CASE readers = <<"raiser">>
      BY <2>2 DEF Sides
    <2>3. CASE readers = <<"desk">>
      BY <2>3 DEF Sides
    <2>4. CASE readers = <<"raiser", "desk">>
      BY <2>4 DEF Sides
    <2> QED
      BY <1>2, <2>1, <2>2, <2>3, <2>4
  <1>4. /\ e.by \in Sides /\ e.type \in {"CREATED", "MESSAGE_ADDED", "STATUS_CHANGED"}
        /\ e.type = "CREATED" => e.by = "raiser"
        /\ e.type = "STATUS_CHANGED" /\ e.by = "raiser" => e.to = "OPEN"
    BY DEF TicketEvents, Ticket!Created, Sides
  <1>5. /\ Ticket!CallsFor(e, side) =>
             readers = <<side>> \/ (e.by = "raiser" /\ side = "desk" /\ readers = <<"raiser", "desk">>)
        /\ ~Ticket!CallsFor(e, side) =>
             \A k \in 1 .. Len(readers) : ~ (readers[k] = side /\ e.by # side)
    <2>1. CASE channel = "CPO_PLATFORM"
      BY <1>4, <2>1 DEF Ticket!CallsFor, Ticket!PlatformNotices, Sides, readers
    <2>2. CASE channel = "CUSTOMER_CPO"
      <3>1. /\ readers = Ticket!CustomerNotices(e)
            /\ Ticket!CallsFor(e, side) <=> e.by # side /\ (e.type # "STATUS_CHANGED" \/ side = "raiser")
        BY <2>2 DEF Ticket!CallsFor, readers
      <3>2. CASE e.by = "desk"
        <4>1. readers = <<"raiser">>
          BY <3>1, <3>2 DEF Ticket!CustomerNotices
        <4> QED
          BY <3>1, <3>2, <4>1 DEF Sides
      <3>3. CASE e.by = "raiser" /\ e.type = "STATUS_CHANGED"
        <4>1. readers = <<>>
          BY <3>1, <3>3 DEF Ticket!CustomerNotices
        <4> QED
          BY <3>1, <3>3, <4>1 DEF Sides
      <3>4. CASE e.by = "raiser" /\ e.type # "STATUS_CHANGED"
        <4>1. readers = <<"desk">>
          BY <3>1, <3>4 DEF Ticket!CustomerNotices
        <4> QED
          BY <3>1, <3>4, <4>1 DEF Sides
      <3> QED
        BY <1>4, <3>2, <3>3, <3>4 DEF Sides
    <2> QED
      BY <2>1, <2>2
  <1>6. /\ ms \in Seq(TicketNotices) /\ Len(ms) = Len(readers)
        /\ \A k \in 1 .. Len(ms) : ms[k].to = readers[k] /\ ms[k].about = e
    <2>1. \A k \in 1 .. Len(readers) : readers[k] \in Sides
      BY <1>3
    <2>2. ms = [i \in 1 .. Len(readers) |-> [to |-> readers[i], about |-> e]]
      BY <1>3
    <2>3. \A k \in 1 .. Len(readers) : [to |-> readers[k], about |-> e] \in TicketNotices
      BY <2>1 DEF TicketNotices
    <2>4. ms \in [1 .. Len(readers) -> TicketNotices]
      BY <2>2, <2>3
    <2>5. ms \in Seq(TicketNotices) /\ Len(ms) = Len(readers)
      BY <1>3, <2>2, <2>4, SeqDef
    <2> QED
      BY <1>3, <2>5
  <1> HIDE DEF ms
  <1>7. Ticket!CallsFor(e, side) =>
          /\ e.by # side
          /\ \E k \in 1 .. Len(readers) : \A l \in 1 .. Len(readers) : readers[l] = side <=> l = k
    <2>1. Ticket!CallsFor(e, side) => e.by # side
      BY DEF Ticket!CallsFor
    <2>2. CASE readers = <<side>>
      BY <2>1, <2>2
    <2>3. CASE side = "desk" /\ readers = <<"raiser", "desk">>
      BY <2>1, <2>3
    <2> QED
      BY <1>5, <2>1, <2>2, <2>3
  <1>8. ~Ticket!CallsFor(e, side) =>
          \A k \in 1 .. Len(ms) : ~ (ms[k].to = side /\ ms[k].about.by # side)
    BY <1>5, <1>6
  <1>9. Ticket!CallsFor(e, side) =>
          \E k \in 1 .. Len(ms) : \A l \in 1 .. Len(ms) :
            (ms[l].to = side /\ ms[l].about.by # side) <=> l = k
    BY <1>6, <1>7
  <1> QED
    BY <1>1, <1>6, <1>8, <1>9

LEMMA ToldFurther ==
  ASSUME NEW es \in Seq(TicketEvents), NEW ns \in Seq(TicketNotices), NEW e \in TicketEvents,
         NEW side \in Sides, InTurn(es, ns, side), channel \in {"CPO_PLATFORM", "CUSTOMER_CPO"}
  PROVE  InTurn(Longer(es, e), Further(ns, e), side)
  <1> DEFINE more == Longer(es, e)
             ms == Ticket!NoticesOf(e)
             ns2 == Further(ns, e)
             T == Calling(es, side)
             S == Received(ns, side)
             y == Len(es) + 1
  <1>1. /\ Len(es) \in Nat /\ Len(more) = Len(es) + 1 /\ more[y] = e
        /\ \A i \in 1 .. Len(es) : more[i] = es[i]
    BY LongerStory
  <1>2. /\ ms \in Seq(TicketNotices)
        /\ \A k \in 1 .. Len(ms) : ms[k].about = e
        /\ ~Ticket!CallsFor(e, side) =>
             \A k \in 1 .. Len(ms) : ~ (ms[k].to = side /\ ms[k].about.by # side)
        /\ Ticket!CallsFor(e, side) =>
             \E k \in 1 .. Len(ms) : \A l \in 1 .. Len(ms) :
               (ms[l].to = side /\ ms[l].about.by # side) <=> l = k
    BY ToldOnce
  <1>3. /\ Len(ns) \in Nat /\ Len(ms) \in Nat /\ Len(ns2) = Len(ns) + Len(ms)
        /\ \A n \in 1 .. Len(ns) : ns2[n] = ns[n]
        /\ \A n \in Len(ns) + 1 .. Len(ns) + Len(ms) : ns2[n] = ms[n - Len(ns)]
    BY <1>2, ConcatProperties, LenProperties DEF Further
  <1> HIDE DEF more, ms, ns2
  <1>4. /\ S \in SUBSET (1 .. Len(ns)) /\ T \in SUBSET (1 .. Len(es))
        /\ IsFiniteSet(S) /\ IsFiniteSet(T)
    <2>1. S \in SUBSET (1 .. Len(ns)) /\ T \in SUBSET (1 .. Len(es))
      BY DEF Calling, Received
    <2>2. IsFiniteSet(1 .. Len(ns)) /\ IsFiniteSet(1 .. Len(es))
      BY <1>1, <1>3, FS_Interval
    <2> HIDE DEF S, T
    <2> QED
      BY <2>1, <2>2, FS_Subset
  <1>5. CASE ~Ticket!CallsFor(e, side)
    <2>1. Calling(more, side) = T
      BY <1>1, <1>5 DEF Calling
    <2>2. Received(ns2, side) = S
      <3>1. ASSUME NEW n \in 1 .. Len(ns2), ns2[n].to = side, ns2[n].about.by # side
            PROVE  n \in S
        <4>1. CASE n \in 1 .. Len(ns)
          BY <1>3, <3>1, <4>1 DEF Received
        <4>2. CASE n \in Len(ns) + 1 .. Len(ns) + Len(ms)
          <5>1. n - Len(ns) \in 1 .. Len(ms) /\ ns2[n] = ms[n - Len(ns)]
            BY <1>3, <4>2
          <5> QED
            BY <1>2, <1>5, <3>1, <5>1
        <4> QED
          BY <1>3, <4>1, <4>2
      <3>2. ASSUME NEW n \in S
            PROVE  n \in 1 .. Len(ns2) /\ ns2[n].to = side /\ ns2[n].about.by # side
        BY <1>3 DEF Received
      <3> QED
        BY <3>1, <3>2 DEF Received
    <2> QED
      BY <1>1, <1>3, <1>4, <2>1, <2>2 DEF InTurn, more, ns2
  <1>6. CASE Ticket!CallsFor(e, side)
    <2>1. PICK k \in 1 .. Len(ms) : \A l \in 1 .. Len(ms) :
                 (ms[l].to = side /\ ms[l].about.by # side) <=> l = k
      BY <1>2, <1>6
    <2> DEFINE x == Len(ns) + k
    <2>2. Calling(more, side) = T \cup {y}
      <3>1. \A i : i \in 1 .. Len(more) <=> i \in 1 .. Len(es) \/ i = y
        BY <1>1
      <3> QED
        BY <1>1, <1>6, <3>1 DEF Calling
    <2>3. Received(ns2, side) = S \cup {x}
      <3>1. ASSUME NEW n \in 1 .. Len(ns2), ns2[n].to = side, ns2[n].about.by # side
            PROVE  n \in S \cup {x}
        <4>1. CASE n \in 1 .. Len(ns)
          BY <1>3, <3>1, <4>1 DEF Received
        <4>2. CASE n \in Len(ns) + 1 .. Len(ns) + Len(ms)
          <5>1. n - Len(ns) \in 1 .. Len(ms) /\ ns2[n] = ms[n - Len(ns)]
            BY <1>3, <4>2
          <5>2. n - Len(ns) = k
            BY <2>1, <3>1, <5>1
          <5> QED
            BY <1>3, <5>2
        <4> QED
          BY <1>3, <4>1, <4>2
      <3>2. ASSUME NEW n \in S
            PROVE  n \in 1 .. Len(ns2) /\ ns2[n].to = side /\ ns2[n].about.by # side
        BY <1>3 DEF Received
      <3>3. x \in 1 .. Len(ns2) /\ ns2[x].to = side /\ ns2[x].about.by # side
        <4>1. x \in Len(ns) + 1 .. Len(ns) + Len(ms) /\ x - Len(ns) = k
          BY <1>3
        <4> QED
          BY <1>3, <2>1, <4>1
      <3> QED
        BY <3>1, <3>2, <3>3 DEF Received
    <2>4. /\ x \in Nat /\ y \in Nat /\ (\A s \in S : s < x) /\ (\A t \in T : t < y)
          /\ S \in SUBSET Nat /\ T \in SUBSET Nat
      BY <1>1, <1>3, <1>4
    <2>5. /\ Cardinality(S) = Cardinality(T)
          /\ \A n \in S, i \in T : Before(S, n) = Before(T, i) => ns[n].about = es[i]
      BY DEF InTurn
    <2>6. ns2[x].about = e
      BY <1>2, <1>3
    <2>7. \A n \in S : ns2[n] = ns[n]
      BY <1>3, <1>4
    <2>8. \A i \in T : more[i] = es[i]
      BY <1>1, <1>4
    <2> HIDE DEF S, T, x, y
    <2>9. /\ Cardinality(S \cup {x}) = Cardinality(T \cup {y})
          /\ \A s \in S \cup {x}, t \in T \cup {y} :
               Before(S \cup {x}, s) = Before(T \cup {y}, t) =>
                 (s = x /\ t = y) \/ (s \in S /\ t \in T /\ Before(S, s) = Before(T, t))
      <3>1. /\ S \in SUBSET Nat /\ T \in SUBSET Nat /\ IsFiniteSet(S) /\ IsFiniteSet(T)
            /\ Cardinality(S) = Cardinality(T) /\ x \in Nat /\ y \in Nat
        BY <1>4, <2>4, <2>5
      <3>2. /\ \A s \in S : s < x
            /\ \A t \in T : t < y
        BY <2>4
      <3>3. /\ Cardinality(With(S, x)) = Cardinality(With(T, y))
            /\ \A s \in With(S, x), t \in With(T, y) :
                 Before(With(S, x), s) = Before(With(T, y), t) =>
                   (s = x /\ t = y) \/ (s \in S /\ t \in T /\ Before(S, s) = Before(T, t))
        BY <3>1, <3>2, GrowTogether
      <3> QED
        BY <3>3 DEF With
    <2>10. \A s \in S \cup {x}, t \in T \cup {y} :
             Before(S \cup {x}, s) = Before(T \cup {y}, t) => ns2[s].about = more[t]
      BY <1>1, <2>5, <2>6, <2>7, <2>8, <2>9
    <2> QED
      BY <2>2, <2>3, <2>9, <2>10 DEF InTurn, more, ns2
  <1> QED
    BY <1>5, <1>6 DEF more, ns2

LEMMA TaleGoesOn ==
  ASSUME NEW es, NEW ns, NEW status, NEW e \in TicketEvents, Tale(es, ns, status),
         channel \in {"CPO_PLATFORM", "CUSTOMER_CPO"},
         e.type = "STATUS_CHANGED" => e.from = status /\ Ticket!ValidTransition(e.from, e.to),
         e.type = "MESSAGE_ADDED" => ~Ticket!UsedIn(es, e.key)
  PROVE  Tale(Longer(es, e), Further(ns, e), After(status, e))
  <1>1. es \in Seq(TicketEvents) /\ ns \in Seq(TicketNotices)
    BY DEF Tale
  <1>2. StoryOf(Longer(es, e)) /\ LeadsTo(Longer(es, e), Len(Longer(es, e)) + 1, After(status, e))
    BY <1>1, StoryGoesOn DEF Tale
  <1>3. KeysOnce(Longer(es, e)) /\ Longer(es, e) \in Seq(TicketEvents)
    BY <1>1, KeysStayApart, LongerStory DEF Tale
  <1>4. \A side \in Sides : InTurn(Longer(es, e), Further(ns, e), side)
    BY <1>1, ToldFurther DEF Tale
  <1>5. Further(ns, e) \in Seq(TicketNotices)
    <2>1. Ticket!NoticesOf(e) \in Seq(TicketNotices)
      <3>1. "desk" \in Sides
        BY DEF Sides
      <3> QED
        BY <3>1, ToldOnce
    <2> QED
      BY <1>1, <2>1, ConcatProperties DEF Further
  <1> QED
    BY <1>2, <1>3, <1>4, <1>5 DEF Tale

TicketRows == [status : Ticket!Statuses \cup {"none"}, closed : BOOLEAN, events : Seq(TicketEvents)]
TicketTypes ==
  /\ channel \in {"CPO_PLATFORM", "CUSTOMER_CPO"}
  /\ ticket \in TicketRows
  /\ pending \in [TicketRequests -> {Ticket!Idle} \cup
                    [op : {"REPLY", "SET_STATUS"}, asked : Ticket!Asked, read : TicketRows]]

StandsAt == IF ticket = Ticket!NoTicket THEN "OPEN" ELSE ticket.status

\* Who has read the ticket knows it, and nobody else has read it.
KnowsTicket(q) ==
  /\ pending[q] # Ticket!Idle => ticket # Ticket!NoTicket /\ pending[q].op = pending[q].asked.op
  /\ Ticket!HasRead(q) => pending[q].read = ticket
  /\ Ticket!HasRead(q) => \A r \in TicketRequests \ {q} : ~Ticket!HasRead(r)

TicketInv ==
  /\ TicketTypes
  /\ \A q \in TicketRequests : KnowsTicket(q)
  /\ Tale(ticket.events, notices, StandsAt)
  /\ ticket # Ticket!NoTicket => ticket.status \in Ticket!Statuses
                                 /\ (ticket.closed <=> ticket.status = "CLOSED")

LEMMA EmptyTale == Tale(<<>>, <<>>, "OPEN")
  <1>1. /\ <<>> \in Seq(TicketEvents) /\ <<>> \in Seq(TicketNotices) /\ Len(<<>>) = 0
    BY EmptySeq
  <1>2. StoryOf(<<>>) /\ KeysOnce(<<>>) /\ LeadsTo(<<>>, 1, "OPEN")
    BY <1>1 DEF StoryOf, KeysOnce, LeadsTo
  <1>3. \A side \in Sides : InTurn(<<>>, <<>>, side)
    <2> SUFFICES ASSUME NEW side \in Sides
                 PROVE  InTurn(<<>>, <<>>, side)
      OBVIOUS
    <2>1. Calling(<<>>, side) = {} /\ Received(<<>>, side) = {}
      BY <1>1 DEF Calling, Received
    <2> QED
      BY <2>1 DEF InTurn
  <1> QED
    BY <1>1, <1>2, <1>3 DEF Tale

LEMMA TicketStarts ==
  ASSUME Ticket!SupportInit
  PROVE  TicketInv
  <1>1. /\ channel \in {"CPO_PLATFORM", "CUSTOMER_CPO"} /\ ticket = Ticket!NoTicket
        /\ notices = <<>> /\ pending = [q \in TicketRequests |-> Ticket!Idle]
    BY DEF Ticket!SupportInit
  <1>2. ticket \in TicketRows /\ ticket.events = <<>>
    BY <1>1, EmptySeq DEF TicketRows, Ticket!NoTicket
  <1>3. Tale(ticket.events, notices, StandsAt)
    BY <1>1, <1>2, EmptyTale DEF StandsAt
  <1> QED
    BY <1>1, <1>2, <1>3 DEF TicketInv, TicketTypes, KnowsTicket, Ticket!HasRead

\* What a request asks for and reads is its own business.
LEMMA OtherRequestsKnow ==
  ASSUME TicketInv, NEW q \in TicketRequests, NEW w,
         w \in {Ticket!Idle} \cup [op : {"REPLY", "SET_STATUS"}, asked : Ticket!Asked, read : TicketRows],
         pending' = [pending EXCEPT ![q] = w], UNCHANGED <<channel, ticket, notices>>,
         w # Ticket!Idle => ticket # Ticket!NoTicket /\ w.op = w.asked.op,
         w # Ticket!Idle /\ w.read # Ticket!NoTicket =>
           w.read = ticket /\ \A r \in TicketRequests \ {q} : ~Ticket!HasRead(r)
  PROVE  TicketInv'
  <1>1. /\ DOMAIN pending = TicketRequests /\ pending'[q] = w
        /\ \A r \in TicketRequests \ {q} : pending'[r] = pending[r]
    BY DEF TicketInv, TicketTypes
  <1>2. TicketTypes'
    BY DEF TicketInv, TicketTypes
  <1>3. \A r \in TicketRequests \ {q} : Ticket!HasRead(r)' <=> Ticket!HasRead(r)
    BY <1>1 DEF Ticket!HasRead
  <1>4. Ticket!HasRead(q)' <=> w # Ticket!Idle /\ w.read # Ticket!NoTicket
    BY <1>1 DEF Ticket!HasRead
  <1>5. KnowsTicket(q)'
    BY <1>1, <1>3, <1>4 DEF KnowsTicket
  <1>6. ASSUME NEW r \in TicketRequests \ {q}
        PROVE  KnowsTicket(r)'
    BY <1>1, <1>3, <1>4 DEF TicketInv, KnowsTicket
  <1>7. Tale(ticket.events, notices, StandsAt)'
    <2>1. channel' = channel /\ ticket' = ticket /\ notices' = notices
      OBVIOUS
    <2>2. \A side : Calling(ticket.events, side)' = Calling(ticket.events, side)
      BY <2>1 DEF Calling, Ticket!CallsFor
    <2> QED
      BY <2>1, <2>2 DEF TicketInv, Tale, StandsAt, InTurn
  <1> QED
    BY <1>2, <1>5, <1>6, <1>7 DEF TicketInv

\* A commit of one event, or of two: the ticket and the notices after it.
LEMMA OneEvent ==
  ASSUME NEW es \in Seq(TicketEvents), NEW e \in TicketEvents
  PROVE  es \o <<e>> = Longer(es, e)
  BY AppendIsConcat DEF Longer

LEMMA TwoEvents ==
  ASSUME NEW es \in Seq(TicketEvents), NEW e \in TicketEvents, NEW f \in TicketEvents
  PROVE  es \o <<e, f>> = Longer(Longer(es, e), f)
  <1>1. es \o <<e>> = Longer(es, e) /\ Longer(es, e) \in Seq(TicketEvents)
    BY OneEvent, LongerStory
  <1>2. Longer(Longer(es, e), f) = (es \o <<e>>) \o <<f>>
    BY <1>1, OneEvent
  <1> DEFINE s == <<e>>
             t == <<f>>
  <1>3. s \in Seq(TicketEvents) /\ t \in Seq(TicketEvents)
    OBVIOUS
  <1>4. s \o t = <<e, f>>
    <2>1. s \o t = Append(s, f)
      BY <1>3, AppendIsConcat
    <2>2. Len(s) = 1 /\ s[1] = e
      OBVIOUS
    <2> DEFINE u == <<e, f>>
    <2>3. u \in Seq(TicketEvents) /\ Len(u) = 2 /\ u[1] = e /\ u[2] = f
      OBVIOUS
    <2> HIDE DEF s, u
    <2>4. /\ Append(s, f) \in Seq(TicketEvents) /\ Len(Append(s, f)) = 2
          /\ Append(s, f)[1] = e /\ Append(s, f)[2] = f
      <3>1. 1 \in 1 .. Len(s) /\ Len(s) + 1 = 2
        BY <2>2
      <3>2. /\ Append(s, f) \in Seq(TicketEvents) /\ Len(Append(s, f)) = Len(s) + 1
            /\ \A i \in 1 .. Len(s) : Append(s, f)[i] = s[i]
            /\ Append(s, f)[Len(s) + 1] = f
        BY <1>3, AppendProperties
      <3> QED
        BY <2>2, <3>1, <3>2
    <2>5. Append(s, f) = u
      BY <2>3, <2>4, SeqEqual
    <2> QED
      BY <2>1, <2>5 DEF u
  <1>5. Longer(Longer(es, e), f) = (es \o s) \o t
    BY <1>2
  <1> HIDE DEF s, t
  <1>6. (es \o s) \o t = es \o (s \o t)
    BY <1>3, ConcatAssociative
  <1> QED
    BY <1>4, <1>5, <1>6

\* The tale of a state that was reached by a commit.
LEMMA CommitTells ==
  ASSUME TicketInv, NEW q \in TicketRequests, Ticket!HasRead(q),
         NEW status \in Ticket!Statuses, NEW closed \in BOOLEAN, NEW events,
         closed <=> status = "CLOSED",
         Ticket!Commit(q, status, closed, events),
         Tale(ticket.events \o events, notices', status)
  PROVE  TicketInv'
  <1> DEFINE es == ticket.events \o events
             row == [status |-> status, closed |-> closed, events |-> es]
  <1>1. /\ ticket' = row /\ pending' = [pending EXCEPT ![q] = Ticket!Idle] /\ channel' = channel
    BY DEF Ticket!Commit
  <1>2. es \in Seq(TicketEvents)
    BY DEF Tale
  <1>3. Tale(es, notices', status)
    OBVIOUS
  <1> HIDE DEF es
  <1>4. /\ row \in TicketRows /\ row # Ticket!NoTicket
        /\ row.status = status /\ row.events = es /\ (row.closed <=> status = "CLOSED")
    <2>1. "none" \notin Ticket!Statuses
      BY DEF Ticket!Statuses
    <2>2. row \in TicketRows
      BY <1>2 DEF TicketRows
    <2> QED
      BY <2>1, <2>2 DEF Ticket!NoTicket
  <1> HIDE DEF row
  <1>5. TicketTypes'
    BY <1>1, <1>4 DEF TicketInv, TicketTypes
  <1>6. \A r \in TicketRequests : ~Ticket!HasRead(r)'
    BY <1>1 DEF TicketInv, TicketTypes, KnowsTicket, Ticket!HasRead
  <1>7. ASSUME NEW r \in TicketRequests
        PROVE  KnowsTicket(r)'
    BY <1>1, <1>4, <1>6 DEF TicketInv, TicketTypes, KnowsTicket
  <1>8. Tale(ticket.events, notices, StandsAt)'
    <2>1. ticket'.events = es /\ StandsAt' = status
      BY <1>1, <1>4 DEF StandsAt
    <2>2. \A side : Calling(ticket.events, side)' = Calling(es, side)
      BY <1>1, <2>1 DEF Calling, Ticket!CallsFor
    <2> QED
      BY <1>3, <2>1, <2>2 DEF Tale, InTurn
  <1> QED
    BY <1>1, <1>4, <1>5, <1>7, <1>8 DEF TicketInv

LEMMA TicketCreated ==
  ASSUME TicketInv, Ticket!CreateTicket
  PROVE  TicketInv'
  <1> DEFINE e == Ticket!Created
             row == [status |-> "OPEN", closed |-> FALSE, events |-> <<e>>]
  <1>1. /\ ticket = Ticket!NoTicket /\ ticket' = row /\ UNCHANGED <<channel, pending>>
        /\ notices' = notices \o Ticket!NoticesOf(e)
    <2>1. Len(<<e>>) = 1 /\ <<e>>[1] = e
      OBVIOUS
    <2> HIDE DEF e
    <2> QED
      BY <2>1 DEF Ticket!CreateTicket, Ticket!Tell, e
  <1>2. /\ ticket.events = <<>> /\ e \in TicketEvents
        /\ e.type # "STATUS_CHANGED" /\ e.type # "MESSAGE_ADDED"
    BY <1>1 DEF Ticket!NoTicket, TicketEvents, Ticket!Created
  <1> HIDE DEF e
  <1>3. Tale(<<>>, notices, "OPEN") /\ channel \in {"CPO_PLATFORM", "CUSTOMER_CPO"}
    BY <1>1, <1>2 DEF TicketInv, TicketTypes, StandsAt
  <1>4. Tale(Longer(<<>>, e), Further(notices, e), After("OPEN", e))
    BY <1>2, <1>3, TaleGoesOn
  <1>5. Longer(<<>>, e) = <<e>> /\ Further(notices, e) = notices' /\ After("OPEN", e) = "OPEN"
    BY <1>1, <1>2, EmptySeq DEF Longer, Further, After
  <1>6. Tale(<<e>>, notices', "OPEN")
    BY <1>4, <1>5
  <1>7. <<e>> \in Seq(TicketEvents)
    BY <1>2
  <1>8. /\ row \in TicketRows /\ row # Ticket!NoTicket /\ row.status = "OPEN" /\ row.events = <<e>>
        /\ row.status \in Ticket!Statuses /\ (row.closed <=> row.status = "CLOSED")
    BY <1>7 DEF TicketRows, Ticket!NoTicket, Ticket!Statuses
  <1> HIDE DEF row
  <1>9. TicketTypes'
    BY <1>1, <1>8 DEF TicketInv, TicketTypes
  <1>10. ASSUME NEW r \in TicketRequests
         PROVE  KnowsTicket(r)'
    BY <1>1 DEF TicketInv, KnowsTicket, Ticket!HasRead
  <1>11. Tale(ticket.events, notices, StandsAt)'
    <2>1. ticket'.events = <<e>> /\ StandsAt' = "OPEN"
      BY <1>1, <1>8 DEF StandsAt
    <2>2. \A side : Calling(ticket.events, side)' = Calling(<<e>>, side)
      BY <1>1, <2>1 DEF Calling, Ticket!CallsFor
    <2> QED
      BY <1>6, <2>1, <2>2 DEF Tale, InTurn
  <1> QED
    BY <1>1, <1>8, <1>9, <1>10, <1>11 DEF TicketInv

LEMMA TicketAsked ==
  ASSUME TicketInv, NEW q \in TicketRequests, NEW r \in Ticket!Asked, Ticket!AskFor(q, r)
  PROVE  TicketInv'
  <1> DEFINE w == [op |-> r.op, asked |-> r, read |-> Ticket!NoTicket]
  <1>1. /\ pending' = [pending EXCEPT ![q] = w] /\ UNCHANGED <<channel, ticket, notices>>
        /\ ticket # Ticket!NoTicket
    BY DEF Ticket!AskFor
  <1>2. Ticket!NoTicket \in TicketRows
    BY EmptySeq DEF TicketRows, Ticket!NoTicket
  <1>3. r.op \in {"REPLY", "SET_STATUS"}
    BY DEF Ticket!Asked
  <1>4. /\ w \in [op : {"REPLY", "SET_STATUS"}, asked : Ticket!Asked, read : TicketRows]
        /\ w.op = w.asked.op /\ w.read = Ticket!NoTicket
    BY <1>2, <1>3
  <1> HIDE DEF w
  <1> QED
    BY <1>1, <1>4, OtherRequestsKnow

LEMMA TicketLocked ==
  ASSUME TicketInv, NEW q \in TicketRequests, Ticket!LockTicket(q)
  PROVE  TicketInv'
  <1> DEFINE w == [pending[q] EXCEPT !.read = ticket]
  <1>1. /\ pending' = [pending EXCEPT ![q] = w] /\ UNCHANGED <<channel, ticket, notices>>
        /\ pending[q] # Ticket!Idle /\ \A r \in TicketRequests \ {q} : ~Ticket!HasRead(r)
    BY DEF Ticket!LockTicket, Ticket!Reading
  <1>2. /\ pending[q] \in [op : {"REPLY", "SET_STATUS"}, asked : Ticket!Asked, read : TicketRows]
        /\ ticket \in TicketRows /\ ticket # Ticket!NoTicket /\ pending[q].op = pending[q].asked.op
    BY <1>1 DEF TicketInv, TicketTypes, KnowsTicket
  <1>3. /\ w \in [op : {"REPLY", "SET_STATUS"}, asked : Ticket!Asked, read : TicketRows]
        /\ w.op = w.asked.op /\ w.read = ticket
    BY <1>2
  <1> HIDE DEF w
  <1> QED
    BY <1>1, <1>2, <1>3, OtherRequestsKnow

LEMMA TicketLeft ==
  ASSUME TicketInv, NEW q \in TicketRequests, Ticket!LeaveAsIs(q)
  PROVE  TicketInv'
  BY OtherRequestsKnow DEF Ticket!LeaveAsIs

LEMMA TicketReplied ==
  ASSUME TicketInv, NEW q \in TicketRequests, Ticket!Reply(q)
  PROVE  TicketInv'
  <1> DEFINE r == pending[q].asked
             was == pending[q].read.status
             next == IF r.by = "raiser" /\ was \in {"RESOLVED", "CLOSED"} THEN "OPEN" ELSE was
             e == Ticket!Message(r.by, r.key)
             f == Ticket!StatusChange(r.by, was, next)
             es == ticket.events
  <1>1. /\ Ticket!HasRead(q) /\ pending[q].op = "REPLY" /\ ~Ticket!UsedIn(es, r.key)
        /\ Ticket!Commit(q, next, next = "CLOSED", IF next = was THEN <<e>> ELSE <<e, f>>)
    BY DEF Ticket!Reply
  <1>2. /\ pending[q] \in [op : {"REPLY", "SET_STATUS"}, asked : Ticket!Asked, read : TicketRows]
        /\ pending[q].asked.op = "REPLY" /\ pending[q].read = ticket /\ ticket # Ticket!NoTicket
    BY <1>1 DEF TicketInv, TicketTypes, KnowsTicket, Ticket!HasRead
  <1>3. /\ r.by \in Sides /\ r.key \in ReplyKeys
        /\ was = ticket.status /\ was \in Ticket!Statuses /\ next \in Ticket!Statuses
        /\ next # was => was \in {"RESOLVED", "CLOSED"} /\ next = "OPEN" /\ r.by = "raiser"
        /\ Tale(es, notices, was) /\ channel \in {"CPO_PLATFORM", "CUSTOMER_CPO"}
    <2>1. r.by \in Sides /\ r.key \in ReplyKeys
      BY <1>2 DEF Ticket!Asked, Sides
    <2>2. was = ticket.status /\ was \in Ticket!Statuses
      BY <1>2 DEF TicketInv
    <2> QED
      BY <1>2, <2>1, <2>2 DEF TicketInv, TicketTypes, StandsAt, Ticket!Statuses
  <1>4. /\ e \in TicketEvents /\ e.type = "MESSAGE_ADDED" /\ e.key = r.key
        /\ next # was => f \in TicketEvents /\ f.type = "STATUS_CHANGED" /\ f.from = was
                         /\ f.to = next /\ Ticket!ValidTransition(was, next)
    BY <1>3 DEF TicketEvents, Ticket!Message, Ticket!StatusChange, Ticket!ValidTransition
  <1>5. es \in Seq(TicketEvents)
    BY <1>3 DEF Tale
  <1> HIDE DEF r, was, next, e, f, es
  <1>6. Tale(Longer(es, e), Further(notices, e), was)
    <2>1. After(was, e) = was
      BY <1>4 DEF After
    <2>2. Tale(Longer(es, e), Further(notices, e), After(was, e))
      BY <1>1, <1>3, <1>4, TaleGoesOn
    <2> QED
      BY <2>1, <2>2
  <1>7. CASE next = was
    <2>1. es \o <<e>> = Longer(es, e) /\ notices' = Further(notices, e)
      <3>1. Ticket!Tell(<<e>>)
        BY <1>1, <1>7 DEF Ticket!Commit
      <3>2. Len(<<e>>) = 1 /\ <<e>>[1] = e
        OBVIOUS
      <3> QED
        BY <1>4, <1>5, <3>1, <3>2, OneEvent DEF Ticket!Tell, Further
    <2>2. Tale(es \o <<e>>, notices', next)
      BY <1>6, <1>7, <2>1
    <2>3. Ticket!Commit(q, next, next = "CLOSED", <<e>>)
      BY <1>1, <1>7
    <2> QED
      BY <1>1, <1>3, <2>2, <2>3, CommitTells DEF es
  <1>8. CASE next # was
    <2>1. Tale(Longer(Longer(es, e), f), Further(Further(notices, e), f), next)
      <3>1. After(was, f) = next
        BY <1>4, <1>8 DEF After
      <3>2. Tale(Longer(Longer(es, e), f), Further(Further(notices, e), f), After(was, f))
        BY <1>3, <1>4, <1>6, <1>8, TaleGoesOn
      <3> QED
        BY <3>1, <3>2
    <2>2. es \o <<e, f>> = Longer(Longer(es, e), f) /\ notices' = Further(Further(notices, e), f)
      <3>1. Ticket!Tell(<<e, f>>)
        BY <1>1, <1>8 DEF Ticket!Commit
      <3>2. Len(<<e, f>>) = 2 /\ <<e, f>>[1] = e /\ <<e, f>>[2] = f
        OBVIOUS
      <3> QED
        BY <1>4, <1>5, <1>8, <3>1, <3>2, TwoEvents DEF Ticket!Tell, Further
    <2>3. Tale(es \o <<e, f>>, notices', next)
      BY <2>1, <2>2
    <2>4. Ticket!Commit(q, next, next = "CLOSED", <<e, f>>)
      BY <1>1, <1>8
    <2> QED
      BY <1>1, <1>3, <2>3, <2>4, CommitTells DEF es
  <1> QED
    BY <1>7, <1>8

LEMMA TicketDecided ==
  ASSUME TicketInv, NEW q \in TicketRequests, Ticket!SetStatus(q)
  PROVE  TicketInv'
  <1> DEFINE to == pending[q].asked.to
             was == pending[q].read.status
             f == Ticket!StatusChange("desk", was, to)
             es == ticket.events
  <1>1. /\ Ticket!HasRead(q) /\ pending[q].op = "SET_STATUS" /\ Ticket!ValidTransition(was, to)
        /\ Ticket!Commit(q, to, to = "CLOSED", <<f>>)
    BY DEF Ticket!SetStatus
  <1>2. /\ pending[q] \in [op : {"REPLY", "SET_STATUS"}, asked : Ticket!Asked, read : TicketRows]
        /\ pending[q].asked.op = "SET_STATUS" /\ pending[q].read = ticket /\ ticket # Ticket!NoTicket
    BY <1>1 DEF TicketInv, TicketTypes, KnowsTicket, Ticket!HasRead
  <1>3. /\ to \in Ticket!Statuses /\ was = ticket.status /\ was \in Ticket!Statuses
        /\ Tale(es, notices, was) /\ channel \in {"CPO_PLATFORM", "CUSTOMER_CPO"}
    <2>1. to \in Ticket!Statuses
      BY <1>2 DEF Ticket!Asked
    <2>2. was = ticket.status /\ was \in Ticket!Statuses
      BY <1>2 DEF TicketInv
    <2> QED
      BY <1>2, <2>1, <2>2 DEF TicketInv, TicketTypes, StandsAt
  <1>4. /\ f \in TicketEvents /\ f.type = "STATUS_CHANGED" /\ f.from = was /\ f.to = to
    BY <1>3 DEF TicketEvents, Ticket!StatusChange
  <1>5. es \in Seq(TicketEvents)
    BY <1>3 DEF Tale
  <1> HIDE DEF to, was, f, es
  <1>6. Tale(Longer(es, f), Further(notices, f), After(was, f)) /\ After(was, f) = to
    BY <1>1, <1>3, <1>4, TaleGoesOn DEF After
  <1>7. es \o <<f>> = Longer(es, f) /\ notices' = Further(notices, f)
    <2>1. Ticket!Tell(<<f>>)
      BY <1>1 DEF Ticket!Commit
    <2>2. Len(<<f>>) = 1 /\ <<f>>[1] = f
      OBVIOUS
    <2> QED
      BY <1>4, <1>5, <2>1, <2>2, OneEvent DEF Ticket!Tell, Further
  <1>8. Tale(es \o <<f>>, notices', to)
    BY <1>6, <1>7
  <1> QED
    BY <1>1, <1>3, <1>8, CommitTells DEF es

LEMMA TicketInvStays ==
  ASSUME TicketInv, [Ticket!SupportNext]_ticketVars
  PROVE  TicketInv'
  <1>1. CASE UNCHANGED ticketVars
    <2>1. channel' = channel /\ ticket' = ticket /\ notices' = notices /\ pending' = pending
      BY <1>1 DEF ticketVars
    <2>2. Tale(ticket.events, notices, StandsAt)'
      <3>1. \A side : Calling(ticket.events, side)' = Calling(ticket.events, side)
        BY <2>1 DEF Calling, Ticket!CallsFor
      <3> QED
        BY <2>1, <3>1 DEF TicketInv, Tale, StandsAt, InTurn
    <2> QED
      BY <2>1, <2>2 DEF TicketInv, TicketTypes, KnowsTicket, Ticket!HasRead
  <1> QED
    BY <1>1, TicketCreated, TicketAsked, TicketLocked, TicketReplied, TicketDecided, TicketLeft
       DEF Ticket!SupportNext

LEMMA TicketHolds ==
  ASSUME TicketInv
  PROVE  TicketTellsItsStory
  <1> DEFINE es == ticket.events
  <1>1. /\ es \in Seq(TicketEvents) /\ notices \in Seq(TicketNotices)
        /\ DOMAIN es = 1 .. Len(es) /\ DOMAIN notices = 1 .. Len(notices)
        /\ Tale(es, notices, StandsAt) /\ ticket \in TicketRows
    BY LenProperties DEF TicketInv, TicketTypes, Tale
  <1>2. Ticket!TypeOK
    <2>1. \A i \in 1 .. Len(notices) : notices[i].to \in {"raiser", "desk"}
      <3>1. \A i \in 1 .. Len(notices) : notices[i] \in TicketNotices
        BY <1>1, ElementOfSeq
      <3> QED
        BY <3>1 DEF TicketNotices, Sides
    <2> QED
      BY <1>1, <2>1 DEF TicketInv, TicketTypes, TicketRows, Ticket!TypeOK
  <1>3. \A i, s : Ticket!LeadTo(i, s) <=> LeadsTo(es, i, s)
    BY DEF Ticket!LeadTo, Ticket!IsChange, LeadsTo
  <1>4. Ticket!OneStory
    BY <1>1, <1>3 DEF TicketInv, Tale, StoryOf, StandsAt, Ticket!OneStory, Ticket!IsChange
  <1>5. Ticket!OneMessagePerKey
    BY <1>1 DEF Tale, KeysOnce, Ticket!OneMessagePerKey
  <1>6. Ticket!OtherSideIsTold
    <2>1. \A side : /\ Ticket!Told(side) = Received(notices, side)
                    /\ Ticket!ToBeTold(side) = Calling(es, side)
      BY <1>1 DEF Ticket!Told, Ticket!ToBeTold, Received, Calling
    <2>2. \A S, i : Ticket!Earlier(S, i) = Before(S, i)
      BY DEF Ticket!Earlier, Before, Ticket!Cardinality, Cardinality
    <2>3. \A S : Ticket!Cardinality(S) = Cardinality(S)
      BY DEF Ticket!Cardinality, Cardinality
    <2> QED
      BY <1>1, <2>1, <2>2, <2>3 DEF Tale, InTurn, Sides, Ticket!OtherSideIsTold
  <1> QED
    BY <1>2, <1>4, <1>5, <1>6 DEF TicketTellsItsStory, Ticket!TicketTellsItsStory

-----------------------------------------------------------------------------
(* The parts together. *)

\* A step of the composition is one of a part, and no step of the others.
LEMMA PartSteps ==
  ASSUME [CommunicationsNext]_allVars
  PROVE  /\ [Next]_vars
         /\ [Ticket!SupportNext]_ticketVars
         /\ [Lists!PagingNext]_listVars
         /\ [Trace!TraceNext]_evidenceVars
  <1>1. CASE UNCHANGED allVars
    BY <1>1 DEF allVars
  <1>2. CASE InMails(Next)
    BY <1>2 DEF InMails
  <1>3. CASE /\ part = "ticket" /\ Ticket!SupportNext
             /\ UNCHANGED <<vars, listVars, evidenceVars, part>>
    BY <1>3
  <1>4. CASE /\ part = "list" /\ Lists!PagingNext
             /\ UNCHANGED <<vars, ticketVars, evidenceVars, part>>
    BY <1>4
  <1>5. CASE /\ part = "trace" /\ Trace!TraceNext
             /\ UNCHANGED <<vars, ticketVars, listVars, part>>
    BY <1>5
  <1> QED
    BY <1>1, <1>2, <1>3, <1>4, <1>5 DEF CommunicationsNext

\* Of any number of jobs, requests, rows, keys and events: what the parts hold on to is
\* there at the start and stays.
THEOREM CommunicationsInductive == CommunicationsSpec => [](IInv /\ TicketInv /\ ListInv /\ TraceInv)
  <1>1. CommunicationsInit => IInv /\ TicketInv /\ ListInv /\ TraceInv
    BY InitInv, TicketStarts, ListStarts, TraceStarts DEF CommunicationsInit
  <1>2. IInv /\ TicketInv /\ ListInv /\ TraceInv /\ [CommunicationsNext]_allVars
          => IInv' /\ TicketInv' /\ ListInv' /\ TraceInv'
    BY PartSteps, OutboxKept, TicketInvStays, ListInvStays, TraceInvStays
  <1> QED
    BY <1>1, <1>2, PTL DEF CommunicationsSpec

\* The outbox is as honest beside the other parts.
THEOREM MailsStayHonest == CommunicationsSpec => []DeliveryHonest
  BY CommunicationsInductive, HonestOutbox, PTL

\* Whatever requests of both sides overlap (support/): the changes of a ticket
\* start where the ones before ended and lead to its status, a key is one
\* message, and the other side is told of each event once and in order.
THEOREM TicketsTellTheirStory == CommunicationsSpec => []TicketTellsItsStory
  BY CommunicationsInductive, TicketHolds, PTL

\* Whoever follows the cursors of a list to its end (cpo/, customerauth/,
\* superadmin/, support/) was shown each row that stayed as it was, in the
\* list's order and so once, whatever was inserted, moved or removed meanwhile.
THEOREM ListsAreReadWhole == CommunicationsSpec => []ReadOnceAndWhole
  BY CommunicationsInductive, ListHolds, PTL

\* Whoever opens a charging trace and follows its replay (cpo/charging_trace.go)
\* misses no event, although numbers are taken before the commits that show
\* them; the verdict on a TriggerMessage is what the charger did, and what HAL
\* was told is stored is stored.
THEOREM EvidenceStaysWhole == CommunicationsSpec => []EvidenceIsWhole
  BY CommunicationsInductive, EvidenceHolds, PTL
=============================================================================
