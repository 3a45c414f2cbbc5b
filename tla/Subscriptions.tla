---------------------------- MODULE Subscriptions ----------------------------
(***************************************************************************)
(* The subscriptions of charge point operators: the plan catalogue, the    *)
(* commands of a platform administrator, which carry idempotency keys      *)
(* (subscriptions/service.go), the lifecycle worker of every CMS process   *)
(* (subscriptions/worker.go), and what they mean for customers             *)
(* (customerauth/subscription_admission.go).                               *)
(*                                                                         *)
(* A command reads the history for its key, selects the subscription,      *)
(* waits for its row lock and commits; plan commands lock the plan first   *)
(* and are one step.  The clock counts ticks; a request takes less than    *)
(* two.                                                                    *)
(***************************************************************************)
EXTENDS Integers, Sequences, SequencesExt, FiniteSets

CONSTANTS
  Cpos, Subs,           \* operators, and ids for their subscriptions
  Keys,                 \* idempotency keys; bounds the commands that succeed
  Operations,           \* bound: the commands administrators use
  Requests, Instances,  \* handlers and lifecycle workers that run at a time
  Period,               \* length of a plan's billing interval
  Warnings,             \* Warnings[kind]: ticks before the end (1, 3, 7 days)
  MaxTime,              \* bound of the clock
  MaxVersions           \* bound: versions of the plan

CurrentStatuses == {"TRIAL", "ACTIVE", "PAUSED", "PAST_DUE"}
Statuses == CurrentStatuses \cup {"CANCELLED", "EXPIRED"}
AllOperations == {"ISSUE", "RENEW", "CHANGE_PLAN", "ACTIVATE", "PAUSE", "RESUME",
                  "MARK_PAST_DUE", "EXPIRE", "CANCEL"}

ASSUME PeriodsAssumption ==
  /\ Operations \subseteq AllOperations
  /\ {Period, MaxTime, MaxVersions} \subseteq Nat \ {0}
  /\ DOMAIN Warnings # {}
  /\ \A kind \in DOMAIN Warnings : Warnings[kind] \in 1 .. Period - 1

VARIABLES
  now,
  plan,      \* status of the plan, and its versions: status, trial or not
  sub,       \* issued subscriptions: cpo, status, end of the period, version
  history,   \* history[s]: the transitions, in the order of their commits
  notices,   \* lifecycle events, by subscription and kind
  mailed,     \* mailed[s][kind]: jobs the worker put in the mail outbox
  request,   \* request[r]: a command on its way
  pass       \* pass[i]: the time a lifecycle pass goes by, and what is left

subscriptionVars == <<now, plan, sub, history, notices, mailed, request, pass>>

None == "none"
Free == [step |-> "idle", op |-> None, cpo |-> None, key |-> None, sub |-> None,
         at |-> 0, start |-> 0, record |-> None, version |-> 0]
NoPass == [at |-> 0, todo |-> <<>>]

SubscriptionsInit ==
  /\ now = 0
  /\ plan = [status |-> "none", versions |-> <<>>]
  /\ sub = <<>>
  /\ history = [s \in Subs |-> <<>>]
  /\ notices = {}
  /\ mailed = [s \in Subs |-> [kind \in DOMAIN Warnings |-> 0]]
  /\ request = [r \in Requests |-> Free]
  /\ pass = [i \in Instances |-> NoPass]

Subscribed == DOMAIN sub
Of(c) == {s \in Subscribed : sub[s].cpo = c}

\* Time passes, but no request takes two ticks.
Tick ==
  /\ now < MaxTime
  /\ \A r \in Requests : request[r] = Free \/ request[r].at = now
  /\ now' = now + 1
  /\ UNCHANGED <<plan, sub, history, notices, mailed, request, pass>>

-----------------------------------------------------------------------------
(* The plan. *)

Drafts == {v \in DOMAIN plan.versions : plan.versions[v].status = "DRAFT"}
Draft(trial) == [status |-> "DRAFT", trial |-> trial]

CreatePlan(trial) ==
  /\ plan.status = "none"
  /\ plan' = [status |-> "DRAFT", versions |-> <<Draft(trial)>>]
  /\ UNCHANGED <<now, sub, history, notices, mailed, request, pass>>

\* The draft is edited, or the next version begins as one.
UpdateDraft(trial) ==
  /\ plan.status \in {"DRAFT", "PUBLISHED"}
  /\ \/ Drafts # {} /\ plan' = [plan EXCEPT !.versions =
          [v \in DOMAIN @ |-> IF v \in Drafts THEN Draft(trial) ELSE @[v]]]
     \/ Drafts = {} /\ Len(plan.versions) < MaxVersions
          /\ plan' = [plan EXCEPT !.versions = Append(@, Draft(trial))]
  /\ UNCHANGED <<now, sub, history, notices, mailed, request, pass>>

PublishPlan ==
  /\ plan.status \in {"DRAFT", "PUBLISHED"}
  /\ \E v \in Drafts :
        plan' = [status |-> "PUBLISHED",
                 versions |-> [plan.versions EXCEPT ![v].status = "PUBLISHED"]]
  /\ UNCHANGED <<now, sub, history, notices, mailed, request, pass>>

ArchivePlan ==
  /\ plan.status \in {"DRAFT", "PUBLISHED"}
  /\ plan' = [plan EXCEPT !.status = "ARCHIVED"]
  /\ UNCHANGED <<now, sub, history, notices, mailed, request, pass>>

PublishedVersions ==
  {v \in DOMAIN plan.versions :
     plan.status # "ARCHIVED" /\ plan.versions[v].status = "PUBLISHED"}

-----------------------------------------------------------------------------
(* Commands: Issue, and those that go through mutateForStatuses. *)

SelectedStatuses(op) ==
  IF op = "RENEW" THEN CurrentStatuses \cup {"EXPIRED"} ELSE CurrentStatuses

\* What the SELECT ... ORDER BY current_period_ends_at DESC may return first.
Selected(op, c) ==
  LET found == {s \in Of(c) : sub[s].status \in SelectedStatuses(op)}
  IN {s \in found : \A o \in found : sub[o].ends <= sub[s].ends}

UsedKeys == UNION {{history[s][n].key : n \in DOMAIN history[s]} : s \in Subs}

\* A command whose key has no history yet (the others replay the first answer
\* or are refused), its selected subscription, and the start it asks for.
Begin(r, op, c, key, start) ==
  /\ request[r] = Free
  /\ key \notin UsedKeys
  /\ start <= now
  /\ op \notin {"ISSUE", "RENEW"} => start = now
  /\ \E s \in IF op = "ISSUE" THEN {None} ELSE Selected(op, c) :
        request' = [request EXCEPT ![r] =
          [Free EXCEPT !.step = "selected", !.op = op, !.cpo = c, !.key = key,
                       !.sub = s, !.at = now, !.start = start]]
  /\ UNCHANGED <<now, plan, sub, history, notices, mailed, pass>>

Locked(s) == \E r \in Requests : request[r].step = "read" /\ request[r].sub = s

\* Mutant: the subscription is read without FOR UPDATE.
ReadUnlocked(r) ==
  LET q == request[r] IN
  /\ q.step = "selected" /\ q.op # "ISSUE"
  /\ sub[q.sub].status \in SelectedStatuses(q.op)
  /\ request' = [request EXCEPT ![r].step = "read", ![r].record = sub[q.sub]]
  /\ UNCHANGED <<now, plan, sub, history, notices, mailed, pass>>

\* The row lock is granted; the row is read again and must still qualify.
Read(r) ==
  LET q == request[r] IN
  /\ q.step = "selected" /\ q.op # "ISSUE"
  /\ ~Locked(q.sub)
  /\ sub[q.sub].status \in SelectedStatuses(q.op)
  /\ request' = [request EXCEPT ![r].step = "read", ![r].record = sub[q.sub]]
  /\ UNCHANGED <<now, plan, sub, history, notices, mailed, pass>>

\* Issue finds the published version of a plan that is not archived.
FindVersion(r, v) ==
  /\ request[r].step = "selected" /\ request[r].op = "ISSUE"
  /\ v \in PublishedVersions
  /\ request' = [request EXCEPT ![r].step = "read", ![r].version = v]
  /\ UNCHANGED <<now, plan, sub, history, notices, mailed, pass>>

\* Mutant: an expired subscription is renewed from the start asked for.
RenewedAsAsked(record, q) ==
  [record EXCEPT !.status = IF @ \in {"EXPIRED", "TRIAL"} THEN "ACTIVE" ELSE @,
                 !.ends = q.start + Period]

\* renewSubscriptionPeriod: an expired period is not renewed into the past.
Renewed(record, q) ==
  LET start == IF record.status = "EXPIRED" THEN q.at ELSE q.start IN
  [record EXCEPT !.status = IF @ \in {"EXPIRED", "TRIAL"} THEN "ACTIVE" ELSE @,
                 !.ends = start + Period]

\* What a command may make of the record it read; empty if it is refused.
Changes(q) ==
  LET record == q.record
      becomes(status, from) ==
        IF record.status \in from THEN {[record EXCEPT !.status = status]} ELSE {}
  IN CASE q.op = "RENEW" -> {Renewed(record, q)}
       [] q.op = "CHANGE_PLAN" -> {[record EXCEPT !.version = v, !.ends = q.at + Period] :
                                     v \in PublishedVersions}
       [] q.op = "ACTIVATE" -> becomes("ACTIVE", {"TRIAL"})
       [] q.op = "PAUSE" -> becomes("PAUSED", CurrentStatuses)
       [] q.op = "RESUME" -> becomes("ACTIVE", {"ACTIVE", "PAUSED", "PAST_DUE"})
       [] q.op = "MARK_PAST_DUE" -> becomes("PAST_DUE", CurrentStatuses)
       [] q.op = "EXPIRE" -> becomes("EXPIRED", CurrentStatuses)
       [] q.op = "CANCEL" -> becomes("CANCELLED", CurrentStatuses)

\* The unique index over the current subscriptions of an operator.
OnlyCurrent(s, record) ==
  record.status \in CurrentStatuses
    => \A o \in Of(record.cpo) \ {s} : sub[o].status \notin CurrentStatuses

\* recordTransition: the key of an actor is unique in the history.
RecordTransition(s, previous, record, q) ==
  /\ q.key \notin UsedKeys
  /\ history' = [history EXCEPT ![s] =
       Append(@, [key |-> q.key, previous |-> previous, next |-> record.status])]

CommitIssue(r, s) ==
  LET q == request[r]
      record == [cpo |-> q.cpo, ends |-> q.start + Period, version |-> q.version,
                 status |-> IF plan.versions[q.version].trial THEN "TRIAL" ELSE "ACTIVE"]
  IN /\ q.step = "read" /\ q.op = "ISSUE"
     /\ s \in Subs \ Subscribed
     /\ OnlyCurrent(s, record)
     /\ sub' = [o \in Subscribed \cup {s} |-> IF o = s THEN record ELSE sub[o]]
     /\ RecordTransition(s, None, record, q)
     /\ request' = [request EXCEPT ![r] = Free]
     /\ UNCHANGED <<now, plan, notices, mailed, pass>>

\* The whole record is saved, with its history.
CommitChange(r, record) ==
  LET q == request[r] IN
  /\ q.step = "read" /\ q.op # "ISSUE"
  /\ record \in Changes(q)
  /\ OnlyCurrent(q.sub, record)
  /\ sub' = [sub EXCEPT ![q.sub] = record]
  /\ RecordTransition(q.sub, q.record.status, record, q)
  /\ request' = [request EXCEPT ![r] = Free]
  /\ UNCHANGED <<now, plan, notices, mailed, pass>>

\* A command is refused on the way, or its client or process is gone: its
\* transaction is undone.
Abandon(r) ==
  /\ request[r] # Free
  /\ request' = [request EXCEPT ![r] = Free]
  /\ UNCHANGED <<now, plan, sub, history, notices, mailed, pass>>

-----------------------------------------------------------------------------
(* The lifecycle worker. *)

Horizon == CHOOSE t \in {Warnings[kind] : kind \in DOMAIN Warnings} :
             \A kind \in DOMAIN Warnings : Warnings[kind] <= t

\* processLifecycle lists, by the end of the period, what is due at this time;
\* what ends at the same time comes in any order.
StartPass(i) ==
  LET due == {s \in Subscribed : /\ sub[s].status \in CurrentStatuses
                                 /\ sub[s].ends <= now + Horizon}
  IN /\ pass[i].todo = <<>>
     /\ due # {}
     /\ \E order \in SetToSeqs(due) :
          /\ \A m, n \in DOMAIN order : m < n => sub[order[m]].ends <= sub[order[n]].ends
          /\ pass' = [pass EXCEPT ![i] = [at |-> now, todo |-> order]]
     /\ UNCHANGED <<now, plan, sub, history, notices, mailed, request>>

\* The warning for what remains of the period: the closest threshold.
WarningsDue(s, t) ==
  {kind \in DOMAIN Warnings :
     /\ sub[s].status \in CurrentStatuses
     /\ t < sub[s].ends /\ sub[s].ends - t <= Warnings[kind]
     /\ \A closer \in DOMAIN Warnings :
          Warnings[closer] < Warnings[kind] => sub[s].ends - t > Warnings[closer]}

\* A threshold is recorded, with its mail, under the row lock.
Warn(i) ==
  LET s == Head(pass[i].todo) IN
  /\ pass[i].todo # <<>>
  /\ ~Locked(s)
  /\ \E kind \in WarningsDue(s, pass[i].at) :
        /\ <<s, kind>> \notin notices
        /\ notices' = notices \cup {<<s, kind>>}
        /\ mailed' = [mailed EXCEPT ![s][kind] = @ + 1]
  /\ pass' = [pass EXCEPT ![i].todo = Tail(@)]
  /\ UNCHANGED <<now, plan, sub, history, request>>

Elapsed(s, t) == sub[s].status \in CurrentStatuses /\ sub[s].ends <= t

\* Nothing to do: not current any more, renewed since, or warned already.
Pass(i) ==
  LET s == Head(pass[i].todo) IN
  /\ pass[i].todo # <<>>
  /\ ~Locked(s)
  /\ ~Elapsed(s, pass[i].at)
  /\ \A kind \in WarningsDue(s, pass[i].at) : <<s, kind>> \in notices
  /\ pass' = [pass EXCEPT ![i].todo = Tail(@)]
  /\ UNCHANGED <<now, plan, sub, history, notices, mailed, request>>

\* The period has elapsed.  The transition is recorded with uuid.Nil as its
\* actor, which the foreign key of the history to users refuses: event, mail
\* and status are undone, and the error ends the pass.
ExpiryFails(i) ==
  LET s == Head(pass[i].todo) IN
  /\ pass[i].todo # <<>>
  /\ ~Locked(s)
  /\ Elapsed(s, pass[i].at)
  /\ pass' = [pass EXCEPT ![i] = NoPass]
  /\ UNCHANGED <<now, plan, sub, history, notices, mailed, request>>

-----------------------------------------------------------------------------
(* Customers. *)

\* requireCustomerCommercialAdmission: the current subscription decides; without
\* one, any expired subscription refuses new starts and recharges.
Admits(c, t) ==
  LET current == {s \in Of(c) : sub[s].status \in CurrentStatuses} IN
  IF current # {} THEN \A s \in current : ~Elapsed(s, t)
  ELSE \A s \in Of(c) : sub[s].status # "EXPIRED"

-----------------------------------------------------------------------------
Lifecycle(i) == StartPass(i) \/ Warn(i) \/ Pass(i) \/ ExpiryFails(i)

SubscriptionsNext ==
  \/ Tick
  \/ \E trial \in BOOLEAN : CreatePlan(trial) \/ UpdateDraft(trial)
  \/ PublishPlan
  \/ ArchivePlan
  \/ \E r \in Requests :
       \/ \E op \in Operations, c \in Cpos, key \in Keys, start \in {now, now - Period} :
            Begin(r, op, c, key, start)
       \/ Read(r)
       \/ \E v \in PublishedVersions : FindVersion(r, v)
       \/ \E s \in Subs : CommitIssue(r, s)
       \/ request[r].step = "read" /\ request[r].op # "ISSUE"
            /\ \E record \in Changes(request[r]) : CommitChange(r, record)
       \/ Abandon(r)
  \/ \E i \in Instances : Lifecycle(i)

SubscriptionsSpec == SubscriptionsInit /\ [][SubscriptionsNext]_subscriptionVars

-----------------------------------------------------------------------------
\* Types.
SubscriptionsTyped ==
  /\ now \in 0 .. MaxTime
  /\ \A v \in DOMAIN plan.versions :
        plan.versions[v] \in [status : {"DRAFT", "PUBLISHED"}, trial : BOOLEAN]
  /\ Cardinality(Drafts) <= 1
  /\ sub \in [Subscribed -> [cpo : Cpos, status : Statuses, ends : 1 - Period .. MaxTime + Period,
                             version : DOMAIN plan.versions]]
  /\ notices \subseteq Subs \X DOMAIN Warnings

\* Several processes run the lifecycle, and passes overlap with commands: a
\* warning is mailed once per threshold and subscription, and recorded when,
\* and only when, it is mailed.
OneNotice ==
  \A s \in Subs : \A kind \in DOMAIN Warnings :
     mailed[s][kind] = IF <<s, kind>> \in notices THEN 1 ELSE 0

\* Two administrators, a retry of a request that is still running and the
\* lifecycle worker leave a history that tells the whole story: it leads from
\* the issue to the status the subscription has, every key stands in it once,
\* an operator has one current subscription at most and is told once.
HistoryTellsTheStatus ==
  /\ SubscriptionsTyped
  /\ \A s \in Subs : LET h == history[s] IN
       /\ s \in Subscribed <=> h # <<>>
       /\ h # <<>> => h[1].previous = None /\ h[Len(h)].next = sub[s].status
       /\ \A n \in 2 .. Len(h) : h[n].previous = h[n - 1].next
  /\ \A s, t \in Subs : \A n \in DOMAIN history[s], m \in DOMAIN history[t] :
       history[s][n].key = history[t][m].key => s = t /\ n = m
  /\ \A c \in Cpos :
       Cardinality({s \in Of(c) : sub[s].status \in CurrentStatuses}) <= 1
  /\ OneNotice

\* A renewal that reactivates an expired subscription lets customers in again,
\* whatever start it asked for and whatever expired before; and no step changes
\* the terms of a version that has been published or revives a plan.
ReactivationOpens ==
  [][/\ \A s \in Subscribed :
          (sub[s].status = "EXPIRED" /\ sub'[s].status \in CurrentStatuses)
             => Admits(sub[s].cpo, now)'
     /\ plan.status = "ARCHIVED" => plan'.status = "ARCHIVED"
     /\ \A v \in DOMAIN plan.versions :
          plan.versions[v].status = "PUBLISHED" => plan'.versions[v] = plan.versions[v]
    ]_subscriptionVars
=============================================================================
