------------------------------ MODULE LiveState ------------------------------
(***************************************************************************)
(* From HAL's observations of one charger, its connector and its session   *)
(* to the screen of a user: facts are delivered at least once and in any   *)
(* order, each is applied in a transaction that also emits an event and    *)
(* stores the receipt, and a live stream is woken by the events and        *)
(* projects the rows again (halops/facts.go, customerauth/                 *)
(* charging_facts.go, operationalrealtime/service.go, liveops/live.go).    *)
(*                                                                         *)
(* A fact is a position in a stream of observations.  The database runs at *)
(* READ COMMITTED: what a transaction wrote is seen when it commits, an    *)
(* UPDATE waits for the row lock, and only FOR UPDATE locks what it reads. *)
(***************************************************************************)
EXTENDS Integers, Sequences, SequencesExt, FiniteSets

CONSTANTS
  Workers,     \* requests of HAL that CMS handles at the same time
  Contents,    \* Contents[s][n]: what envelopes of the n-th fact of a stream
               \* say; a second content is one that was altered
  Ageing,      \* bound: the streams whose observations may get too old
  Batch        \* how many events one poll returns at most

Streams == {"connection", "connector", "meter", "soc"}
Values == [connection |-> {"ONLINE", "OFFLINE"},
           connector |-> {"Available", "Charging"},
           meter |-> {"Wh", "kWh"}, soc |-> {"percent"}]
AllValues == UNION {Values[s] : s \in Streams}

ASSUME BoundsAssumption ==
  /\ \A s \in Streams : Contents[s] \in Seq(SUBSET Values[s])
  /\ Ageing \subseteq {"connection", "meter", "soc"}
  /\ Batch \in Nat \ {0}
  /\ "committed" \notin Workers

\* The fact ids.  An envelope names one and carries a value.
Facts == UNION {[stream : {s}, seq : DOMAIN Contents[s]] : s \in Streams}
NoFact == [stream |-> "none", seq |-> 0]
None == "none"

VARIABLES
  ended,      \* the session has its end
  row,        \* row[s]: the observation in the runtime or session row
  receipt,    \* facts with a receipt -> the value that was accepted
  work,       \* work[w]: the delivery a request handles, and what it read
  events,     \* the events by id; "by" is the writer or "committed"
  aged,       \* aged[s]: observations up to here are beyond the horizon
  outage,     \* database and network may still fail
  live        \* the live stream of a user: cursor, what it showed last;
              \* "missed" is a history of events that came below the cursor

vars == <<ended, row, receipt, work, events, aged, live, outage>>

NoRow == [seq |-> 0, value |-> None]
IdleWork == [step |-> "idle", fact |-> NoFact, value |-> None, seen |-> 0,
             ended |-> FALSE]

Init ==
  /\ ended = FALSE
  /\ outage = TRUE
  /\ row = [s \in Streams |-> NoRow]
  /\ receipt = <<>>
  /\ work = [w \in Workers |-> IdleWork]
  /\ events = <<>>
  /\ aged = [s \in Streams |-> 0]
  /\ live = [step |-> "off", cursor |-> 0, shown |-> None, missed |-> FALSE]

-----------------------------------------------------------------------------
(* Rows and locks. *)

\* The table row a stream is stored in.
RowOf(s) == IF s \in {"meter", "soc"} THEN "session" ELSE s

\* Mutant: no FOR UPDATE on the session.
ReadsNothingLocked(s) == FALSE

\* Session facts read their row FOR UPDATE, runtime facts read without a lock.
ReadsLocked(s) == RowOf(s) = "session"

\* An observation is newer than the sequence its transaction read; a meter
\* reading of a session that has ended is ignored.
Advances(w) ==
  /\ work[w].seen < work[w].fact.seq
  /\ work[w].fact.stream = "meter" => ~work[w].ended

HoldsLock(w) ==
  \/ work[w].step = "read" /\ ReadsLocked(work[w].fact.stream)
  \/ work[w].step = "written" /\ (ReadsLocked(work[w].fact.stream) \/ Advances(w))

LockFree(w) ==
  \A o \in Workers \ {w} :
     HoldsLock(o) => RowOf(work[o].fact.stream) # RowOf(work[w].fact.stream)

\* The log and the cursor become "log" and "next", without the committed events
\* at its head that nobody will read: those a stream has behind it, and all of
\* them when no stream is open.  (Retention deletes them later; it is longer
\* than a poll takes.)
UpdateLog(log, next) ==
  LET read == CHOOSE n \in 0 .. Len(log) :
        /\ \A i \in 1 .. n : log[i].by = "committed" /\ (next.step = "off" \/ i <= next.cursor)
        /\ n < Len(log) => ~(log[n + 1].by = "committed" /\ (next.step = "off" \/ n < next.cursor))
  IN /\ events' = SubSeq(log, read + 1, Len(log))
     /\ live' = [next EXCEPT !.cursor = IF @ > read THEN @ - read ELSE 0]

\* The log without the event of a handler's transaction, if it wrote one.
OwnEvent(w, n) == {i \in 1 .. n : events[i].by = w}
LogWithout(w) ==
  LET own == OwnEvent(w, Len(events)) IN
  IF own = {} THEN events ELSE RemoveAt(events, CHOOSE i \in own : TRUE)

\* A handler's transaction is undone, its event vanishes.
Rollback(w) ==
  /\ UpdateLog(LogWithout(w),
               [live EXCEPT !.cursor = IF OwnEvent(w, @) = {} THEN @ ELSE @ - 1])
  /\ work' = [work EXCEPT ![w] = IdleWork]
  /\ UNCHANGED <<ended, row, receipt, aged, outage>>

-----------------------------------------------------------------------------
(* HAL. *)

\* An observation gets older than connectionStaleAfter or meterStaleAfter.
Age(s) ==
  /\ aged[s] < Len(Contents[s])
  /\ aged' = [aged EXCEPT ![s] = @ + 1]
  /\ UNCHANGED <<ended, row, receipt, work, events, live, outage>>

-----------------------------------------------------------------------------
(* Accept: one transaction, in the statements other requests can come      *)
(* between.                                                                *)

\* A fact is delivered, for the first time, again, or, by a fault of HAL,
\* with altered content.  The receipt is looked up: with one, the same
\* content is acknowledged and another is refused, without any effect.
Deliver(w, f, v) ==
  /\ work[w].step = "idle"
  /\ f \notin DOMAIN receipt
  /\ work' = [work EXCEPT ![w] = [IdleWork EXCEPT !.step = "checked",
                                                  !.fact = f, !.value = v]]
  /\ UNCHANGED <<ended, row, receipt, events, aged, live, outage>>

\* The row the fact is about is read, FOR UPDATE or not.
ReadRow(w) ==
  LET s == work[w].fact.stream IN
  /\ work[w].step = "checked"
  /\ ReadsLocked(s) => LockFree(w)
  /\ work' = [work EXCEPT ![w].step = "read", ![w].seen = row[s].seq,
                          ![w].ended = ended]
  /\ UNCHANGED <<ended, row, receipt, events, aged, live, outage>>

\* Mutant: the event is decided on a read outside of the transaction.
EmitsCommitted(w) ==
  row[work[w].fact.stream].seq = work[w].fact.seq

\* A fact whose sequence is not the row's has no event.
Emits(w) ==
  Advances(w) \/ row[work[w].fact.stream].seq = work[w].fact.seq

\* The row is updated if the fact is newer than what was read, and the event
\* gets its id.  The first observation is an INSERT, which fails if another
\* one was inserted since.
WriteRow(w) ==
  LET s == work[w].fact.stream IN
  /\ work[w].step = "read"
  /\ Advances(w) => LockFree(w)
  /\ ~(work[w].seen = 0 /\ ~ReadsLocked(s) /\ row[s].seq > 0)
  /\ events' = IF Emits(w) THEN Append(events, [fact |-> work[w].fact, by |-> w])
                           ELSE events
  /\ work' = [work EXCEPT ![w].step = "written"]
  /\ UNCHANGED <<ended, row, receipt, aged, live, outage>>

InsertFails(w) ==
  /\ work[w].step = "read"
  /\ work[w].seen = 0
  /\ ~ReadsLocked(work[w].fact.stream)
  /\ row[work[w].fact.stream].seq > 0
  /\ LockFree(w)
  /\ Rollback(w)

\* The event of a transaction becomes visible, below or above the cursor.
ShowEvent(w) ==
  UpdateLog([i \in DOMAIN events |->
               IF events[i].by = w THEN [events[i] EXCEPT !.by = "committed"]
                                   ELSE events[i]],
            [live EXCEPT !.missed =
               @ \/ \E i \in 1 .. live.cursor : events[i].by = w])

\* Mutant: a fact without effect returns before its receipt is stored.
CommitAdvancing(w) ==
  LET f == work[w].fact IN
  /\ work[w].step = "written"
  /\ f \notin DOMAIN receipt
  /\ row' = IF Advances(w)
            THEN [row EXCEPT ![f.stream] = [seq |-> f.seq, value |-> work[w].value]]
            ELSE row
  /\ receipt' = IF Advances(w)
                THEN [g \in DOMAIN receipt \cup {f} |->
                        IF g = f THEN work[w].value ELSE receipt[g]]
                ELSE receipt
  /\ ShowEvent(w)
  /\ work' = [work EXCEPT ![w] = IdleWork]
  /\ UNCHANGED <<ended, aged, outage>>

\* The receipt is inserted and everything becomes visible.
Commit(w) ==
  LET f == work[w].fact IN
  /\ work[w].step = "written"
  /\ f \notin DOMAIN receipt
  /\ row' = IF Advances(w)
            THEN [row EXCEPT ![f.stream] = [seq |-> f.seq, value |-> work[w].value]]
            ELSE row
  /\ receipt' = [g \in DOMAIN receipt \cup {f} |->
                   IF g = f THEN work[w].value ELSE receipt[g]]
  /\ ShowEvent(w)
  /\ work' = [work EXCEPT ![w] = IdleWork]
  /\ UNCHANGED <<ended, aged, outage>>

\* Another delivery of the same fact committed first: the primary key of the
\* receipts undoes this one, and HAL delivers again.
ReceiptTaken(w) ==
  /\ work[w].step = "written"
  /\ work[w].fact \in DOMAIN receipt
  /\ Rollback(w)

\* The database or the process fails.
Fail(w) ==
  /\ outage
  /\ work[w].step # "idle"
  /\ Rollback(w)

OutageEnds ==
  /\ outage
  /\ outage' = FALSE
  /\ UNCHANGED <<ended, row, receipt, work, events, aged, live>>

\* The session is completed, with an event (module Charging has the rest).
EndSession ==
  /\ ~ended
  /\ \A w \in Workers : HoldsLock(w) => RowOf(work[w].fact.stream) # "session"
  /\ ended' = TRUE
  /\ UpdateLog(Append(events, [fact |-> NoFact, by |-> "committed"]), live)
  /\ UNCHANGED <<row, receipt, work, aged, outage>>

-----------------------------------------------------------------------------
(* The live projection of the rows (liveops/live.go). *)

Fresh(s, r) == r.seq > aged[s]

ChargerState(connection) ==
  [seq |-> connection.seq,
   state |-> IF connection.seq = 0 THEN "UNKNOWN" ELSE connection.value,
   fresh |-> connection.seq > 0 /\ Fresh("connection", connection)]

Reachable(charger) == charger.state = "ONLINE" /\ charger.fresh

\* A connector is as fresh as the connection of its charger.
ConnectorState(charger) ==
  [seq |-> row["connector"].seq,
   availability |->
     IF row["connector"].seq = 0 THEN "UNKNOWN"
     ELSE IF ~Reachable(charger) THEN "UNAVAILABLE"
     ELSE [Available |-> "AVAILABLE", Charging |-> "CHARGING"][row["connector"].value]]

AllowsCMSControlledStart(charger) ==
  Reachable(charger) /\ row["connector"].value = "Available"

\* Meter and SoC of an open session are stale without a fresh connection.
SessionState(charger) ==
  LET open == ~ended
      Freshness(s) ==
        IF row[s].seq = 0 /\ (s = "soc" \/ ~open \/ Reachable(charger)) THEN "UNKNOWN"
        ELSE IF Fresh(s, row[s]) /\ (open => Reachable(charger)) THEN "FRESH"
        ELSE "STALE"
  IN [open |-> open, meter |-> row["meter"].seq, soc |-> row["soc"].seq,
      meterFreshness |-> Freshness("meter"), socFreshness |-> Freshness("soc")]

\* What a stream shows.
Projection ==
  LET charger == ChargerState(row["connection"]) IN
  [charger |-> charger, connector |-> ConnectorState(charger),
   startable |-> AllowsCMSControlledStart(charger),
   session |-> SessionState(charger)]

-----------------------------------------------------------------------------
(* The live stream of a user. *)

CommittedAfter(n) == {i \in n + 1 .. Len(events) : events[i].by = "committed"}
MaxOr(S, d) == IF S = {} THEN d ELSE CHOOSE x \in S : \A y \in S : y <= x

\* The watermark is taken before the snapshot is read.
Open ==
  /\ live.step = "off"
  /\ UpdateLog(events, [live EXCEPT !.step = "load",
                                    !.cursor = MaxOr(CommittedAfter(0), 0)])
  /\ UNCHANGED <<ended, row, receipt, work, aged, outage>>

\* The snapshot, and each refresh, reads the rows and projects them.
Show ==
  /\ live.step = "load"
  /\ live' = [live EXCEPT !.step = "waiting", !.missed = FALSE,
                          !.shown = Projection]
  /\ UNCHANGED <<ended, row, receipt, work, events, aged, outage>>

\* The end of a page of at most Batch events after the cursor.
PageEnd ==
  LET new == CommittedAfter(live.cursor) IN
  CHOOSE i \in new :
    LET page == {j \in new : j <= i} IN
    \/ Cardinality(page) = Batch
    \/ page = new /\ Cardinality(page) < Batch

\* A poll finds events after the cursor; what they say is not used.
Poll ==
  /\ live.step = "waiting"
  /\ CommittedAfter(live.cursor) # {}
  /\ UpdateLog(events, [live EXCEPT !.step = "load", !.shown = None,
                                    !.cursor = PageEnd])
  /\ UNCHANGED <<ended, row, receipt, work, aged, outage>>

\* Mutant: a heartbeat only keeps the connection alive.
HeartbeatOnly == live.step = "waiting" /\ UNCHANGED vars

\* A heartbeat projects again, event or not.
Heartbeat ==
  /\ live.step = "waiting"
  /\ live' = [live EXCEPT !.step = "load", !.shown = None]
  /\ UNCHANGED <<ended, row, receipt, work, events, aged, outage>>

\* The client goes away, or a query fails or the session is revoked.
Disconnect ==
  /\ live.step # "off"
  /\ UpdateLog(events, [live EXCEPT !.step = "off", !.cursor = 0, !.shown = None,
                                    !.missed = FALSE])
  /\ UNCHANGED <<ended, row, receipt, work, aged, outage>>

-----------------------------------------------------------------------------
Handle(w) ==
  ReadRow(w) \/ WriteRow(w) \/ InsertFails(w) \/ Commit(w) \/ ReceiptTaken(w)

Next ==
  \/ \E s \in Ageing : Age(s)
  \/ EndSession \/ OutageEnds
  \/ \E w \in Workers :
       \/ \E f \in Facts : \E v \in Contents[f.stream][f.seq] : Deliver(w, f, v)
       \/ Handle(w)
       \/ Fail(w)
  \/ Open \/ Show \/ Poll \/ Heartbeat \/ Disconnect

\* A request runs to its end, and the tickers of a stream go on.
Fairness ==
  /\ \A w \in Workers : WF_vars(Handle(w))
  /\ WF_vars(OutageEnds) /\ WF_vars(Show) /\ WF_vars(Heartbeat)

Spec == Init /\ [][Next]_vars
FairSpec == Spec /\ Fairness

-----------------------------------------------------------------------------
(* Properties. *)

\* The types hold.
TypeOK ==
  /\ \A s \in Streams :
       /\ row[s] \in [seq : 0 .. Len(Contents[s]), value : Values[s] \cup {None}]
       /\ aged[s] \in 0 .. Len(Contents[s])
  /\ DOMAIN receipt \subseteq Facts
  /\ \A f \in DOMAIN receipt : receipt[f] \in Values[f.stream]
  /\ work \in [Workers -> [step : {"idle", "checked", "read", "written"},
                           fact : Facts \cup {NoFact}, value : AllValues \cup {None},
                           seen : Nat, ended : BOOLEAN]]
  /\ ended \in BOOLEAN /\ outage \in BOOLEAN
  /\ events \in Seq([fact : Facts \cup {NoFact}, by : Workers \cup {"committed"}])
  /\ live.step \in {"off", "load", "waiting"}
  /\ live.cursor \in 0 .. Len(events)

\* However often, with whatever content, in whatever order and by however many
\* requests at once facts are delivered, each takes effect once and in turn: a
\* fact with a receipt keeps its content and commits no further event, a row
\* holds an accepted content (halops/facts.go:71-73), and a session's meter and
\* SoC are never set back, nor its meter moved once it has ended
\* (charging_facts.go:454-464, 488-502).
CommittedOf(f) == {i \in DOMAIN events : events[i] = [fact |-> f, by |-> "committed"]}
FactsTakeEffectOnce ==
  [][/\ \A f \in DOMAIN receipt :
          /\ receipt'[f] = receipt[f]
          /\ Cardinality(CommittedOf(f)') <= Cardinality(CommittedOf(f))
     /\ \A s \in Streams : row'[s] # row[s] =>
          receipt'[[stream |-> s, seq |-> row'[s].seq]] = row'[s].value
     /\ \A s \in {"meter", "soc"} : row'[s].seq >= row[s].seq
     /\ ended => row'["meter"] = row["meter"]]_vars

\* The rows the user sees are the current ones, or an event after the cursor
\* will tell of the change; only an event that got its id before and was
\* committed after the watermark is missed (cpo/router.go:1570-1573).
Seen(p) == <<p.charger.seq, p.connector.seq, p.session.meter, p.session.soc,
             p.session.open>>
ChangeIsAnnounced ==
  /\ TypeOK
  /\ live.step = "waiting" /\ ~live.missed /\ Seen(live.shown) # Seen(Projection)
       => CommittedAfter(live.cursor) # {}

\* A fact that HAL keeps delivering is accepted in the end, although
\* first inserts and duplicates undo one another (halops/facts.go:92-106).
FactAccepted ==
  \A f \in Facts :
    ([]<><<\E w \in Workers : \E v \in Contents[f.stream][f.seq] : Deliver(w, f, v)>>_vars)
      => <>(f \in DOMAIN receipt)

\* A stream that stays open comes to show what the rows say, ageing and missed
\* events included (customerauth/router.go:416-418, cpo/router.go:1620-1625).
StreamCatchesUp ==
  <>[](live.step # "off") =>
    <>[](live.step = "waiting" => live.shown = Projection)
=============================================================================
