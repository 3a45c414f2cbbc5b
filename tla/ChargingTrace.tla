---------------------------- MODULE ChargingTrace ----------------------------
(***************************************************************************)
(* The diagnostic trace of one charger operation or charging session: HAL  *)
(* delivers its events (chargingtrace/ingress.go), the CMS appends its own *)
(* within its business transactions (customerauth/charging_trace.go), and  *)
(* an operator reads a first page, follows the replay and is told whether  *)
(* the charger did what a TriggerMessage asked (cpo/charging_trace.go).    *)
(*                                                                         *)
(* An event's number says when it occurred; ingestion_sequence comes from  *)
(* a database sequence, so it is taken before the commit that shows the    *)
(* row, and a rollback leaves a gap.                                       *)
(***************************************************************************)
EXTENDS Integers, FiniteSets

CONSTANTS
  HALEvents,      \* events HAL delivers, numbered in the order they occurred:
                  \* the first is the charger's acceptance, the second says
                  \* whether the message came ("seen") or never will ("closed")
  CMSEvents,      \* events the CMS appends
  Writers,        \* transactions in flight at the same time
  PageSize,
  MaxSequence,    \* numbers the sequence gives out
  Nobody

VARIABLES
  root,           \* the row of the trace: "none" or "committed", and its lock
  stored,         \* the sequence number of each event, 0 until it is committed
  sequence,       \* the last number the sequence gave out
  writer,         \* writer[w]: the event, its step and the number it took
  acknowledged,   \* HAL's events that were answered 204
  came,           \* whether the message the charger was asked for came
  reader          \* the replay cursor, the events shown, where the first page
                  \* ended, and the verdict that was told

traceVars == <<root, stored, sequence, writer, acknowledged, came, reader>>

Events == HALEvents \cup CMSEvents
Accepted == 1
FollowOn == 2
Free == [event |-> 0, at |-> "free", number |-> 0]

TraceInit ==
  /\ root = [row |-> "none", lock |-> Nobody]
  /\ stored = [e \in Events |-> 0]
  /\ sequence = 0
  /\ writer = [w \in Writers |-> Free]
  /\ acknowledged = {}
  /\ came \in BOOLEAN
  /\ reader = [cursor |-> 0, shown |-> {}, end |-> 0, verdict |-> "PENDING"]

IsStored(e) == stored[e] > 0

-----------------------------------------------------------------------------
(* Writing. *)

\* Accept finds the event by its id: the same one again is acknowledged.
Replay(e) ==
  /\ e \in HALEvents /\ IsStored(e)
  /\ acknowledged' = acknowledged \cup {e}
  /\ UNCHANGED <<root, stored, sequence, writer, came, reader>>

\* HAL delivers an event once or again; the CMS's are written once each.
BeginWrite(w, e) ==
  /\ writer[w] = Free /\ ~IsStored(e)
  /\ e \in CMSEvents => \A v \in Writers : writer[v].event # e
  /\ writer' = [writer EXCEPT ![w] = [event |-> e, at |-> "adopt", number |-> 0]]
  /\ UNCHANGED <<root, stored, sequence, acknowledged, came, reader>>

Holds(w) == root.lock = w

\* Mutant: adoptRoot reads the row without FOR UPDATE.
ReadRoot(w) ==
  /\ writer[w].at = "adopt"
  /\ root.row = "none" => root.lock = Nobody
  /\ root' = IF root.row = "none" THEN [root EXCEPT !.lock = w] ELSE root
  /\ writer' = [writer EXCEPT ![w].at = "append"]
  /\ UNCHANGED <<stored, sequence, acknowledged, came, reader>>

\* adoptRoot and enrichChargingTraceRoot: the row is locked, or created and
\* with that held until the commit.
AdoptRoot(w) ==
  /\ writer[w].at = "adopt"
  /\ root.lock = Nobody
  /\ root' = [root EXCEPT !.lock = w]
  /\ writer' = [writer EXCEPT ![w].at = "append"]
  /\ UNCHANGED <<stored, sequence, acknowledged, came, reader>>

\* Two writers that both found no row: the unique index makes the second wait
\* and then refuses it.  HAL gets 409, as it does when the identities of the
\* event contradict the root; the CMS goes on without the event.
RootConflict(w) ==
  /\ writer[w].at = "adopt"
  /\ root.row = "committed"
  /\ writer' = [writer EXCEPT ![w] = Free]
  /\ UNCHANGED <<root, stored, sequence, acknowledged, came, reader>>

AppendEvent(w) ==
  /\ writer[w].at = "append"
  /\ ~IsStored(writer[w].event) /\ sequence < MaxSequence
  /\ \A v \in Writers \ {w} : writer[v].at = "commit" => writer[v].event # writer[w].event
  /\ sequence' = sequence + 1
  /\ writer' = [writer EXCEPT ![w].at = "commit", ![w].number = sequence + 1]
  /\ UNCHANGED <<root, stored, acknowledged, came, reader>>

Release(w) == IF Holds(w) THEN [root EXCEPT !.lock = Nobody] ELSE root

CommitEvent(w) ==
  LET e == writer[w].event IN
  /\ writer[w].at = "commit"
  /\ stored' = [stored EXCEPT ![e] = writer[w].number]
  /\ root' = [Release(w) EXCEPT !.row = "committed"]
  /\ acknowledged' = IF e \in HALEvents THEN acknowledged \cup {e} ELSE acknowledged
  /\ writer' = [writer EXCEPT ![w] = Free]
  /\ UNCHANGED <<sequence, came, reader>>

\* The id was inserted meanwhile, or the transaction is rolled back.
RollBack(w) ==
  /\ writer[w].at \in {"append", "commit"}
  /\ root' = Release(w)
  /\ writer' = [writer EXCEPT ![w] = Free]
  /\ UNCHANGED <<stored, sequence, acknowledged, came, reader>>

-----------------------------------------------------------------------------
(* Reading. *)

MaxOf(S) == CHOOSE x \in S \cup {0} : \A y \in S : y <= x

\* GetChargingTrace: the newest events by occurred_at; the replay starts after
\* the greatest sequence number among them.
NewestEvents ==
  {e \in Events : /\ IsStored(e)
                  /\ Cardinality({f \in Events : IsStored(f) /\ f > e}) < PageSize}

OpenTrace ==
  /\ reader.shown = {} /\ NewestEvents # {}
  /\ reader' = [reader EXCEPT
                  !.shown = NewestEvents,
                  !.end = CHOOSE e \in NewestEvents : \A f \in NewestEvents : e <= f,
                  !.cursor = MaxOf({stored[e] : e \in NewestEvents})]
  /\ UNCHANGED <<root, stored, sequence, writer, acknowledged, came>>

\* ListChargingTraceReplay: the next ones by ingestion_sequence.
Following(e) == stored[e] > reader.cursor
NextEvents ==
  {e \in Events : /\ Following(e)
                  /\ Cardinality({f \in Events : Following(f) /\ stored[f] < stored[e]}) < PageSize}

ListReplay ==
  /\ reader.shown # {} /\ NextEvents # {}
  /\ reader' = [reader EXCEPT !.shown = @ \cup NextEvents,
                              !.cursor = MaxOf({stored[e] : e \in NextEvents})]
  /\ UNCHANGED <<root, stored, sequence, writer, acknowledged, came>>

\* classifyChargerOperationFollowOn: only evidence of HAL decides.
Classify ==
  IF ~IsStored(Accepted) \/ ~IsStored(FollowOn) THEN "PENDING"
  ELSE IF came THEN "OBSERVED" ELSE "NOT_OBSERVED"

GetExchanges ==
  /\ reader.verdict # Classify
  /\ reader' = [reader EXCEPT !.verdict = Classify]
  /\ UNCHANGED <<root, stored, sequence, writer, acknowledged, came>>

TraceNext ==
  \/ \E e \in Events : Replay(e)
  \/ \E w \in Writers :
        \/ \E e \in Events : BeginWrite(w, e)
        \/ AdoptRoot(w) \/ RootConflict(w) \/ AppendEvent(w)
        \/ CommitEvent(w) \/ RollBack(w)
  \/ OpenTrace \/ ListReplay \/ GetExchanges

TraceSpec == TraceInit /\ [][TraceNext]_traceVars

-----------------------------------------------------------------------------
TypeOK ==
  /\ root \in [row : {"none", "committed"}, lock : Writers \cup {Nobody}]
  /\ stored \in [Events -> 0 .. sequence] /\ sequence <= MaxSequence
  /\ writer \in [Writers -> [event : Events \cup {0}, number : 0 .. sequence,
                             at : {"free", "adopt", "append", "commit"}]]
  /\ acknowledged \subseteq HALEvents
  /\ reader.shown \subseteq Events /\ reader.cursor <= sequence

\* Who opens a trace and follows its replay misses nothing: an event numbered
\* up to the cursor was shown, or it is further down the pages of the detail,
\* although numbers are given out before the commits that show them.
ReplayIsWhole ==
  reader.shown # {} =>
    \A e \in Events : IsStored(e) /\ stored[e] <= reader.cursor =>
      e \in reader.shown \/ e < reader.end

\* The verdict on a TriggerMessage is never one the charger contradicts.
VerdictIsTrue ==
  /\ reader.verdict = "OBSERVED" => came
  /\ reader.verdict = "NOT_OBSERVED" => ~came

\* What HAL need not deliver again is there.
AcknowledgedIsStored == \A e \in acknowledged : IsStored(e)

\* The evidence an operator is shown is whole and says what happened.
EvidenceIsWhole == TypeOK /\ ReplayIsWhole /\ VerdictIsTrue /\ AcknowledgedIsStored
=============================================================================
