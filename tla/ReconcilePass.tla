---------------------------- MODULE ReconcilePass ----------------------------
(***************************************************************************)
(* The order in which RunReconciler works (halops/operations.go).  A pass  *)
(* takes a bounded batch of stranded starts, oldest first, then a batch of *)
(* open sessions behind a cursor that all workers share, then a batch of   *)
(* ended sessions that wait for their settlement.  Some errors are noted   *)
(* and the pass goes on; others end it, and whatever comes later in it has *)
(* to wait for another pass.  What each step does to an item is in         *)
(* Charging; here an item is a number, which is also its order by id.      *)
(***************************************************************************)
EXTENDS Naturals, FiniteSets, FiniteSetsExt, Sequences, SequencesExt

CONSTANTS
  Items,        \* a start and the session it becomes; ordered by session id
  PassWorkers,  \* the reconcilers of the CMS instances
  BatchLimit,   \* the limit of every list of a pass
  Contested,    \* starts that find a session on their connector
  Unfunded      \* sessions that the wallet cannot pay when they end

VARIABLES
  stage,    \* how far a start and its session have come in CMS
  starts,   \* the starts without a session, by updated_at
  ended,    \* the ended sessions without a settlement, by updated_at
  refused,  \* the starts whose session CMS cannot create now
  short,    \* the sessions the wallet cannot pay now
  cursor,   \* last_session_id of the durable cursor; 0 when there is none
  pass,     \* what each worker is doing, and the rest of its batch
  since,    \* history: who had a turn since the last turn of an open session
  trouble   \* HAL or the database may still fail, a worker may still stop

rowVars == <<stage, starts, ended, refused, short>>
passVars == <<stage, starts, ended, refused, short, cursor, pass, since, trouble>>

\* HAL has no transaction yet, has one, has completed it; CMS ended, settled
Stages == {"none", "requested", "started", "open", "completed", "ended", "settled"}
Idle == [phase |-> "idle", batch |-> <<>>]
At(w, p) == pass[w].phase = p
Working(w, p) == At(w, p) /\ pass[w].batch # <<>>
Item(w) == Head(pass[w].batch)
FirstOf(q) == SubSeq(q, 1, Min({BatchLimit, Len(q)}))
ToBack(q, i) == Append(Remove(q, i), i)

PassTypeOK ==
  /\ stage \in [Items -> Stages]
  /\ \A q \in {starts, ended} : q \in Seq(Items) /\ IsInjective(q)
  /\ refused \subseteq Items /\ short \subseteq Items
  /\ cursor \in Items \cup {0}
  /\ \A w \in PassWorkers : pass[w].batch \in Seq(Items)

PassInit ==
  /\ stage = [i \in Items |-> "none"]
  /\ starts = <<>> /\ ended = <<>>
  /\ refused = Contested /\ short = Unfunded
  /\ cursor = 0
  /\ pass = [w \in PassWorkers |-> Idle]
  /\ since = [i \in Items |-> {}]
  /\ trouble = TRUE

-----------------------------------------------------------------------------
(* What becomes of an item, through a fact or a pass.                      *)

\* A session is created, and its start is no longer stranded.
Opens(i) ==
  /\ stage' = [stage EXCEPT ![i] = "open"]
  /\ starts' = Remove(starts, i)

\* finalizeAuthoritativeCompletion settles at once if it can.
Ends(i) ==
  IF i \in short
  THEN stage' = [stage EXCEPT ![i] = "ended"] /\ ended' = Append(ended, i)
  ELSE stage' = [stage EXCEPT ![i] = "settled"] /\ UNCHANGED ended

\* Other parts of the system: starts, HAL, facts and wallets.
StartIsStranded(i) ==
  /\ stage[i] = "none"
  /\ stage' = [stage EXCEPT ![i] = "requested"]
  /\ starts' = Append(starts, i)
  /\ UNCHANGED <<ended, refused, short>>

TransactionStarts(i) ==
  /\ stage[i] = "requested"
  /\ stage' = [stage EXCEPT ![i] = "started"]
  /\ UNCHANGED <<starts, ended, refused, short>>

TransactionCompletes(i) ==
  /\ stage[i] = "open"
  /\ stage' = [stage EXCEPT ![i] = "completed"]
  /\ UNCHANGED <<starts, ended, refused, short>>

FactArrives(i) ==
  \/ /\ stage[i] = "started" /\ i \notin refused
     /\ Opens(i)
     /\ UNCHANGED <<ended, refused, short>>
  \/ /\ stage[i] = "completed"
     /\ Ends(i)
     /\ UNCHANGED <<starts, refused, short>>

\* The session that holds the connector ends; the wallet is topped up.
ConflictEnds(i) ==
  /\ i \in refused
  /\ refused' = refused \ {i}
  /\ UNCHANGED <<stage, starts, ended, short>>

WalletIsToppedUp(i) ==
  /\ stage[i] = "ended" /\ i \in short
  /\ short' = short \ {i}
  /\ UNCHANGED <<stage, starts, ended, refused>>

Environment ==
  /\ \E i \in Items :
       \/ StartIsStranded(i) \/ TransactionStarts(i) \/ TransactionCompletes(i)
       \/ FactArrives(i) \/ ConflictEnds(i) \/ WalletIsToppedUp(i)
  /\ since' = [i \in Items |-> IF stage'[i] \in {"open", "completed"} THEN since[i] ELSE {}]
  /\ UNCHANGED <<cursor, pass, trouble>>

-----------------------------------------------------------------------------
(* A pass of ReconcilePending.                                             *)
Goto(w, p, b) == pass' = [pass EXCEPT ![w] = [phase |-> p, batch |-> b]]
Next1(w) == pass' = [pass EXCEPT ![w].batch = Tail(@)]

\* The tick; mappings and commands come first, and leave the rest as it is
\* unless an error ends the pass (PassEnds).
TickStarts(w) ==
  /\ At(w, "idle")
  /\ Goto(w, "commands", <<>>)
  /\ UNCHANGED <<rowVars, cursor, since>>

ListStarts(w) ==
  /\ At(w, "commands")
  /\ Goto(w, "starts", FirstOf(starts))
  /\ UNCHANGED <<rowVars, cursor, since>>

\* markStartReconciliation touches the row, which sends it to the back.
Mark(w) ==
  /\ starts' = IF stage[Item(w)] \in {"requested", "started"}
               THEN ToBack(starts, Item(w)) ELSE starts
  /\ Next1(w)
  /\ UNCHANGED <<stage, ended, refused, short, cursor, since>>

StartWithoutTransaction(w) ==
  /\ Working(w, "starts") /\ stage[Item(w)] = "requested"
  /\ Mark(w)

StartWithTransaction(w) ==
  /\ Working(w, "starts") /\ stage[Item(w)] # "requested"
  /\ IF stage[Item(w)] # "started"
     THEN Next1(w) /\ UNCHANGED <<stage, starts>>
     ELSE IF Item(w) \in refused
          THEN pass' = [pass EXCEPT ![w] = Idle] /\ UNCHANGED <<stage, starts>>
          ELSE Opens(Item(w)) /\ Next1(w)
  /\ UNCHANGED <<ended, refused, short, cursor, since>>

\* claimMaterializedSessionReconciliationBatch
Eligible == {i \in Items : stage[i] \in {"open", "completed"}}
Behind == SetToSortSeq({i \in Eligible : i > cursor}, <)
Wrapped == SetToSortSeq({i \in Eligible : i <= cursor}, <)

\* Mutant: the lowest ids again and again.
BatchFromHead == FirstOf(SetToSortSeq(Eligible, <))

Batch == FirstOf(Behind \o Wrapped)

\* Who has a turn in a batch before i has; all of them if it has none.
Preceding(b, i) ==
  {b[k] : k \in {k \in DOMAIN b : \A j \in 1..k : b[j] # i}}
Following(b, i) == ToSet(b) \ (Preceding(b, i) \cup {i})

ClaimSessions(w) ==
  /\ At(w, "starts") /\ pass[w].batch = <<>>
  /\ Goto(w, "sessions", Batch)
  /\ cursor' = IF Batch = <<>> THEN cursor ELSE Last(Batch)
  /\ since' = [i \in Items |->
       IF i \notin Eligible THEN {}
       ELSE IF i \in ToSet(Batch) THEN Following(Batch, i)
       ELSE since[i] \cup ToSet(Batch)]
  /\ UNCHANGED rowVars

VisitSession(w) ==
  /\ Working(w, "sessions")
  /\ IF stage[Item(w)] = "completed"
     THEN Ends(Item(w)) /\ since' = [since EXCEPT ![Item(w)] = {}]
     ELSE UNCHANGED <<stage, ended, since>>
  /\ Next1(w)
  /\ UNCHANGED <<starts, refused, short, cursor>>

\* ReconcileCompletedSettlements
ListEnded(w) ==
  /\ At(w, "sessions") /\ pass[w].batch = <<>>
  /\ Goto(w, "settlements", FirstOf(ended))
  /\ UNCHANGED <<rowVars, cursor, since>>

\* A session that cannot be paid is marked, which sends it to the back.
Settle(w) ==
  /\ Working(w, "settlements")
  /\ \/ /\ stage[Item(w)] = "ended" /\ Item(w) \notin short
        /\ stage' = [stage EXCEPT ![Item(w)] = "settled"]
        /\ ended' = Remove(ended, Item(w))
     \/ /\ stage[Item(w)] = "ended" => Item(w) \in short
        /\ ended' = IF stage[Item(w)] = "ended" THEN ToBack(ended, Item(w)) ELSE ended
        /\ UNCHANGED stage
  /\ Next1(w)
  /\ UNCHANGED <<starts, refused, short, cursor, since>>

PassDone(w) ==
  /\ At(w, "settlements") /\ pass[w].batch = <<>>
  /\ pass' = [pass EXCEPT ![w] = Idle]
  /\ UNCHANGED <<rowVars, cursor, since>>

Step(w) ==
  /\ \/ TickStarts(w) \/ ListStarts(w) \/ StartWithoutTransaction(w)
     \/ StartWithTransaction(w) \/ ClaimSessions(w) \/ VisitSession(w)
     \/ ListEnded(w) \/ Settle(w) \/ PassDone(w)
  /\ UNCHANGED trouble

\* A lookup that fails is noted and the pass goes on; the note of a start
\* touches its row, that of a session is on its command.
LookupFails(w) ==
  \/ Working(w, "starts") /\ Mark(w)
  \/ Working(w, "sessions") /\ Next1(w) /\ UNCHANGED <<rowVars, cursor, since>>

\* Any other error ends the pass, as does the end of the process.
PassEnds(w) ==
  /\ ~At(w, "idle")
  /\ pass' = [pass EXCEPT ![w] = Idle]
  /\ UNCHANGED <<rowVars, cursor, since>>

Troubled(w) == trouble /\ (LookupFails(w) \/ PassEnds(w)) /\ UNCHANGED trouble

TroubleEnds ==
  /\ trouble
  /\ trouble' = FALSE
  /\ UNCHANGED <<rowVars, cursor, pass, since>>

PassNext ==
  Environment \/ TroubleEnds \/ \E w \in PassWorkers : Step(w) \/ Troubled(w)

-----------------------------------------------------------------------------
\* No open session has a second turn while another waits for its first: the
\* cursor reaches every session, whatever comes, goes, or dies with its batch.
InTurn ==
  [][\A w \in PassWorkers : At(w, "starts") /\ At(w, "sessions")' =>
       \A i \in Eligible : Preceding(pass'[w].batch, i) \cap since[i] = {}]_passVars

\* Once what refuses a start is over and errors stop, the passes come to
\* every start HAL carried out, every session it completed and every
\* settlement the wallet can pay.
IsDue(i) ==
  \/ stage[i] \in {"started", "completed"}
  \/ stage[i] = "ended" /\ i \notin short

EveryItemIsReached == \A i \in Items : IsDue(i) ~> ~IsDue(i)
=============================================================================
