-------------------------- MODULE Charging_proofs --------------------------
(***************************************************************************)
(* Proofs about Charging, for all sets of starts, connectors, wallets and  *)
(* reconcilers and all prices and balances: its types, its safety          *)
(* invariants and that it implements WalletLedger.                         *)
(*                                                                         *)
(* The invariants are not inductive by themselves: that a start occupies   *)
(* its connector as long as its hold is kept depends on how the states of  *)
(* intent, hold, session and handler go together, and that no session is   *)
(* invented on what a fact or a reconciler still carries when it is        *)
(* applied.  Coherent and Evidence say both.                               *)
(***************************************************************************)
EXTENDS Charging, FiniteSetTheorems, WellFoundedInduction, TLAPS

\* The rows of one start, and how far its handler is
Coherent(i) ==
  /\ req[i] = "idle" <=> intent[i] = "none"
  /\ req[i] = "idle" <=> hold[i] = "none"
  /\ intent[i] = "none" => session[i] = "none" /\ ~releasedAt[i]
  /\ intent[i] = "ACTUALLY_STARTED" => session[i] # "none"
  /\ session[i] # "none" => intent[i] \in {"ACTUALLY_STARTED",
                                           "RECONCILIATION_REQUIRED"}
  /\ intent[i] = "REJECTED" => hold[i] = "RELEASED"
  /\ hold[i] = "RELEASED" => releasedAt[i]
  /\ session[i] = "COMPLETED" <=> hold[i] = "CAPTURED"
  /\ hold[i] = "RECONCILIATION_REQUIRED" => session[i] = "ENDED"
  /\ paid[i] => session[i] = "COMPLETED"

\* What CMS knows of the transaction of a start, or is about to be told
Evidence(i) ==
  /\ session[i] # "none" => halTx[i] # "none"
  /\ session[i] \in {"ENDED", "COMPLETED"} => halTx[i] = "completed"
  /\ StartedFact(i) \in outbox => halTx[i] # "none"
  /\ CompletedFact(i) \in outbox => halTx[i] = "completed"
  /\ \A r \in Reconcilers :
       look[r].item = i =>
         /\ look[r].step \in {"transaction_found", "found_command", "materialize"}
              => halTx[i] # "none"
         /\ look[r].step = "finalize"
              => halTx[i] = "completed" /\ session[i] # "none"

\* A request that was not delivered has no effect at HAL, and HAL carries a
\* command out once.
Delivered(i) ==
  /\ req[i] \in {"idle", "admitted"} => wire[i] = "none"
  /\ wire[i] # "gone" => halCommand[i] = "none"
  /\ halTx[i] # "none" => halCommand[i] = "MATERIALIZED"

IInv ==
  /\ TypeOK
  /\ \A i \in Intents : Coherent(i) /\ Evidence(i) /\ Delivered(i)
  /\ SingleOccupant

-----------------------------------------------------------------------------
(* Types.                                                                  *)

\* What a worker that is not idle holds, and where it may go from there
LEMMA Busy ==
  ASSUME TypeOK, NEW r \in Reconcilers, look[r].step # "idle"
  PROVE  /\ look[r] \in [step : LookSteps, item : Intents,
                         state : HALStates \cup {"none"}]
         /\ look[r].item \in Intents
         /\ look[r].state \in HALStates \cup {"none"}
  BY DEF TypeOK, Looks, Idle

LEMMA MoveOn ==
  ASSUME TypeOK, NEW r \in Reconcilers, look[r].step # "idle",
         NEW s \in LookSteps, Goto(r, s)
  PROVE  look' \in [Reconcilers -> Looks]
  <1>1. look[r] \in [step : LookSteps, item : Intents,
                     state : HALStates \cup {"none"}]
    BY Busy
  <1>2. [look[r] EXCEPT !.step = s] \in Looks
    BY <1>1 DEF Looks
  <1> QED
    BY <1>2 DEF TypeOK, Goto

LEMMA Learn ==
  ASSUME TypeOK, NEW r \in Reconcilers, look[r].step # "idle",
         NEW s \in LookSteps, NEW h \in HALStates \cup {"none"},
         look' = [look EXCEPT ![r].step = s, ![r].state = h]
  PROVE  look' \in [Reconcilers -> Looks]
  <1>1. look[r] \in [step : LookSteps, item : Intents,
                     state : HALStates \cup {"none"}]
    BY Busy
  <1>2. [look[r] EXCEPT !.step = s, !.state = h] \in Looks
    BY <1>1 DEF Looks
  <1>3. look' = [look EXCEPT ![r] = [look[r] EXCEPT !.step = s, !.state = h]]
    BY DEF TypeOK
  <1> QED
    BY <1>2, <1>3 DEF TypeOK

LEMMA HandlerTypes ==
  ASSUME TypeOK, NEW i \in Intents, Handler(i)
  PROVE  TypeOK'
  <1> USE ChargingAssumption
  <1>1. CASE Admit(i)
    BY <1>1 DEF Admit, TypeOK, HoldFor, RequestSteps, IntentStates, CommandStates, HoldStates, halVars, HALStates
  <1>2. CASE MappingFails(i)
    BY <1>2 DEF MappingFails, ReleaseHold, TypeOK, RequestSteps, IntentStates, CommandStates, HoldStates, halVars, HALStates
  <1>3. CASE SendStart(i)
    BY <1>3 DEF SendStart, TypeOK, RequestSteps, cmsVars, startVars, moneyVars
  <1>4. CASE StartAnswered(i)
    BY <1>4 DEF StartAnswered, TypeOK, RequestSteps, cmsVars, startVars, moneyVars, halVars
  <1>5. CASE StartUnanswered(i)
    BY <1>5 DEF StartUnanswered, TypeOK, RequestSteps, cmsVars, startVars, moneyVars, halVars
  <1>6. CASE RecordAnswer(i)
    BY <1>6 DEF RecordAnswer, TypeOK, RequestSteps, IntentStates, CommandStates, HALStates, startVars, moneyVars, halVars
  <1>7. CASE RecordFailure(i)
    BY <1>7 DEF RecordFailure, TypeOK, RequestSteps, IntentStates, CommandStates, moneyVars, halVars
  <1>8. CASE Abandon(i)
    BY <1>8 DEF Abandon, TypeOK, RequestSteps, cmsVars, startVars, moneyVars, halVars
  <1> QED
    BY <1>1, <1>2, <1>3, <1>4, <1>5, <1>6, <1>7, <1>8 DEF Handler

LEMMA HALTypes ==
  ASSUME TypeOK, NEW i \in Intents, HAL(i)
  PROVE  TypeOK'
  <1> USE ChargingAssumption
  <1>1. CASE HALReceivesStart(i)
    BY <1>1 DEF HALReceivesStart, PublishCommand, Publish, CommandFact, TypeOK, Facts, HALStates, requestVars, cmsVars, startVars, moneyVars
  <1>2. CASE StartLost(i)
    BY <1>2 DEF StartLost, TypeOK, requestVars, cmsVars, startVars, moneyVars
  <1>3. CASE ChargerAnswers(i)
    BY <1>3 DEF ChargerAnswers, PublishCommand, Publish, CommandFact, TypeOK, Facts, HALStates, requestVars, cmsVars, startVars, moneyVars
  <1>4. CASE TransactionStarts(i)
    BY <1>4 DEF TransactionStarts, Publish, StartedFact, TypeOK, Facts, HALStates, requestVars, cmsVars, startVars, moneyVars
  <1>5. CASE TransactionCompletes(i)
    BY <1>5 DEF TransactionCompletes, Publish, CompletedFact, TypeOK, Facts, HALStates, requestVars, cmsVars, startVars, moneyVars
  <1> QED
    BY <1>1, <1>2, <1>3, <1>4, <1>5 DEF HAL

\* A bill is within the balance, so no wallet gets below zero.
LEMMA SettleTypes ==
  ASSUME TypeOK, NEW i \in Intents, Settle(i)
  PROVE  /\ hold' \in [Intents -> HoldStates]
         /\ session' \in [Intents -> SessionStates]
         /\ paid' \in [Intents -> BOOLEAN]
         /\ balance' \in [Wallets -> Nat]
  <1> USE ChargingAssumption
  <1>1. CASE NeedsReconciliation(i)
    BY <1>1 DEF Settle, TypeOK, HoldStates, SessionStates
  <1>2. CASE ~NeedsReconciliation(i)
    <2>1. hold' \in [Intents -> HoldStates] /\ session' \in [Intents -> SessionStates]
      BY <1>2 DEF Settle, TypeOK, HoldStates, SessionStates
    <2>2. paid' = [paid EXCEPT ![i] = @ \/ usage[i] > 0]
      BY <1>2 DEF Settle
    <2>3. paid' \in [Intents -> BOOLEAN]
      BY <2>2, Zenon DEF TypeOK
    <2>4. balance' \in [Wallets -> Nat]
      BY <1>2 DEF Settle, NeedsReconciliation, TypeOK
    <2> QED
      BY <2>1, <2>3, <2>4
  <1> QED
    BY <1>1, <1>2

LEMMA FinalizeTypes ==
  ASSUME TypeOK, NEW i \in Intents, Finalize(i)
  PROVE  /\ hold' \in [Intents -> HoldStates]
         /\ session' \in [Intents -> SessionStates]
         /\ paid' \in [Intents -> BOOLEAN]
         /\ balance' \in [Wallets -> Nat]
         /\ UNCHANGED <<intent, command, holdAmount, releasedAt, topUps>>
  <1>1. CASE session[i] = "COMPLETED"
    BY <1>1 DEF Finalize, TypeOK, startVars
  <1>2. CASE session[i] # "COMPLETED"
    BY <1>2, SettleTypes DEF Finalize, startVars
  <1> QED
    BY <1>1, <1>2

LEMMA MaterializeTypes ==
  ASSUME TypeOK, NEW i \in Intents, MaterializeStart(i)
  PROVE  /\ intent' \in [Intents -> IntentStates]
         /\ command' \in [Intents -> CommandStates]
         /\ session' \in [Intents -> SessionStates]
  BY DEF MaterializeStart, LateStart, AlreadyStarted, StartSession, TypeOK, IntentStates, CommandStates, SessionStates, HALStates, startVars

LEMMA FactTypes ==
  ASSUME TypeOK, NEW i \in Intents, FactIngress(i)
  PROVE  TypeOK'
  <1> USE ChargingAssumption DEF Receipt
  <1>1. ASSUME NEW s \in ReportedStates, ApplyCommandFact(i, s)
        PROVE  TypeOK'
    BY <1>1 DEF ApplyCommandFact, TypeOK, CommandStates, HALStates, requestVars, moneyVars, halVars
  <1>2. CASE ApplyStartedFact(i)
    BY <1>2, MaterializeTypes DEF ApplyStartedFact, TypeOK, requestVars, moneyVars, halVars
  <1>3. CASE ApplyCompletedFact(i)
    <2>1. CASE session[i] = "none"
      BY <1>3, <2>1 DEF ApplyCompletedFact, TypeOK, requestVars, cmsVars, startVars, moneyVars, halVars
    <2>2. CASE session[i] # "none"
      BY <1>3, <2>2, FinalizeTypes DEF ApplyCompletedFact, TypeOK, requestVars, halVars
    <2> QED
      BY <2>1, <2>2
  <1> QED
    BY <1>1, <1>2, <1>3 DEF FactIngress

LEMMA ListTypes ==
  ASSUME TypeOK, NEW r \in Reconcilers, NEW i \in Intents,
         NEW s \in LookSteps, look' = [look EXCEPT ![r] = Working(s, i)]
  PROVE  look' \in [Reconcilers -> Looks]
  BY DEF TypeOK, Looks, Working

LEMMA IdleTypes ==
  ASSUME TypeOK, NEW r \in Reconcilers, GoIdle(r)
  PROVE  look' \in [Reconcilers -> Looks]
  BY DEF TypeOK, Looks, GoIdle

LEMMA WorkTypes ==
  ASSUME TypeOK, NEW r \in Reconcilers, WorkOn(r)
  PROVE  TypeOK'
  <1> USE ChargingAssumption
  <1> DEFINE i == look[r].item
  <1>0. /\ look[r].step # "idle" /\ i \in Intents
        /\ look[r].state \in HALStates \cup {"none"}
    <2>1. look[r].step # "idle"
      BY DEF WorkOn, At, ReadCommand, WriteCommand, RecordLookupFailure, HandleAbsent, ReadTransaction, ReadItsCommand, WriteItsCommand, ReconcileStart, MarkStart, MaterializeCompletion
    <2> QED
      BY <2>1, Busy
  <1>1. CASE ReadCommand(r)
    <2>1. look' \in [Reconcilers -> Looks]
      <3>1. halCommand[i] \in HALStates \cup {"none"}
        BY <1>0 DEF TypeOK
      <3> QED
        BY <1>0, <1>1, <3>1, Learn DEF ReadCommand, LookSteps
    <2> QED
      BY <1>1, <2>1 DEF ReadCommand, TypeOK, requestVars, cmsVars, startVars, moneyVars, halVars
  <1>2. CASE WriteCommand(r)
    BY <1>0, <1>2, IdleTypes DEF WriteCommand, TypeOK, CommandStates, HALStates, requestVars, moneyVars, halVars
  <1>3. CASE RecordLookupFailure(r)
    BY <1>0, <1>3, IdleTypes DEF RecordLookupFailure, TypeOK, CommandStates, requestVars, moneyVars, halVars
  <1>4. CASE HandleAbsent(r)
    <2>1. CASE Unmaterialized(i) /\ hold[i] = "HELD"
      <3>1. /\ ReleaseHold(i, "CONFIRMED_ABSENT") /\ GoIdle(r)
            /\ UNCHANGED <<requestVars, halVars, outbox>>
        BY <1>4, <2>1 DEF HandleAbsent
      <3>2. look' \in [Reconcilers -> Looks]
        BY <3>1, IdleTypes
      <3> QED
        BY <1>0, <3>1, <3>2 DEF ReleaseHold, TypeOK, CommandStates, IntentStates, HoldStates, requestVars, halVars
    <2>2. CASE ~(Unmaterialized(i) /\ hold[i] = "HELD")
      BY <1>0, <1>4, <2>2, IdleTypes DEF HandleAbsent, TypeOK, requestVars, cmsVars, startVars, moneyVars, halVars
    <2> QED
      BY <2>1, <2>2
  <1>5. CASE ReadTransaction(r)
    <2>1. look' \in [Reconcilers -> Looks]
      BY <1>0, <1>5, MoveOn DEF ReadTransaction, LookSteps
    <2> QED
      BY <1>5, <2>1 DEF ReadTransaction, TypeOK, requestVars, cmsVars, startVars, moneyVars, halVars
  <1>6. CASE ReadItsCommand(r)
    <2>1. look' \in [Reconcilers -> Looks]
      <3>1. CASE halCommand[i] = "none"
        BY <1>0, <1>6, <3>1, MoveOn DEF ReadItsCommand, LookSteps
      <3>2. CASE halCommand[i] # "none"
        <4>1. /\ halCommand[i] \in HALStates \cup {"none"}
              /\ StepAfterCommand(r) \in LookSteps
          BY <1>0 DEF TypeOK, StepAfterCommand, LookSteps
        <4> QED
          BY <1>0, <1>6, <3>2, <4>1, Learn DEF ReadItsCommand
      <3> QED
        BY <3>1, <3>2
    <2> QED
      BY <1>6, <2>1 DEF ReadItsCommand, TypeOK, requestVars, cmsVars, startVars, moneyVars, halVars
  <1>7. CASE WriteItsCommand(r)
    <2>1. look' \in [Reconcilers -> Looks]
      BY <1>0, <1>7, MoveOn DEF WriteItsCommand, LookSteps
    <2>2. command' \in [Intents -> CommandStates]
      BY <1>0, <1>7 DEF WriteItsCommand, TypeOK, CommandStates
    <2> QED
      BY <1>7, <2>1, <2>2 DEF WriteItsCommand, TypeOK, requestVars, moneyVars, halVars
  <1>8. CASE ReconcileStart(r)
    <2>1. /\ intent' \in [Intents -> IntentStates]
          /\ command' \in [Intents -> CommandStates]
          /\ session' \in [Intents -> SessionStates]
      BY <1>0, <1>8, MaterializeTypes DEF ReconcileStart, TypeOK, startVars
    <2> QED
      BY <1>8, <2>1, IdleTypes DEF ReconcileStart, TypeOK, requestVars, moneyVars, halVars
  <1>9. CASE MarkStart(r)
    BY <1>0, <1>9, IdleTypes DEF MarkStart, TypeOK, CommandStates, IntentStates, requestVars, moneyVars, halVars
  <1>10. CASE MaterializeCompletion(r)
    BY <1>0, <1>10, IdleTypes, FinalizeTypes DEF MaterializeCompletion, TypeOK, requestVars, halVars
  <1> QED
    BY <1>1, <1>2, <1>3, <1>4, <1>5, <1>6, <1>7, <1>8, <1>9, <1>10 DEF WorkOn

LEMMA ReconcileTypes ==
  ASSUME TypeOK, NEW r \in Reconcilers, Reconcile(r)
  PROVE  TypeOK'
  <1> DEFINE Listed(s, i) == /\ look' = [look EXCEPT ![r] = Working(s, i)]
                             /\ UNCHANGED <<requestVars, cmsVars, halVars, outbox>>
  <1>1. ASSUME NEW i \in Intents, NEW s \in LookSteps, Listed(s, i)
        PROVE  TypeOK'
    BY <1>1, ListTypes DEF TypeOK, requestVars, cmsVars, startVars, moneyVars, halVars
  <1>2. ASSUME NEW i \in Intents,
               ListCommand(r, i) \/ ListStranded(r, i) \/ ReadCompletion(r, i)
        PROVE  TypeOK'
    BY <1>1, <1>2 DEF ListCommand, ListStranded, ReadCompletion, LookSteps
  <1>3. ASSUME NEW i \in Intents, ReconcileSettlement(r, i)
        PROVE  TypeOK'
    BY <1>3, SettleTypes DEF ReconcileSettlement, TypeOK, requestVars, startVars, halVars
  <1> QED
    BY <1>2, <1>3, WorkTypes DEF Reconcile

LEMMA DisturbedTypes ==
  ASSUME TypeOK, NEW r \in Reconcilers, Disturbed(r)
  PROVE  TypeOK'
  <1>1. look' \in [Reconcilers -> Looks]
    BY MoveOn, IdleTypes DEF Disturbed, CommandLookupFails, StrandedLookupFails, ReconcilerStops, At, LookSteps
  <1> QED
    BY <1>1 DEF Disturbed, CommandLookupFails, StrandedLookupFails, ReconcilerStops, TypeOK, requestVars, cmsVars, startVars, moneyVars, halVars

LEMMA TopUpTypes ==
  ASSUME TypeOK, NEW w \in Wallets, TopUp(w)
  PROVE  TypeOK'
  BY ChargingAssumption DEF TopUp, TypeOK, requestVars, startVars, halVars

LEMMA NextTypes ==
  ASSUME TypeOK, [Next]_vars
  PROVE  TypeOK'
  <1>1. CASE UNCHANGED vars
    BY <1>1 DEF TypeOK, vars, requestVars, cmsVars, startVars, moneyVars, halVars
  <1>2. CASE Next
    BY <1>2, HandlerTypes, HALTypes, FactTypes, ReconcileTypes, DisturbedTypes, TopUpTypes DEF Next, Work
  <1> QED
    BY <1>1, <1>2

LEMMA InitTypes ==
  ASSUME Init
  PROVE  TypeOK
  BY ChargingAssumption DEF Init, TypeOK, RequestSteps, IntentStates, CommandStates, HoldStates, SessionStates, Looks, Idle

\* Every reachable state is well typed; in particular no wallet is ever
\* overdrawn.
THEOREM TypeCorrect == Spec => []TypeOK
  BY InitTypes, NextTypes, PTL DEF Spec

-----------------------------------------------------------------------------
(* The inductive invariant.  No part of it mentions command states, prices *)
(* or balances: they decide when a hold is settled, not what follows.      *)

LEMMA CoherentFrame ==
  ASSUME IInv, UNCHANGED <<req, intent, hold, releasedAt, session, paid>>
  PROVE  \A j \in Intents : Coherent(j)'
  BY DEF IInv, Coherent

LEMMA EvidenceFrame ==
  ASSUME IInv, UNCHANGED <<session, halTx, outbox, look>>
  PROVE  \A j \in Intents : Evidence(j)'
  BY DEF IInv, Evidence, StartedFact, CompletedFact

LEMMA DeliveredFrame ==
  ASSUME IInv, UNCHANGED <<req, wire, halCommand, halTx>>
  PROVE  \A j \in Intents : Delivered(j)'
  BY DEF IInv, Delivered

LEMMA OccupantFrame ==
  ASSUME IInv, UNCHANGED <<intent, session, releasedAt>>
  PROVE  SingleOccupant'
  BY DEF IInv, SingleOccupant, Rivals, Occupies, OpenIntent, OpenSession

\* A step after which only those occupy who did before, or whose hold was
\* released, joins no two starts on a connector.
LEMMA OccupantStep ==
  ASSUME IInv,
         \A j \in Intents :
           /\ releasedAt[j] => releasedAt'[j]
           /\ Occupies(j)' => Occupies(j) \/ releasedAt'[j]
  PROVE  SingleOccupant'
  BY DEF IInv, SingleOccupant, Rivals

LEMMA HandlerInv ==
  ASSUME IInv, TypeOK', NEW i \in Intents, Handler(i)
  PROVE  IInv'
  <1> USE DEF IInv
  <1>1. CASE Admit(i)
    <2>1. \A j \in Intents : Coherent(j)'
      BY <1>1 DEF Admit, Coherent, TypeOK, cmsVars, startVars, moneyVars, halVars
    <2>2. \A j \in Intents : Evidence(j)'
      BY <1>1, EvidenceFrame DEF Admit, cmsVars, startVars, moneyVars, halVars
    <2>3. \A j \in Intents : Delivered(j)'
      BY <1>1 DEF Admit, Delivered, TypeOK, cmsVars, startVars, moneyVars, halVars
    <2>4. SingleOccupant'
      BY <1>1 DEF Admit, SingleOccupant, Rivals, Occupies, OpenIntent, OpenSession, OpenStatuses, TypeOK, ConnectorIsFree, cmsVars, startVars, moneyVars, halVars
    <2> QED
      BY <2>1, <2>2, <2>3, <2>4
  <1>2. CASE MappingFails(i)
    <2>1. \A j \in Intents : Coherent(j)'
      BY <1>2 DEF MappingFails, ReleaseHold, Coherent, TypeOK, cmsVars, startVars, moneyVars, halVars
    <2>2. \A j \in Intents : Evidence(j)'
      BY <1>2, EvidenceFrame DEF MappingFails, ReleaseHold, cmsVars, startVars, moneyVars, halVars
    <2>3. \A j \in Intents : Delivered(j)'
      BY <1>2 DEF MappingFails, ReleaseHold, Delivered, TypeOK, cmsVars, startVars, moneyVars, halVars
    <2>4. SingleOccupant'
      BY <1>2 DEF MappingFails, ReleaseHold, SingleOccupant, Rivals, Occupies, OpenIntent, OpenSession, OpenStatuses, TypeOK, cmsVars, startVars, moneyVars, halVars
    <2> QED
      BY <2>1, <2>2, <2>3, <2>4
  <1>3. CASE SendStart(i)
    <2>1. \A j \in Intents : Coherent(j)'
      BY <1>3 DEF SendStart, Coherent, TypeOK, cmsVars, startVars, moneyVars, halVars
    <2>2. \A j \in Intents : Evidence(j)'
      BY <1>3, EvidenceFrame DEF SendStart, cmsVars, startVars, moneyVars, halVars
    <2>3. \A j \in Intents : Delivered(j)'
      BY <1>3 DEF SendStart, Delivered, TypeOK, cmsVars, startVars, moneyVars, halVars
    <2>4. SingleOccupant'
      BY <1>3, OccupantFrame DEF SendStart, cmsVars, startVars, moneyVars, halVars
    <2> QED
      BY <2>1, <2>2, <2>3, <2>4
  <1>4. CASE StartAnswered(i)
    <2>1. \A j \in Intents : Coherent(j)'
      BY <1>4 DEF StartAnswered, Coherent, TypeOK, cmsVars, startVars, moneyVars, halVars
    <2>2. \A j \in Intents : Evidence(j)'
      BY <1>4, EvidenceFrame DEF StartAnswered, cmsVars, startVars, moneyVars, halVars
    <2>3. \A j \in Intents : Delivered(j)'
      BY <1>4 DEF StartAnswered, Delivered, TypeOK, cmsVars, startVars, moneyVars, halVars
    <2>4. SingleOccupant'
      BY <1>4, OccupantFrame DEF StartAnswered, cmsVars, startVars, moneyVars, halVars
    <2> QED
      BY <2>1, <2>2, <2>3, <2>4
  <1>5. CASE StartUnanswered(i)
    <2>1. \A j \in Intents : Coherent(j)'
      BY <1>5 DEF StartUnanswered, Coherent, TypeOK, cmsVars, startVars, moneyVars, halVars
    <2>2. \A j \in Intents : Evidence(j)'
      BY <1>5, EvidenceFrame DEF StartUnanswered, cmsVars, startVars, moneyVars, halVars
    <2>3. \A j \in Intents : Delivered(j)'
      BY <1>5 DEF StartUnanswered, Delivered, TypeOK, cmsVars, startVars, moneyVars, halVars
    <2>4. SingleOccupant'
      BY <1>5, OccupantFrame DEF StartUnanswered, cmsVars, startVars, moneyVars, halVars
    <2> QED
      BY <2>1, <2>2, <2>3, <2>4
  <1>6. CASE RecordAnswer(i)
    <2>1. \A j \in Intents : Coherent(j)'
      BY <1>6 DEF RecordAnswer, AnswerIsStale, Coherent, TypeOK, cmsVars, startVars, moneyVars, halVars
    <2>2. \A j \in Intents : Evidence(j)'
      BY <1>6, EvidenceFrame DEF RecordAnswer, AnswerIsStale, cmsVars, startVars, moneyVars, halVars
    <2>3. \A j \in Intents : Delivered(j)'
      BY <1>6 DEF RecordAnswer, AnswerIsStale, Delivered, TypeOK, cmsVars, startVars, moneyVars, halVars
    <2>4. SingleOccupant'
      <3>1. \A j \in Intents : Occupies(j)' => Occupies(j)
        BY <1>6 DEF RecordAnswer, AnswerIsStale, Occupies, OpenIntent, OpenSession, OpenStatuses, Coherent, TypeOK, IntentStates, startVars
      <3> QED
        BY <1>6, <3>1, OccupantStep DEF RecordAnswer, moneyVars
    <2> QED
      BY <2>1, <2>2, <2>3, <2>4
  <1>7. CASE RecordFailure(i)
    <2>1. \A j \in Intents : Coherent(j)'
      BY <1>7 DEF RecordFailure, Coherent, TypeOK, cmsVars, startVars, moneyVars, halVars
    <2>2. \A j \in Intents : Evidence(j)'
      BY <1>7, EvidenceFrame DEF RecordFailure, cmsVars, startVars, moneyVars, halVars
    <2>3. \A j \in Intents : Delivered(j)'
      BY <1>7 DEF RecordFailure, Delivered, TypeOK, cmsVars, startVars, moneyVars, halVars
    <2>4. SingleOccupant'
      <3>1. \A j \in Intents : Occupies(j)' => Occupies(j) \/ releasedAt[j]
        <4> SUFFICES ASSUME NEW j \in Intents, Occupies(j)', ~Occupies(j)
                     PROVE  releasedAt[j]
          OBVIOUS
        <4>1. j = i /\ session[i] = "none"
          BY <1>7 DEF RecordFailure, Occupies, OpenIntent, OpenSession, TypeOK
        <4>2. intent[i] \notin {"none", "ACTUALLY_STARTED"}
          BY <1>7, <4>1 DEF RecordFailure, Coherent
        <4>3. intent[i] = "REJECTED"
          BY <4>1, <4>2 DEF Occupies, OpenIntent, OpenStatuses, TypeOK, IntentStates
        <4> QED
          BY <4>1, <4>3 DEF Coherent
      <3> QED
        BY <1>7, <3>1, OccupantStep DEF RecordFailure, moneyVars
    <2> QED
      BY <2>1, <2>2, <2>3, <2>4
  <1>8. CASE Abandon(i)
    <2>1. \A j \in Intents : Coherent(j)'
      BY <1>8 DEF Abandon, Coherent, TypeOK, cmsVars, startVars, moneyVars, halVars
    <2>2. \A j \in Intents : Evidence(j)'
      BY <1>8, EvidenceFrame DEF Abandon, cmsVars, startVars, moneyVars, halVars
    <2>3. \A j \in Intents : Delivered(j)'
      BY <1>8 DEF Abandon, Delivered, TypeOK, cmsVars, startVars, moneyVars, halVars
    <2>4. SingleOccupant'
      BY <1>8, OccupantFrame DEF Abandon, cmsVars, startVars, moneyVars, halVars
    <2> QED
      BY <2>1, <2>2, <2>3, <2>4
  <1> QED
    BY <1>1, <1>2, <1>3, <1>4, <1>5, <1>6, <1>7, <1>8 DEF Handler

\* Facts of different types, and of different starts, are different facts.
LEMMA FactsDiffer ==
  /\ \A i, j : StartedFact(i) = StartedFact(j) => i = j
  /\ \A i, j : CompletedFact(i) = CompletedFact(j) => i = j
  /\ \A i, j : StartedFact(i) # CompletedFact(j)
  /\ \A i, j, st : CommandFact(i, st) # StartedFact(j)
  /\ \A i, j, st : CommandFact(i, st) # CompletedFact(j)
  BY DEF StartedFact, CompletedFact, CommandFact

LEMMA CommandFactInert ==
  ASSUME NEW i, NEW st, PublishCommand(i, st)
  PROVE  /\ \A j : StartedFact(j) \in outbox' <=> StartedFact(j) \in outbox
         /\ \A j : CompletedFact(j) \in outbox' <=> CompletedFact(j) \in outbox
  BY FactsDiffer DEF PublishCommand, Publish

LEMMA HALInv ==
  ASSUME IInv, TypeOK', NEW i \in Intents, HAL(i)
  PROVE  IInv'
  <1> USE DEF IInv
  <1>1. CASE HALReceivesStart(i)
    <2>1. \A j \in Intents : Coherent(j)'
      BY <1>1, CoherentFrame DEF HALReceivesStart, PublishCommand, Publish, CommandFact, requestVars, cmsVars, startVars, moneyVars, halVars
    <2>2. \A j \in Intents : Evidence(j)'
      <3>1. /\ \A j : StartedFact(j) \in outbox' <=> StartedFact(j) \in outbox
            /\ \A j : CompletedFact(j) \in outbox' <=> CompletedFact(j) \in outbox
        BY <1>1, CommandFactInert DEF HALReceivesStart
      <3> QED
        BY <1>1, <3>1 DEF HALReceivesStart, Evidence, requestVars, cmsVars, startVars, moneyVars, halVars
    <2>3. \A j \in Intents : Delivered(j)'
      BY <1>1 DEF HALReceivesStart, PublishCommand, Publish, CommandFact, Delivered, TypeOK, requestVars, cmsVars, startVars, moneyVars, halVars
    <2>4. SingleOccupant'
      BY <1>1, OccupantFrame DEF HALReceivesStart, PublishCommand, Publish, CommandFact, requestVars, cmsVars, startVars, moneyVars, halVars
    <2> QED
      BY <2>1, <2>2, <2>3, <2>4
  <1>2. CASE StartLost(i)
    <2>1. \A j \in Intents : Coherent(j)'
      BY <1>2, CoherentFrame DEF StartLost, requestVars, cmsVars, startVars, moneyVars, halVars
    <2>2. \A j \in Intents : Evidence(j)'
      BY <1>2, EvidenceFrame DEF StartLost, requestVars, cmsVars, startVars, moneyVars, halVars
    <2>3. \A j \in Intents : Delivered(j)'
      BY <1>2 DEF StartLost, Delivered, TypeOK, requestVars, cmsVars, startVars, moneyVars, halVars
    <2>4. SingleOccupant'
      BY <1>2, OccupantFrame DEF StartLost, requestVars, cmsVars, startVars, moneyVars, halVars
    <2> QED
      BY <2>1, <2>2, <2>3, <2>4
  <1>3. CASE ChargerAnswers(i)
    <2>1. \A j \in Intents : Coherent(j)'
      BY <1>3, CoherentFrame DEF ChargerAnswers, PublishCommand, Publish, CommandFact, requestVars, cmsVars, startVars, moneyVars, halVars
    <2>2. \A j \in Intents : Evidence(j)'
      <3>0. PICK st : PublishCommand(i, st)
        BY <1>3 DEF ChargerAnswers
      <3>1. /\ \A j : StartedFact(j) \in outbox' <=> StartedFact(j) \in outbox
            /\ \A j : CompletedFact(j) \in outbox' <=> CompletedFact(j) \in outbox
        BY <1>3, <3>0, CommandFactInert DEF ChargerAnswers
      <3> QED
        BY <1>3, <3>1 DEF ChargerAnswers, Evidence, requestVars, cmsVars, startVars, moneyVars, halVars
    <2>3. \A j \in Intents : Delivered(j)'
      BY <1>3 DEF ChargerAnswers, PublishCommand, Publish, CommandFact, Delivered, TypeOK, requestVars, cmsVars, startVars, moneyVars, halVars
    <2>4. SingleOccupant'
      BY <1>3, OccupantFrame DEF ChargerAnswers, PublishCommand, Publish, CommandFact, requestVars, cmsVars, startVars, moneyVars, halVars
    <2> QED
      BY <2>1, <2>2, <2>3, <2>4
  <1>4. CASE TransactionStarts(i)
    <2>1. \A j \in Intents : Coherent(j)'
      BY <1>4, CoherentFrame DEF TransactionStarts, Publish, requestVars, cmsVars, startVars, moneyVars, halVars
    <2>2. \A j \in Intents : Evidence(j)'
      <3>0. halTx[i] = "none"
        BY <1>4 DEF TransactionStarts, Delivered, TypeOK
      <3>1. /\ \A j : StartedFact(j) \in outbox' => StartedFact(j) \in outbox \/ j = i
            /\ \A j : CompletedFact(j) \in outbox' => CompletedFact(j) \in outbox
        BY <1>4, FactsDiffer DEF TransactionStarts, Publish
      <3>2. halTx' = [halTx EXCEPT ![i] = "running"] /\ UNCHANGED <<session, look>>
        BY <1>4 DEF TransactionStarts, requestVars, cmsVars, startVars, moneyVars, halVars
      <3> QED
        BY <1>4, <3>0, <3>1, <3>2 DEF TransactionStarts, Evidence, TypeOK
    <2>3. \A j \in Intents : Delivered(j)'
      BY <1>4 DEF TransactionStarts, Publish, Delivered, TypeOK, requestVars, cmsVars, startVars, moneyVars, halVars
    <2>4. SingleOccupant'
      BY <1>4, OccupantFrame DEF TransactionStarts, Publish, requestVars, cmsVars, startVars, moneyVars, halVars
    <2> QED
      BY <2>1, <2>2, <2>3, <2>4
  <1>5. CASE TransactionCompletes(i)
    <2>1. \A j \in Intents : Coherent(j)'
      BY <1>5, CoherentFrame DEF TransactionCompletes, Publish, requestVars, cmsVars, startVars, moneyVars, halVars
    <2>2. \A j \in Intents : Evidence(j)'
      <3>1. /\ \A j : CompletedFact(j) \in outbox' => CompletedFact(j) \in outbox \/ j = i
            /\ \A j : StartedFact(j) \in outbox' => StartedFact(j) \in outbox
        BY <1>5, FactsDiffer DEF TransactionCompletes, Publish
      <3>2. halTx' = [halTx EXCEPT ![i] = "completed"] /\ UNCHANGED <<session, look>>
        BY <1>5 DEF TransactionCompletes, requestVars, cmsVars, startVars, moneyVars, halVars
      <3> QED
        BY <1>5, <3>1, <3>2 DEF TransactionCompletes, Evidence, TypeOK
    <2>3. \A j \in Intents : Delivered(j)'
      BY <1>5 DEF TransactionCompletes, Publish, Delivered, TypeOK, requestVars, cmsVars, startVars, moneyVars, halVars
    <2>4. SingleOccupant'
      BY <1>5, OccupantFrame DEF TransactionCompletes, Publish, requestVars, cmsVars, startVars, moneyVars, halVars
    <2> QED
      BY <2>1, <2>2, <2>3, <2>4
  <1> QED
    BY <1>1, <1>2, <1>3, <1>4, <1>5 DEF HAL

(* What the shared transactions do to the invariant.                       *)

LEMMA SettleInv ==
  ASSUME IInv, NEW i \in Intents, Settle(i),
         session[i] \in {"OPEN", "ENDED"}, halTx[i] = "completed",
         UNCHANGED <<req, intent, releasedAt, halTx>>
  PROVE  /\ \A j \in Intents : Coherent(j)'
         /\ \A j \in Intents : session'[j] # "none" <=> session[j] # "none"
         /\ \A j \in Intents : session'[j] \in {"ENDED", "COMPLETED"} =>
                                halTx[j] = "completed"
         /\ SingleOccupant'
  <1> USE DEF IInv
  <1>1. \/ /\ hold' = [hold EXCEPT ![i] = "RECONCILIATION_REQUIRED"]
           /\ session' = [session EXCEPT ![i] = "ENDED"]
           /\ paid' = paid
        \/ /\ hold' = [hold EXCEPT ![i] = "CAPTURED"]
           /\ session' = [session EXCEPT ![i] = "COMPLETED"]
           /\ \A j \in Intents \ {i} : paid'[j] = paid[j]
    BY DEF Settle, TypeOK
  <1>2. \A j \in Intents : Coherent(j)'
    BY <1>1 DEF Coherent, TypeOK
  <1>3. \A j \in Intents : session'[j] # "none" <=> session[j] # "none"
    BY <1>1 DEF TypeOK
  <1>4. \A j \in Intents : session'[j] \in {"ENDED", "COMPLETED"} =>
                           halTx[j] = "completed"
    BY <1>1 DEF Evidence, TypeOK
  <1>5. \A j \in Intents : Occupies(j)' => Occupies(j)
    BY <1>1 DEF Occupies, OpenIntent, OpenSession, TypeOK
  <1>6. SingleOccupant'
    BY <1>5, OccupantStep
  <1> QED
    BY <1>2, <1>3, <1>4, <1>6

LEMMA FinalizeInv ==
  ASSUME IInv, NEW i \in Intents, Finalize(i),
         session[i] # "none", halTx[i] = "completed", UNCHANGED <<req, halTx>>
  PROVE  /\ \A j \in Intents : Coherent(j)'
         /\ \A j \in Intents : session'[j] # "none" <=> session[j] # "none"
         /\ \A j \in Intents : session'[j] \in {"ENDED", "COMPLETED"} =>
                                halTx[j] = "completed"
         /\ SingleOccupant'
  <1>1. UNCHANGED <<intent, releasedAt>>
    BY DEF Finalize, startVars
  <1>2. CASE session[i] = "COMPLETED"
    BY <1>1, <1>2, CoherentFrame, OccupantFrame DEF Finalize, IInv, Evidence
  <1>3. CASE session[i] # "COMPLETED"
    <2>1. session[i] \in {"OPEN", "ENDED"}
      BY <1>3 DEF IInv, TypeOK, SessionStates
    <2> QED
      BY <1>1, <1>3, <2>1, SettleInv DEF Finalize
  <1> QED
    BY <1>2, <1>3

LEMMA MaterializeInv ==
  ASSUME IInv, NEW i \in Intents, MaterializeStart(i), halTx[i] # "none",
         UNCHANGED <<req, hold, releasedAt, paid, halTx>>
  PROVE  /\ \A j \in Intents : Coherent(j)'
         /\ \A j \in Intents :
              /\ session[j] # "none" => session'[j] # "none"
              /\ session'[j] # "none" => halTx[j] # "none"
              /\ session'[j] \in {"ENDED", "COMPLETED"} => halTx[j] = "completed"
         /\ SingleOccupant'
  <1> USE DEF IInv
  <1>1. CASE LateStart(i)
    <2>1. \A j \in Intents : Coherent(j)'
      BY <1>1 DEF LateStart, Coherent, TypeOK
    <2>2. \A j \in Intents : Occupies(j)' => Occupies(j) \/ releasedAt[j]
      BY <1>1 DEF LateStart, Occupies, OpenIntent, OpenSession, Coherent, TypeOK
    <2>3. SingleOccupant'
      BY <2>2, OccupantStep
    <2> QED
      BY <1>1, <2>1, <2>3 DEF LateStart, Evidence
  <1>2. CASE AlreadyStarted(i)
    BY <1>2, CoherentFrame, OccupantFrame DEF AlreadyStarted, startVars, Evidence
  <1>3. CASE StartSession(i)
    <2>1. \A j \in Intents : Coherent(j)'
      BY <1>3 DEF StartSession, OpenIntent, OpenStatuses, Coherent, TypeOK
    <2>2. \A j \in Intents : Occupies(j)' => Occupies(j)
      BY <1>3 DEF StartSession, Occupies, OpenIntent, OpenSession, TypeOK
    <2>3. SingleOccupant'
      BY <2>2, OccupantStep
    <2>4. \A j \in Intents :
            /\ session[j] # "none" => session'[j] # "none"
            /\ session'[j] # "none" => halTx[j] # "none"
            /\ session'[j] \in {"ENDED", "COMPLETED"} => halTx[j] = "completed"
      BY <1>3 DEF StartSession, Evidence, TypeOK
    <2> QED
      BY <2>1, <2>3, <2>4
  <1> QED
    BY <1>1, <1>2, <1>3 DEF MaterializeStart

\* Once facts and looks carry no more than before, evidence is what the
\* sessions rest on.
LEMMA EvidenceStep ==
  ASSUME IInv, outbox' \subseteq outbox, UNCHANGED halTx,
         \A j \in Intents :
           /\ session[j] # "none" => session'[j] # "none"
           /\ session'[j] # "none" => halTx[j] # "none"
           /\ session'[j] \in {"ENDED", "COMPLETED"} => halTx[j] = "completed",
         \A r \in Reconcilers : look'[r] = look[r] \/ look'[r] = Idle
  PROVE  \A j \in Intents : Evidence(j)'
  <1> SUFFICES ASSUME NEW j \in Intents
               PROVE  Evidence(j)'
    OBVIOUS
  <1>1. Evidence(j)
    BY DEF IInv
  <1>2. /\ StartedFact(j)' \in outbox' => StartedFact(j) \in outbox
        /\ CompletedFact(j)' \in outbox' => CompletedFact(j) \in outbox
    BY DEF StartedFact, CompletedFact
  <1>3. \A r \in Reconcilers :
          look'[r].item = j =>
            /\ look'[r].step \in {"transaction_found", "found_command", "materialize"}
                 => halTx[j] # "none"
            /\ look'[r].step = "finalize"
                 => halTx[j] = "completed" /\ session[j] # "none"
    BY <1>1 DEF Evidence, Idle
  <1> QED
    BY <1>1, <1>2, <1>3 DEF Evidence

LEMMA FactInv ==
  ASSUME IInv, TypeOK', NEW i \in Intents, FactIngress(i)
  PROVE  IInv'
  <1> USE DEF IInv
  <1>1. ASSUME NEW st \in ReportedStates, ApplyCommandFact(i, st)
        PROVE  IInv'
    <2>1. \A j \in Intents : Coherent(j)'
      BY <1>1, CoherentFrame DEF ApplyCommandFact, requestVars, moneyVars
    <2>2. \A j \in Intents : Evidence(j)'
      BY <1>1 DEF ApplyCommandFact, Receipt, Evidence, StartedFact, CompletedFact, halVars
    <2>3. \A j \in Intents : Delivered(j)'
      BY <1>1, DeliveredFrame DEF ApplyCommandFact, requestVars, halVars
    <2>4. SingleOccupant'
      BY <1>1, OccupantFrame DEF ApplyCommandFact, moneyVars
    <2> QED
      BY <2>1, <2>2, <2>3, <2>4
  <1>2. CASE ApplyStartedFact(i)
    <2>1. /\ MaterializeStart(i) /\ halTx[i] # "none"
          /\ UNCHANGED <<req, hold, releasedAt, paid, halTx>>
      BY <1>2 DEF ApplyStartedFact, Evidence, requestVars, moneyVars, halVars
    <2>2. \A j \in Intents : Evidence(j)'
      BY <1>2, <2>1, MaterializeInv, EvidenceStep DEF ApplyStartedFact, Receipt
    <2>3. \A j \in Intents : Delivered(j)'
      BY <1>2, DeliveredFrame DEF ApplyStartedFact, requestVars, halVars
    <2> QED
      BY <2>1, <2>2, <2>3, MaterializeInv
  <1>3. CASE ApplyCompletedFact(i)
    <2>1. /\ halTx[i] = "completed" /\ outbox' \subseteq outbox
          /\ UNCHANGED <<requestVars, halVars, look>>
      BY <1>3 DEF ApplyCompletedFact, Receipt, Evidence
    <2>2. CASE session[i] = "none"
      <3>1. UNCHANGED <<cmsVars>>
        BY <1>3, <2>2 DEF ApplyCompletedFact
      <3>2. \A j \in Intents : Evidence(j)'
        BY <2>1, <3>1, EvidenceStep DEF cmsVars, halVars, Evidence
      <3> QED
        BY <2>1, <3>1, <3>2, CoherentFrame, DeliveredFrame, OccupantFrame DEF cmsVars, startVars, moneyVars, requestVars, halVars
    <2>3. CASE session[i] # "none"
      <3>1. Finalize(i)
        BY <1>3, <2>3 DEF ApplyCompletedFact
      <3>2. /\ \A j \in Intents : Coherent(j)'
            /\ \A j \in Intents : session'[j] # "none" <=> session[j] # "none"
            /\ \A j \in Intents : session'[j] \in {"ENDED", "COMPLETED"} =>
                                   halTx[j] = "completed"
            /\ SingleOccupant'
        BY <2>1, <2>3, <3>1, FinalizeInv DEF requestVars, halVars
      <3>3. \A j \in Intents : Evidence(j)'
        BY <2>1, <3>2, EvidenceStep DEF halVars, Evidence
      <3> QED
        BY <2>1, <3>2, <3>3, DeliveredFrame DEF requestVars, halVars
    <2> QED
      BY <2>2, <2>3
  <1> QED
    BY <1>1, <1>2, <1>3 DEF FactIngress

\* A worker that moves on to a step with the evidence that step needs
LEMMA EvidenceLook ==
  ASSUME IInv, NEW r \in Reconcilers, UNCHANGED <<session, halTx, outbox>>,
         \A q \in Reconcilers \ {r} : look'[q] = look[q],
         look'[r].step \in {"transaction_found", "found_command", "materialize"}
           => halTx[look'[r].item] # "none",
         look'[r].step = "finalize"
           => halTx[look'[r].item] = "completed" /\ session[look'[r].item] # "none"
  PROVE  \A j \in Intents : Evidence(j)'
  <1> SUFFICES ASSUME NEW j \in Intents
               PROVE  Evidence(j)'
    OBVIOUS
  <1>1. Evidence(j)
    BY DEF IInv
  <1>2. \A q \in Reconcilers :
          look'[q].item = j =>
            /\ look'[q].step \in {"transaction_found", "found_command", "materialize"}
                 => halTx[j] # "none"
            /\ look'[q].step = "finalize"
                 => halTx[j] = "completed" /\ session[j] # "none"
    BY <1>1 DEF Evidence
  <1> QED
    BY <1>1, <1>2 DEF Evidence, StartedFact, CompletedFact

\* Steps that write nothing
LEMMA ReadOnly ==
  ASSUME IInv, TypeOK', UNCHANGED <<requestVars, cmsVars, halVars, outbox>>,
         \A j \in Intents : Evidence(j)'
  PROVE  IInv'
  BY CoherentFrame, DeliveredFrame, OccupantFrame DEF IInv, requestVars, cmsVars, startVars, moneyVars, halVars

\* Steps that write the command, or nothing but it and the look
LEMMA CommandOnly ==
  ASSUME IInv, TypeOK', UNCHANGED <<requestVars, intent, moneyVars, session, halVars, outbox>>,
         \A j \in Intents : Evidence(j)'
  PROVE  IInv'
  BY CoherentFrame, DeliveredFrame, OccupantFrame DEF IInv, requestVars, moneyVars, halVars

LEMMA Stepped ==
  ASSUME IInv, NEW r \in Reconcilers, look[r].step # "idle",
         NEW st, Goto(r, st)
  PROVE  /\ look'[r].step = st /\ look'[r].item = look[r].item
         /\ \A q \in Reconcilers \ {r} : look'[q] = look[q]
  <1>1. look \in [Reconcilers -> Looks]
    BY DEF IInv, TypeOK
  <1>2. look[r] \in [step : LookSteps, item : Intents,
                     state : HALStates \cup {"none"}]
    BY Busy DEF IInv
  <1>3. look' = [look EXCEPT ![r] = [look[r] EXCEPT !.step = st]]
    BY <1>1 DEF Goto
  <1> QED
    BY <1>1, <1>2, <1>3

LEMMA Learned ==
  ASSUME IInv, NEW r \in Reconcilers, look[r].step # "idle",
         NEW st, NEW h, look' = [look EXCEPT ![r].step = st, ![r].state = h]
  PROVE  /\ look'[r].step = st /\ look'[r].item = look[r].item
         /\ \A q \in Reconcilers \ {r} : look'[q] = look[q]
  <1>1. look \in [Reconcilers -> Looks]
    BY DEF IInv, TypeOK
  <1>2. look[r] \in [step : LookSteps, item : Intents,
                     state : HALStates \cup {"none"}]
    BY Busy DEF IInv
  <1>3. look' = [look EXCEPT ![r] = [look[r] EXCEPT !.step = st, !.state = h]]
    BY <1>1
  <1> QED
    BY <1>1, <1>2, <1>3

LEMMA Idled ==
  ASSUME IInv, NEW r \in Reconcilers, GoIdle(r)
  PROVE  \A q \in Reconcilers : look'[q] = look[q] \/ look'[q] = Idle
  BY DEF IInv, TypeOK, GoIdle

\* The worker rests on evidence about the start it works on.
LEMMA LookEvidence ==
  ASSUME IInv, NEW r \in Reconcilers, look[r].step # "idle"
  PROVE  /\ look[r].item \in Intents
         /\ look[r].step \in {"transaction_found", "found_command", "materialize"}
              => halTx[look[r].item] # "none"
         /\ look[r].step = "finalize"
              => halTx[look[r].item] = "completed" /\ session[look[r].item] # "none"
  BY Busy DEF IInv, Evidence

LEMMA SessionsKept ==
  ASSUME IInv, UNCHANGED <<session, halTx, outbox>>,
         \A q \in Reconcilers : look'[q] = look[q] \/ look'[q] = Idle
  PROVE  \A j \in Intents : Evidence(j)'
  <1>1. \A j \in Intents :
          /\ session'[j] # "none" => halTx[j] # "none"
          /\ session'[j] \in {"ENDED", "COMPLETED"} => halTx[j] = "completed"
    BY DEF IInv, Evidence
  <1> QED
    BY <1>1, EvidenceStep

LEMMA WorkInv ==
  ASSUME IInv, TypeOK', NEW r \in Reconcilers, WorkOn(r)
  PROVE  IInv'
  <1> DEFINE i == look[r].item
  <1>0. look[r].step # "idle" /\ i \in Intents
    <2>1. look[r].step # "idle"
      BY DEF WorkOn, At, ReadCommand, WriteCommand, RecordLookupFailure, HandleAbsent, ReadTransaction, ReadItsCommand, WriteItsCommand, ReconcileStart, MarkStart, MaterializeCompletion
    <2> QED
      BY <2>1, LookEvidence
  <1>1. CASE ReadCommand(r)
    <2>1. \A j \in Intents : Evidence(j)'
      <3>1. /\ look'[r].step = "command_read"
            /\ \A q \in Reconcilers \ {r} : look'[q] = look[q]
        BY <1>0, <1>1, Learned DEF ReadCommand
      <3>2. UNCHANGED <<session, halTx, outbox>>
        BY <1>1 DEF ReadCommand, cmsVars, halVars
      <3> QED
        BY <3>1, <3>2, EvidenceLook
    <2> QED
      BY <1>1, <2>1, ReadOnly DEF ReadCommand
  <1>2. CASE WriteCommand(r)
    <2>1. \A j \in Intents : Evidence(j)'
      BY <1>2, Idled, SessionsKept DEF WriteCommand, halVars
    <2> QED
      BY <1>2, <2>1, CommandOnly DEF WriteCommand
  <1>3. CASE RecordLookupFailure(r)
    <2>1. \A j \in Intents : Evidence(j)'
      BY <1>3, Idled, SessionsKept DEF RecordLookupFailure, halVars
    <2> QED
      BY <1>3, <2>1, CommandOnly DEF RecordLookupFailure
  <1>4. CASE HandleAbsent(r)
    <2>0. /\ GoIdle(r) /\ UNCHANGED <<requestVars, halVars, outbox, session>>
          /\ \/ /\ ReleaseHold(i, "CONFIRMED_ABSENT")
                /\ Unmaterialized(i) /\ hold[i] = "HELD"
             \/ UNCHANGED cmsVars
      BY <1>4 DEF HandleAbsent, ReleaseHold, cmsVars
    <2>1. \A j \in Intents : Evidence(j)'
      BY <2>0, Idled, SessionsKept DEF halVars
    <2>2. CASE UNCHANGED cmsVars
      BY <2>0, <2>1, <2>2, ReadOnly
    <2>3. CASE ReleaseHold(i, "CONFIRMED_ABSENT") /\ Unmaterialized(i) /\ hold[i] = "HELD"
      <3>1. \A j \in Intents : Coherent(j)'
        BY <1>0, <2>0, <2>3 DEF ReleaseHold, Unmaterialized, Coherent, IInv, TypeOK, requestVars
      <3>2. \A j \in Intents : /\ releasedAt[j] => releasedAt'[j]
                               /\ Occupies(j)' => Occupies(j)
        BY <1>0, <2>3 DEF ReleaseHold, Occupies, OpenIntent, OpenSession, OpenStatuses, IInv, TypeOK
      <3> QED
        BY <2>0, <2>1, <3>1, <3>2, OccupantStep, DeliveredFrame DEF IInv, requestVars, halVars
    <2> QED
      BY <2>0, <2>2, <2>3
  <1>5. CASE ReadTransaction(r)
    <2>1. \A j \in Intents : Evidence(j)'
      <3>1. CASE halTx[i] = "none"
        BY <1>0, <1>5, <3>1, Stepped, EvidenceLook DEF ReadTransaction, cmsVars, halVars
      <3>2. CASE halTx[i] # "none"
        BY <1>0, <1>5, <3>2, Stepped, EvidenceLook DEF ReadTransaction, cmsVars, halVars
      <3> QED
        BY <3>1, <3>2
    <2> QED
      BY <1>5, <2>1, ReadOnly DEF ReadTransaction
  <1>6. CASE ReadItsCommand(r)
    <2>1. \A j \in Intents : Evidence(j)'
      <3>0. UNCHANGED <<session, halTx, outbox>>
        BY <1>6 DEF ReadItsCommand, cmsVars, halVars
      <3>1. CASE halCommand[i] = "none"
        BY <1>0, <1>6, <3>0, <3>1, Stepped, EvidenceLook DEF ReadItsCommand
      <3>2. CASE halCommand[i] # "none"
        <4>1. look' = [look EXCEPT ![r].step = StepAfterCommand(r),
                                   ![r].state = halCommand[i]]
          BY <1>6, <3>2 DEF ReadItsCommand
        <4>2. /\ StepAfterCommand(r) \in {"found_command", "absent_command"}
              /\ StepAfterCommand(r) = "found_command" => halTx[i] # "none"
          BY <1>0, LookEvidence DEF StepAfterCommand, At
        <4>3. /\ look'[r].step = StepAfterCommand(r) /\ look'[r].item = i
              /\ \A q \in Reconcilers \ {r} : look'[q] = look[q]
          BY <1>0, <4>1, Learned
        <4> QED
          BY <3>0, <4>2, <4>3, EvidenceLook
      <3> QED
        BY <3>1, <3>2
    <2> QED
      BY <1>6, <2>1, ReadOnly DEF ReadItsCommand
  <1>7. CASE WriteItsCommand(r)
    <2>1. \A j \in Intents : Evidence(j)'
      <3>0. UNCHANGED <<session, halTx, outbox>>
        BY <1>7 DEF WriteItsCommand, halVars
      <3>1. CASE At(r, "found_command")
        BY <1>0, <1>7, <3>0, <3>1, Stepped, LookEvidence, EvidenceLook DEF WriteItsCommand, At
      <3>2. CASE ~At(r, "found_command")
        BY <1>0, <1>7, <3>0, <3>2, Stepped, EvidenceLook DEF WriteItsCommand
      <3> QED
        BY <3>1, <3>2
    <2> QED
      BY <1>7, <2>1, CommandOnly DEF WriteItsCommand
  <1>8. CASE ReconcileStart(r)
    <2>0. /\ halTx[i] # "none" /\ GoIdle(r)
          /\ UNCHANGED <<requestVars, moneyVars, halVars, outbox>>
          /\ MaterializeStart(i) \/ UNCHANGED <<startVars, session>>
      BY <1>0, <1>8, LookEvidence DEF ReconcileStart, At
    <2>1. CASE MaterializeStart(i)
      <3>1. \A j \in Intents : Evidence(j)'
        BY <1>0, <2>0, <2>1, MaterializeInv, Idled, EvidenceStep DEF requestVars, moneyVars, halVars
      <3> QED
        BY <1>0, <2>0, <2>1, <3>1, MaterializeInv, DeliveredFrame DEF IInv, requestVars, moneyVars, halVars
    <2>2. CASE UNCHANGED <<startVars, session>>
      <3>1. \A j \in Intents : Evidence(j)'
        BY <2>0, <2>2, Idled, SessionsKept DEF halVars
      <3> QED
        BY <2>0, <2>2, <3>1, ReadOnly DEF cmsVars
    <2> QED
      BY <2>0, <2>1, <2>2
  <1>9. CASE MarkStart(r)
    <2>0. /\ GoIdle(r) /\ UNCHANGED <<requestVars, moneyVars, session, halVars, outbox>>
          /\ \/ UNCHANGED intent
             \/ /\ intent' = [intent EXCEPT ![i] = "RECONCILIATION_REQUIRED"]
                /\ intent[i] \in OpenStatuses /\ session[i] = "none"
      <3>1. /\ GoIdle(r) /\ UNCHANGED <<requestVars, moneyVars, session, halVars, outbox>>
            /\ intent' = [intent EXCEPT ![i] =
                            IF intent[i] \in StrandedStatuses /\ session[i] = "none"
                            THEN "RECONCILIATION_REQUIRED" ELSE intent[i]]
        BY <1>9 DEF MarkStart
      <3>2. CASE intent[i] \in StrandedStatuses /\ session[i] = "none"
        BY <3>1, <3>2 DEF StrandedStatuses
      <3>3. CASE ~(intent[i] \in StrandedStatuses /\ session[i] = "none")
        <4>1. intent \in [Intents -> IntentStates]
          BY DEF IInv, TypeOK
        <4>2. UNCHANGED intent
          BY <1>0, <3>1, <3>3, <4>1
        <4> QED
          BY <3>1, <4>2
      <3> QED
        BY <3>2, <3>3
    <2>1. \A j \in Intents : Evidence(j)'
      BY <2>0, Idled, SessionsKept DEF halVars
    <2>2. \A j \in Intents : Coherent(j)'
      BY <1>0, <2>0 DEF Coherent, OpenStatuses, IInv, TypeOK, requestVars, moneyVars
    <2>3. \A j \in Intents : Occupies(j)' => Occupies(j)
      BY <1>0, <2>0 DEF Occupies, OpenIntent, OpenSession, IInv, TypeOK
    <2> QED
      BY <2>0, <2>1, <2>2, <2>3, OccupantStep, DeliveredFrame DEF IInv, requestVars, moneyVars, halVars
  <1>10. CASE MaterializeCompletion(r)
    <2>0. /\ Finalize(i) /\ GoIdle(r) /\ UNCHANGED <<requestVars, halVars, outbox>>
          /\ halTx[i] = "completed" /\ session[i] # "none"
      BY <1>0, <1>10, LookEvidence DEF MaterializeCompletion, At
    <2>1. /\ \A j \in Intents : Coherent(j)'
          /\ \A j \in Intents : session'[j] # "none" <=> session[j] # "none"
          /\ \A j \in Intents : session'[j] \in {"ENDED", "COMPLETED"} =>
                                 halTx[j] = "completed"
          /\ SingleOccupant'
      BY <1>0, <2>0, FinalizeInv DEF requestVars, halVars
    <2>2. \A j \in Intents : Evidence(j)'
      <3>1. \A j \in Intents : session[j] # "none" => halTx[j] # "none"
        BY DEF IInv, Evidence
      <3> QED
        BY <2>0, <2>1, <3>1, Idled, EvidenceStep DEF halVars
    <2> QED
      BY <2>0, <2>1, <2>2, DeliveredFrame DEF IInv, requestVars, halVars
  <1> QED
    BY <1>1, <1>2, <1>3, <1>4, <1>5, <1>6, <1>7, <1>8, <1>9, <1>10 DEF WorkOn

LEMMA ReconcileInv ==
  ASSUME IInv, TypeOK', NEW r \in Reconcilers, Reconcile(r)
  PROVE  IInv'
  <1>1. ASSUME NEW i \in Intents, NEW st \in {"command", "start"},
               look' = [look EXCEPT ![r] = Working(st, i)],
               UNCHANGED <<requestVars, cmsVars, halVars, outbox>>
        PROVE  IInv'
    <2>1. \A j \in Intents : Evidence(j)'
      BY <1>1, EvidenceLook DEF Working, IInv, TypeOK, cmsVars, halVars
    <2> QED
      BY <1>1, <2>1, ReadOnly
  <1>2. ASSUME NEW i \in Intents, ListCommand(r, i) \/ ListStranded(r, i)
        PROVE  IInv'
    BY <1>1, <1>2 DEF ListCommand, ListStranded
  <1>3. ASSUME NEW i \in Intents, ReadCompletion(r, i)
        PROVE  IInv'
    <2>1. \A j \in Intents : Evidence(j)'
      BY <1>3, EvidenceLook DEF ReadCompletion, Working, IInv, TypeOK, cmsVars, halVars
    <2> QED
      BY <1>3, <2>1, ReadOnly DEF ReadCompletion
  <1>4. ASSUME NEW i \in Intents, ReconcileSettlement(r, i)
        PROVE  IInv'
    <2>0. /\ Settle(i) /\ session[i] \in {"OPEN", "ENDED"}
          /\ halTx[i] = "completed"
          /\ UNCHANGED <<req, intent, releasedAt, wire, halCommand, halTx, outbox, look>>
      BY <1>4 DEF ReconcileSettlement, IInv, Evidence, requestVars, startVars, halVars
    <2>1. /\ \A j \in Intents : Coherent(j)'
          /\ \A j \in Intents : session'[j] # "none" <=> session[j] # "none"
          /\ \A j \in Intents : session'[j] \in {"ENDED", "COMPLETED"} =>
                                 halTx[j] = "completed"
          /\ SingleOccupant'
      BY <2>0, SettleInv
    <2>2. \A j \in Intents : Evidence(j)'
      <3>1. \A j \in Intents : session[j] # "none" => halTx[j] # "none"
        BY DEF IInv, Evidence
      <3> QED
        BY <2>0, <2>1, <3>1, EvidenceStep
    <2> QED
      BY <2>0, <2>1, <2>2, DeliveredFrame DEF IInv
  <1> QED
    BY <1>2, <1>3, <1>4, WorkInv DEF Reconcile

LEMMA DisturbedInv ==
  ASSUME IInv, TypeOK', NEW r \in Reconcilers, Disturbed(r)
  PROVE  IInv'
  <1>1. /\ look[r].step # "idle"
        /\ GoIdle(r) \/ Goto(r, "command_failed") \/ Goto(r, "mark")
        /\ UNCHANGED <<requestVars, cmsVars, halVars, outbox>>
    BY DEF Disturbed, CommandLookupFails, StrandedLookupFails, ReconcilerStops, At
  <1>2. UNCHANGED <<session, halTx, outbox>>
    BY <1>1 DEF cmsVars, halVars
  <1>3. CASE GoIdle(r)
    BY <1>1, <1>2, <1>3, Idled, SessionsKept, ReadOnly
  <1>4. ASSUME NEW st \in {"command_failed", "mark"}, Goto(r, st)
        PROVE  IInv'
    <2>1. look'[r].step = st /\ \A q \in Reconcilers \ {r} : look'[q] = look[q]
      BY <1>1, <1>4, Stepped
    <2>2. \A j \in Intents : Evidence(j)'
      BY <1>2, <2>1, EvidenceLook
    <2> QED
      BY <1>1, <2>2, ReadOnly
  <1> QED
    BY <1>1, <1>3, <1>4

LEMMA TopUpInv ==
  ASSUME IInv, TypeOK', NEW w \in Wallets, TopUp(w)
  PROVE  IInv'
  BY CoherentFrame, EvidenceFrame, DeliveredFrame, OccupantFrame DEF TopUp, IInv, requestVars, startVars, halVars

LEMMA NextInv ==
  ASSUME IInv, [Next]_vars
  PROVE  IInv'
  <1>1. TypeOK'
    BY NextTypes DEF IInv
  <1>2. CASE UNCHANGED vars
    BY <1>1, <1>2, CoherentFrame, EvidenceFrame, DeliveredFrame, OccupantFrame DEF IInv, vars, requestVars, cmsVars, startVars, moneyVars, halVars
  <1>3. CASE Next
    BY <1>1, <1>3, HandlerInv, HALInv, FactInv, ReconcileInv, DisturbedInv, TopUpInv DEF Next, Work
  <1> QED
    BY <1>2, <1>3

LEMMA InitInv ==
  ASSUME Init
  PROVE  IInv
  <1>1. \A j \in Intents : Coherent(j) /\ Evidence(j) /\ Delivered(j)
    BY DEF Init, Coherent, Evidence, Delivered, StartedFact, CompletedFact, Idle
  <1>2. SingleOccupant
    BY DEF Init, SingleOccupant, Rivals, Occupies, OpenIntent, OpenSession, OpenStatuses
  <1> QED
    BY <1>1, <1>2, InitTypes DEF IInv

THEOREM Inductive == Spec => []IInv
  BY InitInv, NextInv, PTL DEF Spec

\* Two starts whose holds were never given back do not share a connector.
THEOREM OneOccupant == Spec => []SingleOccupant
  <1>1. IInv => SingleOccupant
    BY DEF IInv
  <1> QED
    BY <1>1, Inductive, PTL

\* Money stays reserved exactly as long as the start it is for occupies.
THEOREM HoldsFollowOccupancy == Spec => []HoldTracksOccupancy
  <1>1. IInv => HoldTracksOccupancy
    <2> SUFFICES ASSUME IInv, NEW i \in Intents
                 PROVE  /\ hold[i] \in {"HELD", "RECONCILIATION_REQUIRED"} => Occupies(i)
                        /\ Occupies(i) /\ ~releasedAt[i] =>
                             hold[i] \in {"HELD", "RECONCILIATION_REQUIRED"}
      BY DEF HoldTracksOccupancy
    <2>1. /\ Coherent(i) /\ intent[i] \in IntentStates
          /\ hold[i] \in HoldStates /\ session[i] \in SessionStates
      BY DEF IInv, TypeOK
    <2> QED
      BY <2>1 DEF Coherent, Occupies, OpenIntent, OpenSession, OpenStatuses, IntentStates, HoldStates, SessionStates
  <1> QED
    BY <1>1, Inductive, PTL

\* Every session, and every end of one, rests on the charger's transaction.
THEOREM SessionsAreReal == Spec => []NoFabricatedSession
  <1>1. IInv => NoFabricatedSession
    BY DEF IInv, Evidence, NoFabricatedSession
  <1> QED
    BY <1>1, Inductive, PTL

-----------------------------------------------------------------------------
(* Releases.                                                               *)

ReleaseIsFinal ==
  \A i \in Intents : hold[i] # "RELEASED" /\ hold'[i] = "RELEASED" =>
                       session'[i] = "none" /\ intent'[i] = "REJECTED"

LEMMA SettleReleasesNothing ==
  ASSUME IInv, NEW i \in Intents, Settle(i)
  PROVE  \A j \in Intents : hold'[j] = "RELEASED" => hold[j] = "RELEASED"
  BY DEF Settle, IInv, TypeOK

LEMMA ReleaseStep ==
  ASSUME IInv, [Next]_vars
  PROVE  ReleaseIsFinal
  <1> USE DEF ReleaseIsFinal
  <1>1. CASE UNCHANGED hold
    BY <1>1
  <1>2. ASSUME NEW i \in Intents, Handler(i)
        PROVE  ReleaseIsFinal
    <2>1. CASE Admit(i)
      BY <2>1 DEF Admit, IInv, TypeOK
    <2>2. CASE MappingFails(i)
      BY <2>2 DEF MappingFails, ReleaseHold, IInv, TypeOK
    <2>3. CASE ~Admit(i) /\ ~MappingFails(i)
      BY <1>1, <1>2, <2>3 DEF Handler, SendStart, StartAnswered, StartUnanswered, RecordAnswer, RecordFailure, Abandon, cmsVars, moneyVars
    <2> QED
      BY <2>1, <2>2, <2>3
  <1>3. ASSUME NEW i \in Intents, HAL(i)
        PROVE  ReleaseIsFinal
    BY <1>1, <1>3 DEF HAL, HALReceivesStart, StartLost, ChargerAnswers, TransactionStarts, TransactionCompletes, cmsVars, moneyVars
  <1>4. ASSUME NEW i \in Intents, FactIngress(i)
        PROVE  ReleaseIsFinal
    <2>1. CASE ApplyCompletedFact(i)
      BY <1>1, <2>1, SettleReleasesNothing DEF ApplyCompletedFact, Finalize, cmsVars, moneyVars
    <2>2. CASE ~ApplyCompletedFact(i)
      BY <1>1, <1>4, <2>2 DEF FactIngress, ApplyCommandFact, ApplyStartedFact, moneyVars
    <2> QED
      BY <2>1, <2>2
  <1>5. ASSUME NEW r \in Reconcilers, WorkOn(r)
        PROVE  ReleaseIsFinal
    <2>1. look[r].item \in Intents
      BY <1>5, LookEvidence DEF WorkOn, At, ReadCommand, WriteCommand, RecordLookupFailure, HandleAbsent, ReadTransaction, ReadItsCommand, WriteItsCommand, ReconcileStart, MarkStart, MaterializeCompletion
    <2>2. CASE HandleAbsent(r)
      BY <1>1, <2>1, <2>2 DEF HandleAbsent, Unmaterialized, ReleaseHold, IInv, TypeOK, cmsVars, moneyVars
    <2>3. CASE MaterializeCompletion(r)
      BY <1>1, <2>1, <2>3, SettleReleasesNothing DEF MaterializeCompletion, Finalize
    <2>4. CASE ~HandleAbsent(r) /\ ~MaterializeCompletion(r)
      BY <1>1, <1>5, <2>4 DEF WorkOn, ReadCommand, WriteCommand, RecordLookupFailure, ReadTransaction, ReadItsCommand, WriteItsCommand, ReconcileStart, MarkStart, cmsVars, moneyVars
    <2> QED
      BY <2>2, <2>3, <2>4
  <1>6. ASSUME NEW r \in Reconcilers, Reconcile(r)
        PROVE  ReleaseIsFinal
    <2>1. ASSUME NEW i \in Intents, ReconcileSettlement(r, i)
          PROVE  ReleaseIsFinal
      BY <2>1, SettleReleasesNothing DEF ReconcileSettlement
    <2> QED
      BY <1>1, <1>5, <1>6, <2>1 DEF Reconcile, ListCommand, ListStranded, ReadCompletion, cmsVars, moneyVars
  <1>7. ASSUME NEW r \in Reconcilers, Disturbed(r)
        PROVE  ReleaseIsFinal
    BY <1>1, <1>7 DEF Disturbed, CommandLookupFails, StrandedLookupFails, ReconcilerStops, cmsVars, moneyVars
  <1>8. ASSUME NEW w \in Wallets, TopUp(w)
        PROVE  ReleaseIsFinal
    BY <1>1, <1>8 DEF TopUp
  <1>9. CASE UNCHANGED vars
    BY <1>1, <1>9 DEF vars, cmsVars, moneyVars
  <1> QED
    BY <1>2, <1>3, <1>4, <1>6, <1>7, <1>8, <1>9 DEF Next, Work

\* A hold is given back only to a start that never got a session and is
\* rejected by the same transaction.
THEOREM ReleasesAreFinal == Spec => ReleasedOnlyUnstarted
  <1>1. IInv /\ [Next]_vars => [ReleaseIsFinal]_vars
    BY ReleaseStep
  <1> QED
    BY <1>1, Inductive, PTL DEF Spec, ReleasedOnlyUnstarted, ReleaseIsFinal

-----------------------------------------------------------------------------
(* The refinement.                                                         *)

LEMMA LedgerFrame ==
  ASSUME UNCHANGED <<balance, topUps, holdAmount, paid>>,
         \A j \in Intents : /\ intent'[j] = "none" <=> intent[j] = "none"
                            /\ session'[j] = "COMPLETED" <=> session[j] = "COMPLETED"
                            /\ paid[j] => usage'[j] = usage[j]
  PROVE  UNCHANGED Ledger!vars
  <1>1. Bills' = Bills
    BY DEF Bills
  <1>2. Charges' = Charges
    BY DEF Charges
  <1> QED
    BY <1>1, <1>2 DEF Ledger!vars

\* A settlement bills the session, or leaves the ledger alone.
LEMMA SettleBills ==
  ASSUME IInv, TypeOK', NEW i \in Intents, Settle(i),
         session[i] \in {"OPEN", "ENDED"},
         UNCHANGED <<intent, holdAmount, topUps, usage>>
  PROVE  Ledger!Bill(i) \/ UNCHANGED Ledger!vars
  <1> USE DEF IInv
  <1>1. CASE NeedsReconciliation(i)
    <2>1. /\ session' = [session EXCEPT ![i] = "ENDED"]
          /\ UNCHANGED <<paid, balance>>
      BY <1>1 DEF Settle
    <2>2. \A j \in Intents : session'[j] = "COMPLETED" <=> session[j] = "COMPLETED"
      BY <2>1 DEF TypeOK
    <2> QED
      BY <2>1, <2>2, LedgerFrame
  <1>2. CASE ~NeedsReconciliation(i)
    <2>0. /\ WalletOf[i] \in Wallets /\ balance[WalletOf[i]] \in Nat
          /\ usage[i] \in Nat /\ holdAmount[i] \in Nat
      BY ChargingAssumption DEF TypeOK
    <2>1. ~paid[i] /\ intent[i] # "none"
      BY DEF Coherent
    <2>2. usage[i] <= holdAmount[i] /\ usage[i] <= balance[WalletOf[i]]
      BY <1>2, <2>0, <2>1 DEF NeedsReconciliation
    <2>3. /\ session' = [session EXCEPT ![i] = "COMPLETED"]
          /\ paid' = [paid EXCEPT ![i] = paid[i] \/ usage[i] > 0]
          /\ balance' = [balance EXCEPT ![WalletOf[i]] = @ - usage[i]]
      BY <1>2, <2>1 DEF Settle
    <2>4. Bills[i] = "open" /\ Bills' = [Bills EXCEPT ![i] = "settled"]
      <3>1. \A j \in Intents : Bills'[j] = IF j = i THEN "settled" ELSE Bills[j]
        BY <2>3 DEF Bills, TypeOK
      <3>2. Bills = [j \in Intents |-> Bills[j]] /\ Bills' = [j \in Intents |-> Bills'[j]]
        BY DEF Bills
      <3> QED
        BY <2>1, <3>1, <3>2 DEF Bills
    <2>5. Charges' = [Charges EXCEPT ![i] = usage[i]]
      <3>1. Charges'[i] = usage[i]
        <4>1. paid'[i] <=> usage[i] > 0
          <5>1. paid \in [Intents -> BOOLEAN]
            BY DEF TypeOK
          <5>2. paid'[i] = (paid[i] \/ usage[i] > 0)
            BY <2>3, <5>1, Zenon
          <5> QED
            BY <2>1, <5>2, Zenon
        <4> QED
          BY <2>0, <4>1 DEF Charges
      <3>2. \A j \in Intents \ {i} : Charges'[j] = Charges[j]
        BY <2>3 DEF Charges, TypeOK
      <3>3. Charges = [j \in Intents |-> Charges[j]] /\ Charges' = [j \in Intents |-> Charges'[j]]
        BY DEF Charges
      <3> QED
        BY <3>1, <3>2, <3>3
    <2>6. usage[i] \in 0..balance[WalletOf[i]]
      BY <2>0, <2>2
    <2> QED
      BY <2>2, <2>3, <2>4, <2>5, <2>6 DEF Ledger!Bill
  <1> QED
    BY <1>1, <1>2

LEMMA FinalizeBills ==
  ASSUME IInv, TypeOK', NEW i \in Intents, Finalize(i), session[i] # "none",
         UNCHANGED usage
  PROVE  Ledger!Bill(i) \/ UNCHANGED Ledger!vars
  <1>1. UNCHANGED <<intent, holdAmount, topUps>>
    BY DEF Finalize, startVars
  <1>2. CASE session[i] = "COMPLETED"
    BY <1>1, <1>2, LedgerFrame DEF Finalize
  <1>3. CASE session[i] # "COMPLETED"
    <2>1. session[i] \in {"OPEN", "ENDED"}
      BY <1>3 DEF IInv, TypeOK, SessionStates
    <2> QED
      BY <1>1, <1>3, <2>1, SettleBills DEF Finalize
  <1> QED
    BY <1>2, <1>3

LEMMA MaterializeBillsNothing ==
  ASSUME IInv, NEW i \in Intents, MaterializeStart(i),
         UNCHANGED <<moneyVars, usage>>
  PROVE  UNCHANGED Ledger!vars
  <1>1. \A j \in Intents : /\ intent'[j] = "none" <=> intent[j] = "none"
                           /\ session'[j] = "COMPLETED" <=> session[j] = "COMPLETED"
    BY DEF MaterializeStart, LateStart, AlreadyStarted, StartSession, OpenIntent, OpenStatuses, startVars, IInv, TypeOK
  <1> QED
    BY <1>1, LedgerFrame DEF moneyVars

LEMMA HandlerLedger ==
  ASSUME IInv, TypeOK', NEW i \in Intents, Handler(i)
  PROVE  Ledger!Reserve(i) \/ UNCHANGED Ledger!vars
  <1> USE DEF IInv
  <1>1. CASE Admit(i)
    <2>1. /\ req[i] = "idle" /\ intent' = [intent EXCEPT ![i] = "REQUESTED"]
          /\ UNCHANGED <<session, paid, balance, topUps, usage>>
          /\ holdAmount' = [holdAmount EXCEPT ![i] = holdAmount'[i]]
      BY <1>1 DEF Admit, halVars, TypeOK
    <2>2. intent[i] = "none" /\ session[i] = "none"
      BY <2>1 DEF Coherent
    <2>3. Bills[i] = "none" /\ Bills' = [Bills EXCEPT ![i] = "open"]
      <3>1. \A j \in Intents : Bills'[j] = IF j = i THEN "open" ELSE Bills[j]
        BY <2>1, <2>2 DEF Bills, TypeOK
      <3>2. Bills = [j \in Intents |-> Bills[j]] /\ Bills' = [j \in Intents |-> Bills'[j]]
        BY DEF Bills
      <3> QED
        BY <2>2, <3>1, <3>2 DEF Bills
    <2>4. Charges' = Charges /\ holdAmount'[i] \in Nat
      BY <2>1 DEF Charges, TypeOK
    <2> QED
      BY <2>1, <2>3, <2>4 DEF Ledger!Reserve
  <1>2. CASE MappingFails(i)
    BY <1>2, LedgerFrame DEF MappingFails, ReleaseHold, halVars, TypeOK
  <1>3. CASE SendStart(i) \/ StartAnswered(i) \/ StartUnanswered(i) \/ Abandon(i)
    BY <1>3, LedgerFrame DEF SendStart, StartAnswered, StartUnanswered, Abandon, cmsVars, startVars, moneyVars, halVars
  <1>4. CASE RecordAnswer(i)
    BY <1>4, LedgerFrame DEF RecordAnswer, Coherent, startVars, moneyVars, halVars, TypeOK
  <1>5. CASE RecordFailure(i)
    BY <1>5, LedgerFrame DEF RecordFailure, Coherent, moneyVars, halVars, TypeOK
  <1> QED
    BY <1>1, <1>2, <1>3, <1>4, <1>5 DEF Handler

LEMMA HALLedger ==
  ASSUME IInv, NEW i \in Intents, HAL(i)
  PROVE  UNCHANGED Ledger!vars
  <1>1. \A j \in Intents : paid[j] => usage'[j] = usage[j]
    <2>1. CASE TransactionCompletes(i)
      BY <2>1 DEF TransactionCompletes, IInv, TypeOK, Coherent, Evidence
    <2>2. CASE ~TransactionCompletes(i)
      BY <2>2 DEF HAL, HALReceivesStart, StartLost, ChargerAnswers, TransactionStarts
    <2> QED
      BY <2>1, <2>2
  <1>2. UNCHANGED cmsVars
    BY DEF HAL, HALReceivesStart, StartLost, ChargerAnswers, TransactionStarts, TransactionCompletes
  <1> QED
    BY <1>1, <1>2, LedgerFrame DEF cmsVars, startVars, moneyVars

LEMMA FactLedger ==
  ASSUME IInv, TypeOK', NEW i \in Intents, FactIngress(i)
  PROVE  Ledger!Bill(i) \/ UNCHANGED Ledger!vars
  <1>1. ASSUME NEW st \in ReportedStates, ApplyCommandFact(i, st)
        PROVE  UNCHANGED Ledger!vars
    BY <1>1, LedgerFrame DEF ApplyCommandFact, moneyVars, halVars
  <1>2. CASE ApplyStartedFact(i)
    BY <1>2, MaterializeBillsNothing DEF ApplyStartedFact, halVars
  <1>3. CASE ApplyCompletedFact(i) /\ session[i] = "none"
    BY <1>3, LedgerFrame DEF ApplyCompletedFact, cmsVars, startVars, moneyVars, halVars
  <1>4. CASE ApplyCompletedFact(i) /\ session[i] # "none"
    BY <1>4, FinalizeBills DEF ApplyCompletedFact, halVars
  <1> QED
    BY <1>1, <1>2, <1>3, <1>4 DEF FactIngress

LEMMA ReconcileLedger ==
  ASSUME IInv, TypeOK', NEW r \in Reconcilers, Reconcile(r)
  PROVE  (\E i \in Intents : Ledger!Bill(i)) \/ UNCHANGED Ledger!vars
  <1>1. CASE UNCHANGED <<cmsVars, usage>>
    BY <1>1, LedgerFrame DEF cmsVars, startVars, moneyVars
  <1>2. ASSUME NEW i \in Intents,
               ListCommand(r, i) \/ ListStranded(r, i) \/ ReadCompletion(r, i)
        PROVE  UNCHANGED Ledger!vars
    BY <1>2, LedgerFrame DEF ListCommand, ListStranded, ReadCompletion, cmsVars, startVars, moneyVars, halVars
  <1>3. ASSUME NEW i \in Intents, ReconcileSettlement(r, i)
        PROVE  Ledger!Bill(i) \/ UNCHANGED Ledger!vars
    BY <1>3, SettleBills DEF ReconcileSettlement, startVars, halVars
  <1>4. CASE WorkOn(r)
    <2> DEFINE i == look[r].item
    <2>0. look[r].step # "idle" /\ i \in Intents
      BY <1>4, LookEvidence DEF WorkOn, At, ReadCommand, WriteCommand, RecordLookupFailure, HandleAbsent, ReadTransaction, ReadItsCommand, WriteItsCommand, ReconcileStart, MarkStart, MaterializeCompletion
    <2>1. CASE ReadCommand(r) \/ ReadTransaction(r) \/ ReadItsCommand(r)
      BY <1>1, <2>1 DEF ReadCommand, ReadTransaction, ReadItsCommand, halVars
    <2>2. CASE WriteCommand(r) \/ RecordLookupFailure(r) \/ WriteItsCommand(r)
      BY <2>2, LedgerFrame DEF WriteCommand, RecordLookupFailure, WriteItsCommand, moneyVars, halVars
    <2>3. CASE HandleAbsent(r)
      <3>1. UNCHANGED usage /\ (UNCHANGED cmsVars \/
              (ReleaseHold(i, "CONFIRMED_ABSENT") /\ Unmaterialized(i)))
        BY <2>3 DEF HandleAbsent, halVars
      <3>2. CASE ReleaseHold(i, "CONFIRMED_ABSENT") /\ Unmaterialized(i)
        BY <2>0, <3>1, <3>2, LedgerFrame DEF ReleaseHold, Unmaterialized, IInv, TypeOK
      <3> QED
        BY <1>1, <3>1, <3>2
    <2>4. CASE ReconcileStart(r)
      <3>1. CASE MaterializeStart(i)
        BY <2>0, <2>4, <3>1, MaterializeBillsNothing DEF ReconcileStart, halVars
      <3>2. CASE UNCHANGED <<startVars, session>>
        BY <1>1, <2>4, <3>2 DEF ReconcileStart, cmsVars, halVars
      <3> QED
        BY <2>4, <3>1, <3>2 DEF ReconcileStart
    <2>5. CASE MarkStart(r)
      <3>1. \A j \in Intents : intent'[j] = "none" <=> intent[j] = "none"
        BY <2>0, <2>5 DEF MarkStart, StrandedStatuses, OpenStatuses, IInv, TypeOK
      <3> QED
        BY <2>5, <3>1, LedgerFrame DEF MarkStart, moneyVars, halVars
    <2>6. CASE MaterializeCompletion(r)
      BY <2>0, <2>6, LookEvidence, FinalizeBills DEF MaterializeCompletion, At, halVars
    <2> QED
      BY <1>4, <2>0, <2>1, <2>2, <2>3, <2>4, <2>5, <2>6 DEF WorkOn
  <1> QED
    BY <1>2, <1>3, <1>4 DEF Reconcile

LEMMA TopUpLedger ==
  ASSUME IInv, NEW w \in Wallets, TopUp(w)
  PROVE  Ledger!Credit(w)
  <1>1. Bills' = Bills /\ Charges' = Charges
    BY DEF TopUp, Bills, Charges, startVars, halVars
  <1> QED
    BY <1>1 DEF TopUp, Ledger!Credit

LEMMA LedgerStep ==
  ASSUME IInv, TypeOK', [Next]_vars
  PROVE  Ledger!Next \/ UNCHANGED Ledger!vars
  <1>1. CASE UNCHANGED vars
    BY <1>1, LedgerFrame DEF vars, cmsVars, startVars, moneyVars, halVars
  <1>2. ASSUME NEW r \in Reconcilers, Disturbed(r)
        PROVE  UNCHANGED Ledger!vars
    BY <1>2, LedgerFrame DEF Disturbed, CommandLookupFails, StrandedLookupFails, ReconcilerStops, cmsVars, startVars, moneyVars, halVars
  <1>3. CASE Next
    BY <1>2, <1>3, HandlerLedger, HALLedger, FactLedger, ReconcileLedger, TopUpLedger DEF Next, Work, Ledger!Next
  <1> QED
    BY <1>1, <1>3

LEMMA LedgerInit ==
  ASSUME Init
  PROVE  Ledger!Init
  BY DEF Init, Ledger!Init, Bills, Charges

\* Whatever is lost, late, repeated or interleaved, every start is billed at
\* most once, within its hold and the balance of its wallet.
THEOREM LedgerImplemented == Spec => ImplementsLedger
  <1>1. IInv /\ TypeOK' /\ [Next]_vars => [Ledger!Next]_(Ledger!vars)
    BY LedgerStep
  <1> QED
    BY <1>1, LedgerInit, Inductive, TypeCorrect, PTL DEF Spec, ImplementsLedger, Ledger!Spec

-----------------------------------------------------------------------------
(* Sums over finite sets.  MapThenSumSet is a fold: what it returns is     *)
(* proved without induction, by exhibiting a function that satisfies the   *)
(* fold's equation (it counts tokens, a[x] of them for each x) and taking  *)
(* a smallest set on which another such function could differ.             *)

\* The sum of a over S counts, for each x, the tokens <<x, 1>> .. <<x, a[x]>>.
TokensOf(a, x) == {x} \X (1 .. a[x])
Tokens(a, S)   == UNION {TokensOf(a, x) : x \in S}
Sum(a, S)      == Cardinality(Tokens(a, S))

LEMMA SmallestSet ==
  ASSUME NEW S, IsFiniteSet(S), NEW B \in SUBSET SUBSET S, B # {}
  PROVE  \E m \in B : \A t \in B : t \subseteq m => t = m
  <1>1. IsWellFoundedOn(StrictSubsetOrdering(S), SUBSET S)
    BY FS_StrictSubsetOrderingWellFounded, FS_FiniteSubsetsOfFinite
  <1>2. PICK m \in B : \A t \in B : ~ (<<t, m>> \in StrictSubsetOrdering(S))
    <2>1. B \subseteq SUBSET S
      OBVIOUS
    <2> QED
      BY <1>1, <2>1, WFMin
  <1> QED
    BY <1>2 DEF StrictSubsetOrdering

LEMMA TokensOfOne ==
  ASSUME NEW a, NEW x, a[x] \in Nat
  PROVE  IsFiniteSet(TokensOf(a, x)) /\ Cardinality(TokensOf(a, x)) = a[x]
  <1> DEFINE one == {x}
             nums == 1 .. a[x]
  <1>1. IsFiniteSet(one) /\ Cardinality(one) = 1
    BY FS_Singleton
  <1>2. IsFiniteSet(nums) /\ Cardinality(nums) = a[x]
    BY FS_Interval
  <1>3. /\ IsFiniteSet(one \X nums)
        /\ Cardinality(one \X nums) = Cardinality(one) * Cardinality(nums)
    <2> HIDE DEF one, nums
    <2> QED
      BY <1>1, <1>2, FS_Product
  <1> HIDE DEF one, nums
  <1>4. Cardinality(one \X nums) = a[x]
    BY <1>1, <1>2, <1>3
  <1> QED
    BY <1>3, <1>4 DEF TokensOf, one, nums

LEMMA TokensFinite ==
  ASSUME NEW a, NEW S, IsFiniteSet(S), \A x \in S : a[x] \in Nat
  PROVE  IsFiniteSet(Tokens(a, S))
  <1> DEFINE parts == {TokensOf(a, x) : x \in S}
             f == [x \in S |-> TokensOf(a, x)]
  <1>1. f \in Surjection(S, parts)
    BY DEF Surjection
  <1>2. IsFiniteSet(parts)
    BY <1>1, FS_Surjection
  <1>3. \A p \in parts : IsFiniteSet(p)
    BY TokensOfOne
  <1> QED
    BY <1>2, <1>3, FS_UNION DEF Tokens

LEMMA SumType ==
  ASSUME NEW a, NEW S, IsFiniteSet(S), \A x \in S : a[x] \in Nat
  PROVE  Sum(a, S) \in Nat
  BY TokensFinite, FS_CardinalityType DEF Sum

LEMMA SumEmpty ==
  ASSUME NEW a
  PROVE  Sum(a, {}) = 0
  <1>1. Tokens(a, {}) = {}
    BY DEF Tokens
  <1> QED
    BY <1>1, FS_EmptySet DEF Sum

LEMMA SumTakeOut ==
  ASSUME NEW a, NEW S, IsFiniteSet(S), \A y \in S : a[y] \in Nat, NEW x \in S
  PROVE  Sum(a, S) = a[x] + Sum(a, S \ {x})
  <1> DEFINE rest == Tokens(a, S \ {x})
             mine == TokensOf(a, x)
  <1>1. IsFiniteSet(mine) /\ Cardinality(mine) = a[x]
    BY TokensOfOne
  <1>2. IsFiniteSet(S \ {x})
    BY FS_RemoveElement
  <1>3. IsFiniteSet(rest) /\ Cardinality(rest) \in Nat
    BY <1>2, TokensFinite, FS_CardinalityType
  <1>4. Tokens(a, S) = mine \cup rest
    BY DEF Tokens
  <1>5. mine \cap rest = {}
    BY DEF Tokens, TokensOf
  <1> HIDE DEF rest, mine
  <1>6. Cardinality(mine \cup rest) =
          Cardinality(mine) + Cardinality(rest) - Cardinality(mine \cap rest)
    BY <1>1, <1>3, FS_Union
  <1>7. Cardinality(mine \cap rest) = 0
    BY <1>5, FS_EmptySet
  <1> QED
    BY <1>1, <1>3, <1>4, <1>6, <1>7 DEF Sum, rest

LEMMA SumMonotonic ==
  ASSUME NEW a, NEW S, IsFiniteSet(S), \A x \in S : a[x] \in Nat,
         NEW T \in SUBSET S
  PROVE  Sum(a, T) <= Sum(a, S)
  <1>1. Tokens(a, T) \in SUBSET Tokens(a, S)
    BY DEF Tokens
  <1> QED
    BY <1>1, TokensFinite, FS_Subset DEF Sum

LEMMA SumAgrees ==
  ASSUME NEW a, NEW b, NEW S, \A x \in S : a[x] = b[x]
  PROVE  Sum(a, S) = Sum(b, S)
  <1>1. \A x \in S : TokensOf(a, x) = TokensOf(b, x)
    BY DEF TokensOf
  <1>2. Tokens(a, S) = Tokens(b, S)
    BY <1>1 DEF Tokens
  <1> QED
    BY <1>2 DEF Sum

\* The fold of MapThenSumSet, taken as the function it chooses
Pick(s) == CHOOSE x \in s : TRUE
FoldsTo(S, a, g) ==
  g = [s \in SUBSET S |-> IF s = {} THEN 0 ELSE a[Pick(s)] + g[s \ {Pick(s)}]]

LEMMA SumFolds ==
  ASSUME NEW a, NEW S, IsFiniteSet(S), \A x \in S : a[x] \in Nat
  PROVE  FoldsTo(S, a, [s \in SUBSET S |-> Sum(a, s)])
  <1> DEFINE g == [s \in SUBSET S |-> Sum(a, s)]
  <1> SUFFICES ASSUME NEW s \in SUBSET S
               PROVE  g[s] = IF s = {} THEN 0 ELSE a[Pick(s)] + g[s \ {Pick(s)}]
    BY DEF FoldsTo
  <1>1. CASE s = {}
    BY <1>1, SumEmpty
  <1>2. CASE s # {}
    <2>1. Pick(s) \in s
      BY <1>2, Zenon DEF Pick
    <2>2. IsFiniteSet(s) /\ \A x \in s : a[x] \in Nat
      BY FS_Subset
    <2>3. Sum(a, s) = a[Pick(s)] + Sum(a, s \ {Pick(s)})
      BY <2>1, <2>2, SumTakeOut
    <2> QED
      BY <1>2, <2>3
  <1> QED
    BY <1>1, <1>2

LEMMA FoldsOnce ==
  ASSUME NEW a, NEW S, IsFiniteSet(S), NEW g, FoldsTo(S, a, g),
         NEW h, FoldsTo(S, a, h)
  PROVE  g = h
  <1> DEFINE B == {s \in SUBSET S : g[s] # h[s]}
  <1>1. CASE B = {}
    BY <1>1 DEF FoldsTo
  <1>2. CASE B # {}
    <2>1. PICK m \in B : \A t \in B : t \subseteq m => t = m
      <3>1. B \in SUBSET SUBSET S
        OBVIOUS
      <3> HIDE DEF B
      <3> QED
        BY <1>2, <3>1, SmallestSet
    <2>2. m # {}
      BY <2>1 DEF FoldsTo
    <2>3. Pick(m) \in m
      BY <2>2, Zenon DEF Pick
    <2>4. g[m \ {Pick(m)}] = h[m \ {Pick(m)}]
      BY <2>1, <2>3
    <2> QED
      BY <2>1, <2>2, <2>4 DEF FoldsTo
  <1> QED
    BY <1>1, <1>2

LEMMA MapThenSum ==
  ASSUME NEW a, NEW S, IsFiniteSet(S), \A x \in S : a[x] \in Nat
  PROVE  MapThenSumSet(LAMBDA i : a[i], S) = Sum(a, S)
  <1> DEFINE h == [s \in SUBSET S |-> Sum(a, s)]
             g == CHOOSE g : FoldsTo(S, a, g)
  <1>1. FoldsTo(S, a, h)
    BY SumFolds
  <1>2. FoldsTo(S, a, g)
    BY <1>1, Zenon
  <1>3. MapThenSumSet(LAMBDA i : a[i], S) = g[S]
    BY Zenon DEF MapThenSumSet, MapThenFoldSet, FoldsTo, Pick
  <1>4. g = h
    <2> HIDE DEF g, h
    <2> QED
      BY <1>1, <1>2, FoldsOnce
  <1> QED
    BY <1>3, <1>4

-----------------------------------------------------------------------------
(* Funds.  Only finitely many starts ever got a hold, and the sums of      *)
(* FundsCovered range over them.                                           *)

HoldsMade == {i \in Intents : hold[i] # "none"}
Kept(w) == {i \in Intents : /\ WalletOf[i] = w
                            /\ hold[i] \in {"HELD", "RECONCILIATION_REQUIRED"}
                            /\ ~releasedAt[i]}
Late(w) == {i \in Intents : WalletOf[i] = w /\ releasedAt[i] /\ paid[i]}
Covered(w) == Sum(holdAmount, Kept(w)) <= balance[w] + Sum(usage, Late(w))

FundsInv == IsFiniteSet(HoldsMade) /\ \A w \in Wallets : Covered(w)

\* Which sums are sums of finitely many natural numbers
LEMMA HoldSets ==
  ASSUME IInv, IsFiniteSet(HoldsMade), NEW w \in Wallets
  PROVE  /\ IsFiniteSet(Kept(w)) /\ \A i \in Kept(w) : holdAmount[i] \in Nat
         /\ IsFiniteSet(Late(w)) /\ \A i \in Late(w) : usage[i] \in Nat
         /\ IsFiniteSet(Outstanding(w))
         /\ \A i \in Outstanding(w) : holdAmount[i] \in Nat
         /\ Sum(holdAmount, Kept(w)) \in Nat
         /\ Sum(usage, Late(w)) \in Nat
         /\ Sum(holdAmount, Outstanding(w)) \in Nat
         /\ balance[w] \in Nat
  <1>1. /\ Kept(w) \in SUBSET HoldsMade /\ Outstanding(w) \in SUBSET HoldsMade
        /\ Late(w) \in SUBSET HoldsMade
    <2>1. \A i \in Intents : paid[i] => hold[i] = "CAPTURED"
      BY DEF IInv, Coherent
    <2> QED
      BY <2>1 DEF Kept, Outstanding, Late, HoldsMade
  <1>2. \A i \in Intents : holdAmount[i] \in Nat /\ usage[i] \in Nat
    BY DEF IInv, TypeOK
  <1>3. \A i \in HoldsMade : i \in Intents
    BY DEF HoldsMade
  <1>4. IsFiniteSet(Kept(w)) /\ IsFiniteSet(Late(w)) /\ IsFiniteSet(Outstanding(w))
    BY <1>1, FS_Subset
  <1>5. /\ \A i \in Kept(w) : holdAmount[i] \in Nat
        /\ \A i \in Late(w) : usage[i] \in Nat
        /\ \A i \in Outstanding(w) : holdAmount[i] \in Nat
    BY <1>1, <1>2, <1>3
  <1>6. balance[w] \in Nat
    BY DEF IInv, TypeOK
  <1> QED
    BY <1>4, <1>5, <1>6, SumType

LEMMA CoveredIsFunds ==
  ASSUME IInv, FundsInv
  PROVE  FundsCovered
  <1> SUFFICES ASSUME NEW w \in Wallets
               PROVE  MapThenSumSet(LAMBDA i : holdAmount[i], Kept(w))
                        <= balance[w] + MapThenSumSet(LAMBDA i : usage[i], Late(w))
    <2>1. \A w \in Wallets :
            LET ours == {i \in Intents : WalletOf[i] = w}
            IN  /\ {i \in ours : hold[i] \in {"HELD", "RECONCILIATION_REQUIRED"}
                                 /\ ~releasedAt[i]} = Kept(w)
                /\ {i \in ours : releasedAt[i] /\ paid[i]} = Late(w)
      BY DEF Kept, Late
    <2> QED
      BY <2>1, Zenon DEF FundsCovered
  <1>1. /\ MapThenSumSet(LAMBDA i : holdAmount[i], Kept(w)) = Sum(holdAmount, Kept(w))
        /\ MapThenSumSet(LAMBDA i : usage[i], Late(w)) = Sum(usage, Late(w))
    BY HoldSets, MapThenSum DEF FundsInv
  <1> QED
    BY <1>1 DEF FundsInv, Covered

\* What a step may do to the money: nothing, or one of four things.
Rests    == /\ UNCHANGED <<hold, holdAmount, releasedAt, paid, balance>>
            /\ \A j \in Intents : paid[j] => usage'[j] = usage[j]
Releases(i) == /\ hold[i] = "HELD" /\ UNCHANGED usage
               /\ \E s \in {"NOT_ATTEMPTED", "CONFIRMED_ABSENT"} : ReleaseHold(i, s)
Settles(i)  == /\ session[i] \in {"OPEN", "ENDED"} /\ Settle(i)
               /\ UNCHANGED <<holdAmount, releasedAt, usage>>
MoneyStep == \/ Rests
             \/ \E i \in Intents : Admit(i) \/ Releases(i) \/ Settles(i)
             \/ \E w \in Wallets : TopUp(w)

LEMMA FinalizeSettles ==
  ASSUME IInv, NEW i \in Intents, Finalize(i), session[i] # "none", UNCHANGED usage
  PROVE  Rests \/ Settles(i)
  <1>1. session[i] \in SessionStates
    BY DEF IInv, TypeOK
  <1> QED
    BY <1>1 DEF Finalize, Rests, Settles, SessionStates

LEMMA MoneySteps ==
  ASSUME IInv, [Next]_vars
  PROVE  MoneyStep
  <1> USE DEF MoneyStep
  <1>1. CASE UNCHANGED <<moneyVars, usage>>
    BY <1>1 DEF Rests, moneyVars
  <1>2. ASSUME NEW i \in Intents, Handler(i)
        PROVE  MoneyStep
    <2>1. CASE Admit(i)
      BY <2>1
    <2>2. CASE MappingFails(i)
      BY <2>2 DEF MappingFails, Releases, halVars
    <2>3. CASE ~Admit(i) /\ ~MappingFails(i)
      BY <1>1, <1>2, <2>3 DEF Handler, SendStart, StartAnswered, StartUnanswered, RecordAnswer, RecordFailure, Abandon, cmsVars, halVars
    <2> QED
      BY <2>1, <2>2, <2>3
  <1>3. ASSUME NEW i \in Intents, HAL(i)
        PROVE  MoneyStep
    <2>1. CASE TransactionCompletes(i)
      <3>1. \A j \in Intents : paid[j] => usage'[j] = usage[j]
        BY <2>1 DEF TransactionCompletes, IInv, TypeOK, Coherent, Evidence
      <3> QED
        BY <2>1, <3>1 DEF TransactionCompletes, Rests, cmsVars, moneyVars
    <2>2. CASE ~TransactionCompletes(i)
      BY <1>1, <1>3, <2>2 DEF HAL, HALReceivesStart, StartLost, ChargerAnswers, TransactionStarts, cmsVars
    <2> QED
      BY <2>1, <2>2
  <1>4. ASSUME NEW i \in Intents, FactIngress(i)
        PROVE  MoneyStep
    <2>1. CASE ApplyCompletedFact(i)
      BY <1>1, <2>1, FinalizeSettles DEF ApplyCompletedFact, cmsVars, halVars
    <2>2. CASE ~ApplyCompletedFact(i)
      BY <1>1, <1>4, <2>2 DEF FactIngress, ApplyCommandFact, ApplyStartedFact, halVars
    <2> QED
      BY <2>1, <2>2
  <1>5. ASSUME NEW r \in Reconcilers, WorkOn(r)
        PROVE  MoneyStep
    <2>1. look[r].item \in Intents
      BY <1>5, LookEvidence DEF WorkOn, At, ReadCommand, WriteCommand, RecordLookupFailure, HandleAbsent, ReadTransaction, ReadItsCommand, WriteItsCommand, ReconcileStart, MarkStart, MaterializeCompletion
    <2>2. CASE HandleAbsent(r)
      BY <1>1, <2>1, <2>2 DEF HandleAbsent, Releases, cmsVars, halVars
    <2>3. CASE MaterializeCompletion(r)
      BY <2>1, <2>3, LookEvidence, FinalizeSettles DEF MaterializeCompletion, At, halVars
    <2>4. CASE ~HandleAbsent(r) /\ ~MaterializeCompletion(r)
      BY <1>1, <1>5, <2>4 DEF WorkOn, ReadCommand, WriteCommand, RecordLookupFailure, ReadTransaction, ReadItsCommand, WriteItsCommand, ReconcileStart, MarkStart, cmsVars, halVars
    <2> QED
      BY <2>2, <2>3, <2>4
  <1>6. ASSUME NEW r \in Reconcilers, Reconcile(r)
        PROVE  MoneyStep
    <2>1. ASSUME NEW i \in Intents, ReconcileSettlement(r, i)
          PROVE  MoneyStep
      BY <2>1 DEF ReconcileSettlement, Settles, halVars
    <2> QED
      BY <1>1, <1>5, <1>6, <2>1 DEF Reconcile, ListCommand, ListStranded, ReadCompletion, cmsVars, halVars
  <1>7. ASSUME NEW r \in Reconcilers, Disturbed(r)
        PROVE  MoneyStep
    BY <1>1, <1>7 DEF Disturbed, CommandLookupFails, StrandedLookupFails, ReconcilerStops, cmsVars, halVars
  <1>8. CASE UNCHANGED vars
    BY <1>1, <1>8 DEF vars, cmsVars, halVars
  <1> QED
    BY <1>2, <1>3, <1>4, <1>6, <1>7, <1>8 DEF Next, Work

\* Nothing moved: the sums are over the same sets and the same numbers.
LEMMA FundsRest ==
  ASSUME IInv, FundsInv, Rests
  PROVE  FundsInv'
  <1>1. HoldsMade' = HoldsMade
    BY DEF HoldsMade, Rests
  <1>2. ASSUME NEW w \in Wallets
        PROVE  Covered(w)'
    <2>1. Kept(w)' = Kept(w) /\ Late(w)' = Late(w)
      BY DEF Kept, Late, Rests
    <2>2. \A i \in Late(w) : usage'[i] = usage[i]
      BY DEF Late, Rests
    <2>3. Sum(usage', Late(w)) = Sum(usage, Late(w))
      BY <2>2, SumAgrees
    <2>4. holdAmount' = holdAmount /\ balance' = balance
      BY DEF Rests
    <2> QED
      BY <2>1, <2>3, <2>4 DEF FundsInv, Covered
  <1> QED
    BY <1>1, <1>2 DEF FundsInv

\* The admission leaves room for the hold it makes beside those that count.
LEMMA FundsAdmit ==
  ASSUME IInv, TypeOK', FundsInv, NEW i \in Intents, Admit(i)
  PROVE  FundsInv'
  <1> DEFINE v == WalletOf[i]
             h == holdAmount'[i]
  <1>1. /\ hold' = [hold EXCEPT ![i] = "HELD"] /\ hold[i] = "none"
        /\ UNCHANGED <<releasedAt, paid, balance, usage>>
        /\ ~releasedAt[i] /\ h \in Nat
        /\ \A j \in Intents \ {i} : holdAmount'[j] = holdAmount[j]
    BY DEF Admit, halVars, IInv, Coherent, TypeOK
  <1>2. HoldsMade' = HoldsMade \cup {i}
    BY <1>1 DEF HoldsMade, IInv, TypeOK
  <1>3. IsFiniteSet(HoldsMade')
    BY <1>2, FS_AddElement DEF FundsInv
  <1>4. v \in Wallets
    BY ChargingAssumption
  <1>5. Sum(holdAmount, Outstanding(v)) + h <= balance[v]
    <2>1. Reserved(v) = Sum(holdAmount, Outstanding(v))
      BY <1>4, HoldSets, MapThenSum DEF Reserved, FundsInv
    <2>2. PICK nominal \in Nominals, sessionPriced \in BOOLEAN :
            /\ nominal <= balance[v] - Reserved(v) - Buffer
            /\ h = HoldFor(nominal, sessionPriced)
      BY DEF Admit, IInv, TypeOK
    <2>3. nominal \in Nat /\ Buffer \in Nat
      BY ChargingAssumption
    <2>4. h <= nominal + Buffer
      BY <2>2, <2>3 DEF HoldFor
    <2>5. Sum(holdAmount, Outstanding(v)) \in Nat /\ balance[v] \in Nat
      BY <1>4, HoldSets DEF FundsInv
    <2> HIDE DEF v, h
    <2> QED
      BY <1>1, <2>1, <2>2, <2>3, <2>4, <2>5
  <1>6. ASSUME NEW w \in Wallets
        PROVE  Covered(w)'
    <2>0. /\ Sum(holdAmount, Kept(w)) \in Nat /\ Sum(usage, Late(w)) \in Nat
          /\ balance[w] \in Nat /\ Covered(w)
      BY HoldSets DEF FundsInv
    <2>1. Late(w)' = Late(w) /\ usage' = usage /\ balance' = balance
      BY <1>1 DEF Late
    <2>2. i \notin Kept(w)
      BY <1>1 DEF Kept
    <2>3. Sum(holdAmount', Kept(w)) = Sum(holdAmount, Kept(w))
      <3>1. \A j \in Kept(w) : holdAmount'[j] = holdAmount[j]
        BY <1>1, <2>2 DEF Kept
      <3> QED
        BY <3>1, SumAgrees
    <2>4. CASE w # v
      <3>1. Kept(w)' = Kept(w)
        BY <1>1, <2>4 DEF Kept, IInv, TypeOK
      <3> QED
        BY <2>0, <2>1, <2>3, <3>1 DEF Covered
    <2>5. CASE w = v
      <3>1. Kept(w)' = Kept(w) \cup {i}
        BY <1>1, <2>5 DEF Kept, IInv, TypeOK
      <3>2. /\ IsFiniteSet(Kept(w)') /\ \A j \in Kept(w)' : holdAmount'[j] \in Nat
            /\ Kept(w)' \ {i} = Kept(w)
        <4>1. IsFiniteSet(Kept(w))
          BY HoldSets DEF FundsInv
        <4>2. IsFiniteSet(Kept(w) \cup {i})
          BY <4>1, FS_AddElement
        <4>3. \A j \in Intents : holdAmount'[j] \in Nat
          BY DEF TypeOK
        <4>4. Kept(w)' \ {i} = Kept(w) /\ Kept(w)' \subseteq Intents
          BY <2>2, <3>1 DEF Kept
        <4> QED
          BY <3>1, <4>2, <4>3, <4>4
      <3>3. Sum(holdAmount', Kept(w)') = h + Sum(holdAmount', Kept(w)' \ {i})
        BY <3>1, <3>2, SumTakeOut
      <3>4. Sum(holdAmount, Kept(w)) <= Sum(holdAmount, Outstanding(w))
        <4>1. Kept(w) \in SUBSET Outstanding(w)
          BY DEF Kept, Outstanding
        <4> QED
          BY <4>1, HoldSets, SumMonotonic DEF FundsInv
      <3>5. Sum(holdAmount, Outstanding(w)) \in Nat
        BY HoldSets DEF FundsInv
      <3>6. Sum(holdAmount', Kept(w)') <= balance[w]
        <4> HIDE DEF h, v
        <4>1. Sum(holdAmount', Kept(w)') = h + Sum(holdAmount, Kept(w))
          BY <2>3, <3>2, <3>3
        <4>2. Sum(holdAmount, Outstanding(w)) + h <= balance[w] /\ h \in Nat
          BY <1>1, <1>5, <2>5
        <4> QED
          BY <2>0, <3>4, <3>5, <4>1, <4>2
      <3>7. Sum(holdAmount', Kept(w)') \in Nat
        BY <3>2, SumType
      <3> QED
        BY <2>0, <2>1, <3>6, <3>7 DEF Covered
    <2> QED
      BY <2>4, <2>5
  <1> QED
    BY <1>3, <1>6 DEF FundsInv

\* Less is kept, and no less was debited late.
LEMMA FundsShrink ==
  ASSUME IInv, TypeOK', FundsInv, NEW w \in Wallets,
         UNCHANGED <<holdAmount, usage, balance>>,
         Kept(w)' \subseteq Kept(w), Late(w)' = Late(w)
  PROVE  Covered(w)'
  <1>1. Sum(holdAmount, Kept(w)') <= Sum(holdAmount, Kept(w))
    BY HoldSets, SumMonotonic DEF FundsInv
  <1>2. /\ Sum(holdAmount, Kept(w)) \in Nat /\ Sum(usage, Late(w)) \in Nat
        /\ balance[w] \in Nat /\ Covered(w)
    BY HoldSets DEF FundsInv
  <1>3. Sum(holdAmount, Kept(w)') \in Nat
    <2>1. /\ IsFiniteSet(Kept(w)) /\ \A j \in Kept(w) : holdAmount[j] \in Nat
      BY HoldSets DEF FundsInv
    <2>2. IsFiniteSet(Kept(w)')
      BY <2>1, FS_Subset
    <2> QED
      BY <2>1, <2>2, SumType
  <1> QED
    BY <1>1, <1>2, <1>3 DEF Covered

LEMMA FundsRelease ==
  ASSUME IInv, TypeOK', FundsInv, NEW i \in Intents, Releases(i)
  PROVE  FundsInv'
  <1>1. /\ hold' = [hold EXCEPT ![i] = "RELEASED"] /\ hold[i] = "HELD"
        /\ releasedAt' = [releasedAt EXCEPT ![i] = TRUE]
        /\ UNCHANGED <<holdAmount, paid, balance, usage>>
    BY DEF Releases, ReleaseHold
  <1>2. HoldsMade' = HoldsMade
    BY <1>1 DEF HoldsMade, IInv, TypeOK
  <1>3. ASSUME NEW w \in Wallets
        PROVE  Covered(w)'
    <2>1. ~paid[i]
      BY <1>1 DEF IInv, Coherent
    <2>2. \A j \in Intents \ {i} : hold'[j] = hold[j] /\ releasedAt'[j] = releasedAt[j]
      BY <1>1 DEF IInv, TypeOK
    <2>3. hold'[i] = "RELEASED"
      BY <1>1 DEF IInv, TypeOK
    <2>4. Kept(w)' \subseteq Kept(w) /\ Late(w)' = Late(w)
      BY <1>1, <2>1, <2>2, <2>3 DEF Kept, Late
    <2> QED
      BY <1>1, <2>4, FundsShrink
  <1> QED
    BY <1>2, <1>3 DEF FundsInv

\* A debit is taken from the hold it was reserved with, or is a late one.
LEMMA FundsSettle ==
  ASSUME IInv, TypeOK', FundsInv, NEW i \in Intents, Settles(i)
  PROVE  FundsInv'
  <1> DEFINE v == WalletOf[i]
             u == usage[i]
  <1>1. /\ UNCHANGED <<holdAmount, releasedAt, usage>>
        /\ hold[i] # "none" /\ ~paid[i] /\ v \in Wallets /\ u \in Nat
        /\ ~releasedAt[i] => hold[i] \in {"HELD", "RECONCILIATION_REQUIRED"}
    <2>1. /\ Coherent(i) /\ hold[i] \in HoldStates /\ session[i] \in {"OPEN", "ENDED"}
          /\ usage[i] \in Nat /\ WalletOf[i] \in Wallets
      BY ChargingAssumption DEF Settles, IInv, TypeOK
    <2> QED
      BY <2>1 DEF Settles, Coherent, HoldStates
  <1>2. /\ hold'[i] \in {"RECONCILIATION_REQUIRED", "CAPTURED"}
        /\ \A j \in Intents \ {i} : hold'[j] = hold[j]
    BY DEF Settles, Settle, IInv, TypeOK
  <1>3. HoldsMade' = HoldsMade
    BY <1>1, <1>2 DEF HoldsMade
  <1>4. CASE NeedsReconciliation(i)
    <2>1. /\ hold'[i] = "RECONCILIATION_REQUIRED" /\ UNCHANGED <<paid, balance>>
      BY <1>4 DEF Settles, Settle, IInv, TypeOK
    <2>2. ASSUME NEW w \in Wallets
          PROVE  Covered(w)'
      <3>1. Kept(w)' \subseteq Kept(w) /\ Late(w)' = Late(w)
        BY <1>1, <1>2, <2>1 DEF Kept, Late
      <3> QED
        BY <1>1, <2>1, <3>1, FundsShrink
    <2> QED
      BY <1>3, <2>2 DEF FundsInv
  <1>5. CASE ~NeedsReconciliation(i)
    <2>1. /\ hold'[i] = "CAPTURED"
          /\ paid' = [paid EXCEPT ![i] = paid[i] \/ u > 0]
          /\ balance' = [balance EXCEPT ![v] = balance[v] - u]
      BY <1>1, <1>5 DEF Settles, Settle, IInv, TypeOK
    <2>2. /\ \A j \in Intents \ {i} : paid'[j] = paid[j]
          /\ paid'[i] <=> u > 0
      <3>1. paid \in [Intents -> BOOLEAN]
        BY DEF IInv, TypeOK
      <3>2. paid'[i] = (paid[i] \/ u > 0)
        BY <2>1, <3>1, Zenon
      <3>3. \A j \in Intents \ {i} : paid'[j] = paid[j]
        BY <2>1, <3>1
      <3> QED
        BY <1>1, <3>2, <3>3, Zenon
    <2>3. u <= holdAmount[i] /\ holdAmount[i] \in Nat
      <3>1. holdAmount[i] \in Nat
        BY DEF IInv, TypeOK
      <3> QED
        BY <1>1, <1>5, <3>1 DEF NeedsReconciliation
    <2>4. ASSUME NEW w \in Wallets, w # v
          PROVE  Covered(w)'
      <3>1. Kept(w)' = Kept(w) /\ Late(w)' = Late(w)
        BY <1>1, <1>2, <2>2, <2>4 DEF Kept, Late
      <3>2. balance'[w] = balance[w]
        BY <2>1, <2>4 DEF IInv, TypeOK
      <3> QED
        BY <1>1, <3>1, <3>2 DEF FundsInv, Covered
    <2>5. Covered(v)'
      <3>0. /\ Sum(holdAmount, Kept(v)) \in Nat /\ Sum(usage, Late(v)) \in Nat
            /\ IsFiniteSet(Kept(v)) /\ IsFiniteSet(Late(v))
            /\ \A j \in Kept(v) : holdAmount[j] \in Nat
            /\ \A j \in Late(v) : usage[j] \in Nat
            /\ balance[v] \in Nat /\ Covered(v)
        BY <1>1, HoldSets DEF FundsInv
      <3>1. balance'[v] = balance[v] - u
        BY <1>1, <2>1 DEF IInv, TypeOK
      <3>2. Kept(v)' = Kept(v) \ {i}
        BY <1>1, <1>2, <2>1 DEF Kept
      <3>3. Sum(holdAmount, Kept(v) \ {i}) \in Nat
        <4>1. IsFiniteSet(Kept(v) \ {i})
          BY <3>0, FS_RemoveElement
        <4> QED
          BY <3>0, <4>1, SumType
      <3>4. CASE ~releasedAt[i]
        <4>1. i \in Kept(v)
          BY <1>1, <3>4 DEF Kept
        <4>2. Sum(holdAmount, Kept(v)) = holdAmount[i] + Sum(holdAmount, Kept(v) \ {i})
          BY <3>0, <4>1, SumTakeOut
        <4>3. Late(v)' = Late(v)
          BY <1>1, <2>2, <3>4 DEF Late
        <4>4. Sum(holdAmount, Kept(v) \ {i}) <= balance[v] - u + Sum(usage, Late(v))
          <5> HIDE DEF u, v
          <5> QED
            BY <1>1, <2>3, <3>0, <3>3, <4>2 DEF Covered
        <4> QED
          BY <1>1, <3>1, <3>2, <4>3, <4>4 DEF Covered
      <3>5. CASE releasedAt[i]
        <4>1. Kept(v) \ {i} = Kept(v)
          BY <3>5 DEF Kept
        <4>2. CASE u = 0
          <5>1. Late(v)' = Late(v)
            BY <1>1, <2>2, <4>2 DEF Late
          <5>2. balance'[v] = balance[v]
            BY <3>0, <3>1, <4>2
          <5> QED
            BY <1>1, <3>0, <3>2, <4>1, <5>1, <5>2 DEF Covered
        <4>3. CASE u # 0
          <5>1. Late(v)' = Late(v) \cup {i} /\ i \notin Late(v)
            BY <1>1, <2>2, <3>5, <4>3 DEF Late
          <5>2. /\ IsFiniteSet(Late(v)') /\ Late(v)' \ {i} = Late(v)
                /\ \A j \in Late(v)' : usage[j] \in Nat
            <6>1. IsFiniteSet(Late(v) \cup {i})
              BY <3>0, FS_AddElement
            <6> QED
              BY <1>1, <3>0, <5>1, <6>1
          <5>3. Sum(usage, Late(v)') = u + Sum(usage, Late(v))
            <6>1. Sum(usage, Late(v)') = usage[i] + Sum(usage, Late(v)' \ {i})
              BY <5>1, <5>2, SumTakeOut
            <6> QED
              BY <5>2, <6>1
          <5>4. Sum(holdAmount, Kept(v)) <= (balance[v] - u) + Sum(usage, Late(v)')
            <6> HIDE DEF u, v
            <6> QED
              BY <1>1, <3>0, <5>3 DEF Covered
          <5> QED
            BY <1>1, <3>1, <3>2, <4>1, <5>4 DEF Covered
        <4> QED
          BY <4>2, <4>3
      <3> QED
        BY <3>4, <3>5
    <2> QED
      BY <1>3, <2>4, <2>5 DEF FundsInv
  <1> QED
    BY <1>4, <1>5

LEMMA FundsTopUp ==
  ASSUME IInv, FundsInv, NEW v \in Wallets, TopUp(v)
  PROVE  FundsInv'
  <1>1. UNCHANGED <<hold, holdAmount, releasedAt, paid, usage>>
    BY DEF TopUp, halVars
  <1>2. HoldsMade' = HoldsMade
    BY <1>1 DEF HoldsMade
  <1>3. ASSUME NEW w \in Wallets
        PROVE  Covered(w)'
    <2>1. Kept(w)' = Kept(w) /\ Late(w)' = Late(w)
      BY <1>1 DEF Kept, Late
    <2>2. balance'[w] >= balance[w] /\ balance'[w] \in Nat
      BY DEF TopUp, IInv, TypeOK
    <2>3. /\ Sum(holdAmount, Kept(w)) \in Nat /\ Sum(usage, Late(w)) \in Nat
          /\ balance[w] \in Nat /\ Covered(w)
      BY HoldSets DEF FundsInv
    <2>4. Sum(holdAmount, Kept(w)) <= balance'[w] + Sum(usage, Late(w))
      BY <2>2, <2>3 DEF Covered
    <2> QED
      BY <1>1, <2>1, <2>4 DEF Covered
  <1> QED
    BY <1>2, <1>3 DEF FundsInv

LEMMA FundsInit ==
  ASSUME Init
  PROVE  FundsInv
  <1>1. HoldsMade = {}
    BY DEF Init, HoldsMade
  <1>2. ASSUME NEW w \in Wallets
        PROVE  Covered(w)
    <2>1. Kept(w) = {} /\ Late(w) = {}
      BY DEF Init, Kept, Late
    <2>2. balance[w] \in Nat
      BY ChargingAssumption DEF Init
    <2> QED
      BY <2>1, <2>2, SumEmpty DEF Covered
  <1> QED
    BY <1>1, <1>2, FS_EmptySet DEF FundsInv

LEMMA FundsNext ==
  ASSUME IInv, TypeOK', FundsInv, [Next]_vars
  PROVE  FundsInv'
  BY MoneySteps, FundsRest, FundsAdmit, FundsRelease, FundsSettle, FundsTopUp DEF MoneyStep

\* What is reserved in a wallet is there, whatever is admitted at once and
\* however late a released start is debited: the reservations exceed the
\* balance by no more than those late debits.
THEOREM FundsAreCovered == Spec => []FundsCovered
  <1>1. IInv /\ FundsInv => FundsCovered
    BY CoveredIsFunds
  <1> QED
    BY <1>1, FundsInit, FundsNext, Inductive, TypeCorrect, PTL DEF Spec
=============================================================================
