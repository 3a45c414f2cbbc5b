---------------------------- MODULE SessionStop ----------------------------
(***************************************************************************)
(* Stopping one materialized charging session: StopCharging and the stop   *)
(* reconciliation of src/customerauth, the command pass of the reconciler  *)
(* (src/halops/operations.go), command facts, and the completion they race.*)
(* A database transaction is one action; what is read from HAL or from the *)
(* database before a transaction is used after it, stale or not.           *)
(*                                                                         *)
(* A member of Stops is one StopCharging call that found the session       *)
(* ACTIVE, and the STOP command it creates.  A call that finds it          *)
(* STOP_PENDING or RECONCILIATION_REQUIRED looks the newest command up;    *)
(* a member of Customers is somebody who makes such calls.                 *)
(***************************************************************************)
EXTENDS Integers

CONSTANTS
  Stops,       \* bound: the calls that find the session ACTIVE
  Customers,   \* who calls again while a stop is pending
  Reconcilers, \* the reconciler workers, one per CMS instance
  Replies,     \* bound: how the charger may answer RemoteStop
  NoStop       \* no command

ASSUME StopAssumption ==
  /\ NoStop \notin Stops
  /\ Customers \cap Reconcilers = {}
  /\ Replies \subseteq {"OCPP_ACCEPTED", "OCPP_REJECTED"}

VARIABLES
  session,     \* charging_sessions.status; ENDED once end_time is set
  command,     \* hal_command_records.state of each STOP command
  identified,  \* its hal_command_id is set
  newest,      \* the STOP command created last
  call,        \* where a call is
  answer,      \* the command state in HAL's answer to it
  look,        \* what a customer or a worker looks up, and what it read
  wire,        \* the STOP request on its way to HAL
  halCommand,  \* HAL's durable command
  halTx,       \* the charger's transaction
  facts        \* command facts HAL has sent and CMS has not answered

callVars    == <<call, answer>>
stopRowVars == <<session, command, identified, newest>>
halVars     == <<wire, halCommand, halTx>>
stopVars    == <<callVars, stopRowVars, halVars, look, facts>>

Lookers == Customers \cup Reconcilers

SessionStates == {"ACTIVE", "STOP_PENDING", "RECONCILIATION_REQUIRED", "ENDED"}
\* PERSISTED also stands for HAL's other delivery states before an answer.
StopHALStates == {"PERSISTED", "OCPP_ACCEPTED", "OCPP_REJECTED"}
CommandStates == StopHALStates \cup
                 {"none", "RECONCILIATION_REQUIRED", "CONFIRMED_ABSENT"}
CallSteps     == {"idle", "active", "created", "sent", "answered", "stored",
                  "done"}
LookSteps     == {"command", "read", "absent", "written"}

Idle == [step |-> "idle", item |-> NoStop, state |-> "none"]
Looks == {Idle} \cup
         [step : LookSteps, item : Stops, state : StopHALStates \cup {"none"}]

StopTypeOK ==
  /\ session \in SessionStates
  /\ command \in [Stops -> CommandStates]
  /\ identified \in [Stops -> BOOLEAN]
  /\ newest \in Stops \cup {NoStop}
  /\ call \in [Stops -> CallSteps]
  /\ answer \in [Stops -> StopHALStates \cup {"none"}]
  /\ look \in [Lookers -> Looks]
  /\ wire \in [Stops -> {"none", "inflight", "gone"}]
  /\ halCommand \in [Stops -> StopHALStates \cup {"none"}]
  /\ halTx \in {"running", "completed"}
  /\ facts \subseteq [stop : Stops, state : StopHALStates]

StopInit ==
  /\ session = "ACTIVE"
  /\ command = [c \in Stops |-> "none"]
  /\ identified = [c \in Stops |-> FALSE]
  /\ newest = NoStop
  /\ call = [c \in Stops |-> "idle"]
  /\ answer = [c \in Stops |-> "none"]
  /\ look = [w \in Lookers |-> Idle]
  /\ wire = [c \in Stops |-> "none"]
  /\ halCommand = [c \in Stops |-> "none"]
  /\ halTx = "running"
  /\ facts = {}

-----------------------------------------------------------------------------
(* The call.                                                               *)

\* The read that precedes the transaction
ReadActive(c) ==
  /\ call[c] = "idle"
  /\ session = "ACTIVE"
  /\ call' = [call EXCEPT ![c] = "active"]
  /\ UNCHANGED <<answer, stopRowVars, halVars, look, facts>>

\* The command is created and the ACTIVE session moved in one transaction;
\* an update that finds it no longer ACTIVE rolls both back with a 409.
CreateStop(c) ==
  /\ call[c] = "active"
  /\ IF session = "ACTIVE"
     THEN /\ command' = [command EXCEPT ![c] = "PERSISTED"]
          /\ session' = "STOP_PENDING"
          /\ newest' = c
          /\ call' = [call EXCEPT ![c] = "created"]
     ELSE /\ call' = [call EXCEPT ![c] = "done"]
          /\ UNCHANGED <<command, session, newest>>
  /\ UNCHANGED <<answer, identified, halVars, look, facts>>

SendStop(c) ==
  /\ call[c] = "created"
  /\ call' = [call EXCEPT ![c] = "sent"]
  /\ wire' = [wire EXCEPT ![c] = "inflight"]
  /\ UNCHANGED <<answer, stopRowVars, halCommand, halTx, look, facts>>

StopAnswered(c) ==
  /\ call[c] = "sent"
  /\ halCommand[c] # "none"
  /\ call' = [call EXCEPT ![c] = "answered"]
  /\ answer' = [answer EXCEPT ![c] = halCommand[c]]
  /\ UNCHANGED <<stopRowVars, halVars, look, facts>>

\* Mutant: the status of a session is written without a look at its end.
SetAnyStatus(s) == session' = s

\* The transactions that set a status of the session leave an ended one alone.
SetStatus(s) == session' = IF session = "ENDED" THEN session ELSE s

\* markHALStopCommandFailure
FailCommand(c) ==
  /\ command' = [command EXCEPT ![c] = "RECONCILIATION_REQUIRED"]
  /\ SetStatus("STOP_PENDING")
  /\ UNCHANGED <<identified, newest>>

\* No answer, an uncertain one, or a refusal by HAL.  The failure carries no
\* data, so that it and its record are one step.
RecordFailure(c) ==
  /\ call[c] = "sent"
  /\ FailCommand(c)
  /\ call' = [call EXCEPT ![c] = "done"]
  /\ UNCHANGED <<answer, halVars, look, facts>>

\* The answer is stored unless a reconciler has stored HAL's identity before.
StoreAnswer(c) ==
  /\ call[c] = "answered"
  /\ command' = IF identified[c] THEN command
                ELSE [command EXCEPT ![c] = answer[c]]
  /\ identified' = [identified EXCEPT ![c] = TRUE]
  /\ call' = [call EXCEPT ![c] = "stored"]
  /\ UNCHANGED <<answer, session, newest, halVars, look, facts>>

\* Mutant: any state short of acceptance makes the session stoppable again.
AcceptedPends(state) == IF state = "OCPP_ACCEPTED" THEN "STOP_PENDING" ELSE "ACTIVE"

\* ReconcileStopCommand: of HAL's states only a refusal reactivates.
StatusAfter(state) == IF state = "OCPP_REJECTED" THEN "ACTIVE" ELSE "STOP_PENDING"

ApplyAnswer(c) ==
  /\ call[c] = "stored"
  /\ SetStatus(StatusAfter(answer[c]))
  /\ call' = [call EXCEPT ![c] = "done"]
  /\ answer' = [answer EXCEPT ![c] = "none"]
  /\ UNCHANGED <<command, identified, newest, halVars, look, facts>>

\* The process dies, a transaction fails, or the client goes away.
AbandonStop(c) ==
  /\ call[c] \in {"active", "created", "sent", "answered", "stored"}
  /\ call' = [call EXCEPT ![c] = "done"]
  /\ answer' = [answer EXCEPT ![c] = "none"]
  /\ UNCHANGED <<stopRowVars, halVars, look, facts>>

-----------------------------------------------------------------------------
(* Looking commands up: reconcileExistingStopCommand for a customer who    *)
(* calls again, the command pass of ReconcilePending for a worker.         *)

At(w, step)      == look[w].step = step
Goto(w, step)    == look' = [look EXCEPT ![w].step = step]
GoIdle(w)        == look' = [look EXCEPT ![w] = Idle]

LookUp(w, c) ==
  /\ At(w, "idle")
  /\ look' = [look EXCEPT ![w] = [step |-> "command", item |-> c, state |-> "none"]]
  /\ UNCHANGED <<callVars, stopRowVars, halVars, facts>>

CallAgain(w) ==
  /\ session \in {"STOP_PENDING", "RECONCILIATION_REQUIRED"}
  /\ newest # NoStop
  /\ LookUp(w, newest)

ListCommand(w, c) ==
  /\ command[c] = "RECONCILIATION_REQUIRED"
  /\ LookUp(w, c)

\* GetCommand: what HAL has under the CMS command id, or its 404
ReadCommand(w) ==
  LET found == halCommand[look[w].item]
  IN  /\ At(w, "command")
      /\ look' = [look EXCEPT ![w].step = IF found = "none" THEN "absent" ELSE "read",
                              ![w].state = found]
      /\ UNCHANGED <<callVars, stopRowVars, halVars, facts>>

\* The update of ReconcileCommand
WriteCommand(w) ==
  LET c == look[w].item
  IN  /\ At(w, "read")
      /\ command' = [command EXCEPT ![c] = look[w].state]
      /\ identified' = [identified EXCEPT ![c] = TRUE]
      /\ Goto(w, "written")
      /\ UNCHANGED <<callVars, session, newest, halVars, facts>>

\* ReconcileStopCommand
ApplyState(w) ==
  /\ At(w, "written")
  /\ SetStatus(StatusAfter(look[w].state))
  /\ GoIdle(w)
  /\ UNCHANGED <<callVars, command, identified, newest, halVars, facts>>

\* Mutant: the absence is recorded, the session is forgotten.
RecordAbsence(w) ==
  /\ At(w, "absent")
  /\ command' = [command EXCEPT ![look[w].item] = "CONFIRMED_ABSENT"]
  /\ GoIdle(w)
  /\ UNCHANGED <<callVars, session, identified, newest, halVars, facts>>

\* ReconcileConfirmedAbsentStopCommand
ApplyAbsence(w) ==
  /\ At(w, "absent")
  /\ command' = [command EXCEPT ![look[w].item] = "CONFIRMED_ABSENT"]
  /\ SetStatus("ACTIVE")
  /\ GoIdle(w)
  /\ UNCHANGED <<callVars, identified, newest, halVars, facts>>

\* recordCommandLookupFailure writes the command only
RecordLookupFailure(w) ==
  /\ At(w, "command")
  /\ IF w \in Customers
     THEN FailCommand(look[w].item)
     ELSE /\ command' = [command EXCEPT ![look[w].item] = "RECONCILIATION_REQUIRED"]
          /\ UNCHANGED <<session, identified, newest>>
  /\ GoIdle(w)
  /\ UNCHANGED <<callVars, halVars, facts>>

LookupStops(w) ==
  /\ ~At(w, "idle")
  /\ GoIdle(w)
  /\ UNCHANGED <<callVars, stopRowVars, halVars, facts>>

-----------------------------------------------------------------------------
(* Facts and completion.                                                   *)

\* applyCommandFact; a STOP command never becomes MATERIALIZED
ApplyCommandFact(f) ==
  /\ f \in facts
  /\ command' = [command EXCEPT ![f.stop] = f.state]
  /\ facts' = facts \ {f}
  /\ UNCHANGED <<callVars, session, identified, newest, halVars, look>>

\* finalizeAuthoritativeCompletion, from the fact or from a recovery read
EndSession ==
  /\ halTx = "completed" /\ session # "ENDED"
  /\ session' = "ENDED"
  /\ UNCHANGED <<callVars, command, identified, newest, halVars, look, facts>>

\* A worker read HAL's transaction and could not make sense of it:
\* ObserveAuthoritativeCompletionReconciliation.
ObserveInvalid ==
  /\ session \in {"ACTIVE", "STOP_PENDING"}
  /\ session' = "RECONCILIATION_REQUIRED"
  /\ UNCHANGED <<callVars, command, identified, newest, halVars, look, facts>>

-----------------------------------------------------------------------------
(* HAL and the charger, from how CMS uses them.                            *)

Moves(c, s) ==
  /\ halCommand' = [halCommand EXCEPT ![c] = s]
  /\ facts' = facts \cup {[stop |-> c, state |-> s]}
  /\ UNCHANGED <<callVars, stopRowVars, halTx, look>>

HALReceivesStop(c) ==
  /\ wire[c] = "inflight"
  /\ wire' = [wire EXCEPT ![c] = "gone"]
  /\ halCommand' = [halCommand EXCEPT ![c] = "PERSISTED"]
  /\ UNCHANGED <<callVars, stopRowVars, halTx, look, facts>>

StopLost(c) ==
  /\ wire[c] = "inflight"
  /\ wire' = [wire EXCEPT ![c] = "gone"]
  /\ UNCHANGED <<callVars, stopRowVars, halCommand, halTx, look, facts>>

ChargerAnswers(c) ==
  /\ halCommand[c] = "PERSISTED"
  /\ \E s \in Replies : Moves(c, s)
  /\ UNCHANGED wire

\* Carried out, or stopped at the charger
TransactionCompletes ==
  /\ halTx = "running"
  /\ halTx' = "completed"
  /\ UNCHANGED <<callVars, stopRowVars, wire, halCommand, look, facts>>

-----------------------------------------------------------------------------
Call(c) ==
  \/ ReadActive(c) \/ CreateStop(c) \/ SendStop(c) \/ StopAnswered(c)
  \/ RecordFailure(c) \/ StoreAnswer(c) \/ ApplyAnswer(c)
  \/ AbandonStop(c)

Resolve(w) ==
  \/ ReadCommand(w) \/ WriteCommand(w) \/ ApplyState(w) \/ ApplyAbsence(w)

LookupDisturbed(w) == RecordLookupFailure(w) \/ LookupStops(w)

HAL(c) == HALReceivesStop(c) \/ StopLost(c) \/ ChargerAnswers(c)

Work ==
  \/ \E c \in Stops : Call(c) \/ HAL(c)
  \/ \E w \in Customers : CallAgain(w)
  \/ \E w \in Reconcilers, c \in Stops : ListCommand(w, c)
  \/ \E w \in Lookers : Resolve(w)
  \/ \E f \in facts : ApplyCommandFact(f)
  \/ EndSession \/ ObserveInvalid \/ TransactionCompletes

StopNext == Work \/ \E w \in Lookers : LookupDisturbed(w)

StopSpec == StopInit /\ [][StopNext]_stopVars

-----------------------------------------------------------------------------
\* An ended session is never opened again, although refusals, absences and
\* failures of its stop commands are found out before it ends and written
\* after it did.
EndedStaysEnded == [][session = "ENDED" => session' = "ENDED"]_stopVars

\* A session becomes ACTIVE again only on a verdict of HAL about one of its
\* commands: the charger refused it, or HAL did not have it when it was asked.
\* No timeout, failure or delivery state reactivates it.
ReactivatedOnVerdict ==
  [][session # "ACTIVE" /\ session' = "ACTIVE" =>
       \E c \in Stops : \/ halCommand[c] = "OCPP_REJECTED"
                        \/ command'[c] = "CONFIRMED_ABSENT"]_stopVars
=============================================================================
