-------------------- MODULE ChargerOperationsRecovery ----------------------
(***************************************************************************)
(* A charger operation comes to its end.  Workers fail and die until an    *)
(* outage ends; afterwards their passes go on, and a worker that has taken *)
(* the row up is done with it before the next unit of time.  Handlers may  *)
(* pause, be cancelled or never come; HAL, the charger and the network owe *)
(* nothing.                                                                *)
(***************************************************************************)
EXTENDS ChargerOperations

VARIABLE outage \* workers may fail and be slow

recoveryVars == <<vars, outage>>

OutageEnds ==
  /\ outage
  /\ outage' = FALSE
  /\ UNCHANGED vars

PromptTick ==
  /\ outage \/ \A w \in Workers : at[w] = "idle"
  /\ Tick

RecoveryNext ==
  \/ (\E a \in Actors : Proceed(a) \/ TakeUp(a)) /\ UNCHANGED outage
  \/ (\E h \in Handlers : Disturbed(h)) /\ UNCHANGED outage
  \/ outage /\ (\E w \in Workers : Disturbed(w)) /\ UNCHANGED outage
  \/ (Environment \/ PromptTick) /\ UNCHANGED outage
  \/ OutageEnds

Fairness ==
  /\ WF_recoveryVars(OutageEnds)
  /\ WF_vars(PromptTick)
  /\ \A w \in Workers : WF_vars(Proceed(w)) /\ SF_vars(TakeUp(w))

RecoveryInit == Init /\ outage = TRUE

RecoverySpec == RecoveryInit /\ [][RecoveryNext]_recoveryVars /\ Fairness

-----------------------------------------------------------------------------
\* An accepted operation is dispatched, be it that whoever claimed it died or
\* was too late, over and over again.
Dispatched == state \in Unattempted /\ valid ~> attempted

\* A delivery whose request never reaches HAL, be it that its sender died
\* before it sent it, does not stay uncertain.
AbsenceFound ==
  state \in Uncertain /\ hal = "none"
    ~> state = "CONFIRMED_ABSENT" \/ hal # "none"

\* What HAL has confirmed gets to CMS, whatever answers were lost.
ConfirmationFound ==
  state \in Uncertain /\ hal = "OCPP_CONFIRMED" ~> state = "OCPP_CONFIRMED"

\* No operation stays open once dispatch or lookup could conclude it.
OperationsConclude == Dispatched /\ AbsenceFound /\ ConfirmationFound
=============================================================================
