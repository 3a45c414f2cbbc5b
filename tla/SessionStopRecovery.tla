------------------------ MODULE SessionStopRecovery ------------------------
(***************************************************************************)
(* A stop that went wrong becomes stoppable again.  Lookups fail and their *)
(* callers stop until an outage ends; afterwards the reconciler passes     *)
(* over its bounded, oldest-first batches again and again, and a customer  *)
(* whose session is not stopped calls again.  Calls, facts, HAL and the    *)
(* charger owe nothing.                                                    *)
(***************************************************************************)
EXTENDS SessionStop

VARIABLE outage \* lookups may fail and their callers may stop

recoveryVars == <<stopVars, outage>>

OutageEnds ==
  /\ outage
  /\ outage' = FALSE
  /\ UNCHANGED stopVars

RecoveryNext ==
  \/ Work /\ UNCHANGED outage
  \/ outage /\ (\E w \in Lookers : LookupDisturbed(w)) /\ UNCHANGED outage
  \/ OutageEnds

Fairness ==
  /\ WF_recoveryVars(OutageEnds)
  /\ \A w \in Lookers : WF_stopVars(Resolve(w))
  /\ \A w \in Customers : SF_stopVars(CallAgain(w))
  /\ \A w \in Reconcilers, c \in Stops : SF_stopVars(ListCommand(w, c))

RecoveryInit == StopInit /\ outage = TRUE

RecoverySpec == RecoveryInit /\ [][RecoveryNext]_recoveryVars /\ Fairness

-----------------------------------------------------------------------------
\* A session whose newest stop never reached HAL, be it that the call died
\* before it sent it, does not stay STOP_PENDING.
LostStopReactivates ==
  newest # NoStop /\ call[newest] = "done" /\ wire[newest] # "inflight"
      /\ halCommand[newest] = "none" /\ session = "STOP_PENDING"
    ~> session # "STOP_PENDING"

\* Nor does one whose newest stop the charger refused, be it that a worker
\* died between storing the refusal and applying it to the session.
RefusedStopReactivates ==
  newest # NoStop /\ halCommand[newest] = "OCPP_REJECTED"
      /\ session = "STOP_PENDING"
    ~> session # "STOP_PENDING"

\* A session is not left STOP_PENDING by a stop that had its verdict or
\* cannot get one any more.
StopsAreResolved == LostStopReactivates /\ RefusedStopReactivates
=============================================================================
