-------------------------- MODULE ChargingRecovery --------------------------
(***************************************************************************)
(* What the reconciler guarantees once its environment is calm.  Until an  *)
(* outage ends, lookups fail and workers stop as in Charging; afterwards   *)
(* HAL answers and the workers run.  A reconciler works on what it listed  *)
(* and, because RunReconciler passes over its bounded, oldest-first batches *)
(* again and again, reaches every row that stays listed.  Facts, handlers  *)
(* and the charger owe nothing at any time.                                *)
(***************************************************************************)
EXTENDS Charging

VARIABLE outage \* lookups may fail and workers may stop

recoveryVars == <<vars, outage>>

OutageEnds ==
  /\ outage
  /\ outage' = FALSE
  /\ UNCHANGED vars

RecoveryNext ==
  \/ Work /\ UNCHANGED outage
  \/ outage /\ (\E r \in Reconcilers : Disturbed(r)) /\ UNCHANGED outage
  \/ OutageEnds

Fairness ==
  /\ WF_recoveryVars(OutageEnds)
  /\ \A r \in Reconcilers :
       /\ WF_vars(WorkOn(r))
       /\ \A i \in Intents :
            /\ SF_vars(ListCommand(r, i)) /\ SF_vars(ListStranded(r, i))
            /\ SF_vars(ReadCompletion(r, i))

RecoveryInit == Init /\ outage = TRUE

RecoverySpec == RecoveryInit /\ [][RecoveryNext]_recoveryVars /\ Fairness

-----------------------------------------------------------------------------
\* A session whose transaction HAL has completed ends even if the completion
\* fact is lost or was refused because it overtook the start fact.
CompletionRecovered ==
  \A i \in Intents :
    session[i] = "OPEN" /\ halTx[i] = "completed"
      ~> session[i] \in {"ENDED", "COMPLETED"}

\* A start that CMS knows was attempted and that HAL carried out gets its
\* session even if every fact about it is lost, unless CMS gave it up on a
\* 404 that HAL had answered before the request reached it.
StrandedStartRecovered ==
  \A i \in Intents :
    OpenIntent(i) /\ intent[i] # "REQUESTED" /\ halTx[i] # "none"
      ~> session[i] # "none" \/ releasedAt[i]

\* A start whose outcome was unknown and which never reached HAL is rejected,
\* so its hold and its connector become free.
AbsentStartReleased ==
  \A i \in Intents :
    intent[i] = "RECONCILIATION_REQUIRED" /\ wire[i] = "gone"
        /\ halCommand[i] = "none"
      ~> intent[i] = "REJECTED"

\* After an outage the reconcilers alone bring whatever was lost to its end.
LostWorkRecovered ==
  CompletionRecovered /\ StrandedStartRecovered /\ AbsentStartReleased
=============================================================================
