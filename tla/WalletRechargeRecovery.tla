----------------------- MODULE WalletRechargeRecovery -----------------------
(***************************************************************************)
(* Captured money reaches the wallet.  Verifications fail until an outage  *)
(* ends; the customer, as USERAPP_FE_HANDOFF.md:889-890 asks of the app,   *)
(* verifies again.  There is no webhook and no worker: nothing else would  *)
(* find a captured payment.                                                *)
(***************************************************************************)
EXTENDS WalletRecharge

VARIABLE outage \* verifications may stop

recoveryVars == <<vars, outage>>

OutageEnds ==
  /\ outage
  /\ outage' = FALSE
  /\ UNCHANGED vars

RecoveryNext ==
  \/ Work /\ UNCHANGED outage
  \/ outage /\ (\E v \in Verifiers : VerifyStops(v)) /\ UNCHANGED outage
  \/ OutageEnds

Fairness ==
  /\ WF_recoveryVars(OutageEnds)
  /\ \A v \in Verifiers : WF_vars(Resolve(v))
  /\ \A v \in Verifiers, p \in Payments : SF_vars(LoadOrder(v, p))

RecoveryInit == Init /\ outage = TRUE

RecoverySpec == RecoveryInit /\ [][RecoveryNext]_recoveryVars /\ Fairness

-----------------------------------------------------------------------------
\* A captured payment is credited, although verifications that saw it before
\* it was captured keep writing their uncaptured state over it.
CapturedIsCredited ==
  \A p \in Payments, k \in Keys :
    payment[p].state = "captured" /\ KeyOfPayment(p) = k ~> creditOf[k] # 0
=============================================================================
