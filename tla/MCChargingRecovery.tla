------------------------- MODULE MCChargingRecovery -------------------------
(***************************************************************************)
(* Recovery in two parts: what the reconcilers of two CMS instances do to  *)
(* one start (ChargingRecovery), which assumes that a listed row is worked *)
(* on in the end, and the order of their passes (ReconcilePass), which     *)
(* shows it.  A behaviour is one part's: "part" says which.                *)
(***************************************************************************)
EXTENDS ChargingRecovery

CONSTANTS i1, c1, w1, Items, PassWorkers, BatchLimit, Contested, Unfunded

VARIABLES part, stage, starts, ended, refused, short, cursor, pass, since, trouble

Pass == INSTANCE ReconcilePass

passVars == <<stage, starts, ended, refused, short, cursor, pass, since, trouble>>
allVars == <<recoveryVars, passVars, part>>

OneConnector == [i \in Intents |-> c1]
OneWallet    == [i \in Intents |-> w1]

PartsInit == part \in {"item", "pass"} /\ RecoveryInit /\ Pass!PassInit

InItem(A) == part = "item" /\ A /\ UNCHANGED <<passVars, part>>
InPass(A) == part = "pass" /\ A /\ UNCHANGED <<recoveryVars, part>>

PartsNext ==
  \/ part = "item" /\ RecoveryNext /\ UNCHANGED <<passVars, part>>
  \/ part = "pass" /\ Pass!PassNext /\ UNCHANGED <<recoveryVars, part>>

\* The fairness of ChargingRecovery for its part.
ItemFairness ==
  /\ WF_allVars(InItem(OutageEnds))
  /\ \A r \in Reconcilers :
       /\ WF_allVars(InItem(WorkOn(r) /\ UNCHANGED outage))
       /\ \A i \in Intents :
            /\ SF_allVars(InItem(ListCommand(r, i) /\ UNCHANGED outage))
            /\ SF_allVars(InItem(ListStranded(r, i) /\ UNCHANGED outage))
            /\ SF_allVars(InItem(ReadCompletion(r, i) /\ UNCHANGED outage))

\* Workers run and tick, errors stop, and what refuses a start ends.
PassFairness ==
  /\ WF_allVars(InPass(Pass!TroubleEnds))
  /\ \A w \in PassWorkers : WF_allVars(InPass(Pass!Step(w)))
  /\ \A i \in Items : WF_allVars(InPass(Pass!Environment /\ Pass!ConflictEnds(i)))

PartsSpec == PartsInit /\ [][PartsNext]_allVars /\ ItemFairness /\ PassFairness

-----------------------------------------------------------------------------
\* The passes come to every item, and to every open session in its turn.
ReachedInTurn == []Pass!PassTypeOK /\ Pass!InTurn /\ Pass!EveryItemIsReached
=============================================================================
