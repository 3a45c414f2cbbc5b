----------------------------- MODULE MCCharging -----------------------------
(* Two starts; the cfg chooses who shares a connector and who a wallet.    *)
EXTENDS Charging, TLC

CONSTANTS i1, i2, c1, c2, w1, w2

SameConnector == [i \in Intents |-> c1]
OwnConnector  == [i \in Intents |-> IF i = i1 THEN c1 ELSE c2]
SameWallet    == [i \in Intents |-> w1]
OwnWallet     == [i \in Intents |-> IF i = i1 THEN w1 ELSE w2]

\* Sound where the two starts share connector and wallet
StartSymmetry == Permutations(Intents)

\* Sound where they share the wallet and each has its own connector
SwapSymmetry == {i1 :> i2 @@ i2 :> i1 @@ c1 :> c2 @@ c2 :> c1}
=============================================================================
