---------------------------- MODULE WalletLedger ----------------------------
(***************************************************************************)
(* What the wallets promise their customers, without HAL, facts, retries   *)
(* or reconciliation: money leaves a wallet only as the bill of a start    *)
(* that was admitted for that wallet, once per start, and never more than  *)
(* the amount the start was admitted with or than the wallet holds.  Which *)
(* amount a start is admitted with is not said here.                       *)
(***************************************************************************)
EXTENDS Integers

CONSTANTS Intents, Wallets, WalletOf, InitialBalance, MaxTopUps

VARIABLES
  funds,   \* what each wallet holds
  credits, \* how often it was credited
  cap,     \* the amount each start was admitted with
  bill,    \* "none", "open" once admitted, "settled" once billed
  charged  \* what each start was billed

vars == <<funds, credits, cap, bill, charged>>

Init ==
  /\ funds = [w \in Wallets |-> InitialBalance]
  /\ credits = [w \in Wallets |-> 0]
  /\ cap = [i \in Intents |-> 0]
  /\ bill = [i \in Intents |-> "none"]
  /\ charged = [i \in Intents |-> 0]

Reserve(i) ==
  /\ bill[i] = "none"
  /\ bill' = [bill EXCEPT ![i] = "open"]
  /\ cap'[i] \in Nat
  /\ cap' = [cap EXCEPT ![i] = cap'[i]]
  /\ UNCHANGED <<funds, credits, charged>>

Bill(i) ==
  /\ bill[i] = "open"
  /\ bill' = [bill EXCEPT ![i] = "settled"]
  /\ \E a \in 0..funds[WalletOf[i]] :
       /\ a <= cap[i]
       /\ charged' = [charged EXCEPT ![i] = a]
       /\ funds' = [funds EXCEPT ![WalletOf[i]] = @ - a]
  /\ UNCHANGED <<credits, cap>>

Credit(w) ==
  /\ credits[w] < MaxTopUps
  /\ credits' = [credits EXCEPT ![w] = @ + 1]
  /\ funds' = [funds EXCEPT ![w] = @ + 1]
  /\ UNCHANGED <<cap, bill, charged>>

Next == \/ \E i \in Intents : Reserve(i) \/ Bill(i)
        \/ \E w \in Wallets : Credit(w)

Spec == Init /\ [][Next]_vars

=============================================================================
