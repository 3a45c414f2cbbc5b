--------------------------- MODULE RechargeLedger ---------------------------
(***************************************************************************)
(* What a customer is promised of wallet recharges: money captured for an  *)
(* idempotency key, once and with one amount, is added to the balance at   *)
(* most once, and nothing else is.                                         *)
(***************************************************************************)
EXTENDS Integers

CONSTANTS Keys, Amounts

VARIABLES
  captured, \* the recharges whose money the provider has taken
  credited, \* those among them that were added to the balance
  balance

ledgerVars == <<captured, credited, balance>>

Recharges == [key : Keys, amount : Amounts]

LedgerInit ==
  /\ captured = {}
  /\ credited = {}
  /\ balance = 0

TakeMoney(g) ==
  /\ \A h \in captured : h.key # g.key
  /\ captured' = captured \cup {g}
  /\ UNCHANGED <<credited, balance>>

Credit(g) ==
  /\ g \in captured \ credited
  /\ credited' = credited \cup {g}
  /\ balance' = balance + g.amount
  /\ UNCHANGED captured

LedgerNext == \E g \in Recharges : TakeMoney(g) \/ Credit(g)

LedgerSpec == LedgerInit /\ [][LedgerNext]_ledgerVars
=============================================================================
