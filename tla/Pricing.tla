------------------------------- MODULE Pricing -------------------------------
(***************************************************************************)
(* What a session may cost, what is held for it and what it costs          *)
(* (customerauth/charging.go, tariff_calculation.go and                    *)
(* commercial/session_amount.go).  Money is in hundredths, energy in Wh,   *)
(* time in seconds, taxes in percent.  A tariff's price is finer than      *)
(* money, by PriceScale (numeric(12,4): 100), and is for PerUnit of what   *)
(* it bills (1000 Wh or 60 s); amounts are rounded to hundredths.          *)
(***************************************************************************)
EXTENDS Integers, FiniteSets, FiniteSetsExt

CONSTANTS
  PerUnit,     \* how many units of measure a price is for
  PriceScale,  \* what the money's unit is in units of prices
  Precision,   \* parts of 1 that a quotient keeps (16 digits: 10^16)
  Prices, TaxRates, Balances, Buffers, Minimum,
  LimitValues, \* the values customers give for a limit
  Readings     \* the consumptions and durations a session may end with

VARIABLES
  terms,   \* the tariff, the tax, what the wallet has left, the CPO's buffer
  limits,  \* what the start was admitted with
  bill     \* the amount of the ended session, and whether it was settled

pricingVars == <<terms, limits, bill>>

BilledByMeasure == {"ENERGY", "TIME"}
Kinds == BilledByMeasure \cup {"SESSION"}
NoLimits == [status |-> "none"]
NoBill == [status |-> "none"]

\* decimal.Round(2) of n / d, for n >= 0: halves are rounded away from zero.
Rounded(n, d) == (2 * n + d) \div (2 * d)

\* decimal.Div of n by d, in parts of 1: rounded as well.
Divided(n, d) == Rounded(n * Precision, d)

\* SessionAmountFromSnapshots and amountWithGST: the same formula twice, over
\* the tariff at admission and over its snapshot at settlement.  What is billed
\* is in parts of PerUnit * Precision.  Minutes are a rounded quotient; the
\* quotient for energy is exact, as its price has 4 digits and 1000 Wh have 3.
Billed(t, wh, s) ==
  CASE t.kind = "ENERGY" -> t.price * wh * Precision
    [] t.kind = "TIME" -> t.price * Divided(s, PerUnit) * PerUnit
    [] t.kind = "SESSION" -> t.price * PerUnit * Precision

SessionAmount(t, wh, s) ==
  Rounded(Billed(t, wh, s) * (100 + t.tax), PerUnit * Precision * 100 * PriceScale)

\* The price of q in the dimension the tariff bills.
AmountOf(t, q) == SessionAmount(t, q, q)

-----------------------------------------------------------------------------
(* Admission, over what the wallet has left under the wallet's lock.       *)

\* AffordableBound: the first amount from the quotient down that the budget
\* pays.  The quotient may have been rounded either way: what is too much is
\* taken back, what is too little stays.  A bound of 0 stands for a refusal.
Quotient(t, budget) ==
  (Divided(budget * 100 * PriceScale, t.price * (100 + t.tax)) * PerUnit) \div Precision
AffordableBound(t, budget) ==
  Max({0} \cup {q \in 1..Quotient(t, budget) : AmountOf(t, q) <= budget})

Bounded(t) == t.kind \in BilledByMeasure /\ t.price > 0
CanAfford(t, budget) ==
  IF t.kind = "SESSION" THEN AmountOf(t, 0) <= budget
  ELSE ~Bounded(t) \/ AffordableBound(t, budget) > 0

\* An upper bound on one dimension and where it comes from; 0 is no bound.
NoBound == [value |-> 0, source |-> "NONE"]

\* applyEnergyConstraint, applyDurationConstraint
Constrained(b, value, source) ==
  IF value <= 0 \/ (b.value > 0 /\ b.value < value) THEN b
  ELSE [value |-> value, source |-> source]

WalletBounds(t, usable) ==
  [d \in BilledByMeasure |->
     IF Bounded(t) /\ d = t.kind
     THEN [value |-> AffordableBound(t, usable), source |-> "WALLET"] ELSE NoBound]

\* The bounds with the customer's own, which is in its own dimension; money
\* is in the tariff's, and of a fixed price only a ceiling.
CustomerBounds(t, usable, type, value) ==
  LET bounds == WalletBounds(t, usable)
      d == IF type = "MONEY" THEN t.kind ELSE type
      v == CASE type = "ENERGY" -> value
             [] type = "TIME" -> value * PerUnit
             [] type = "MONEY" -> AffordableBound(t, value)
  IN  IF type = "AUTO" \/ d = "SESSION" THEN bounds
      ELSE [bounds EXCEPT ![d] = Constrained(@, v, type)]

\* Mutant: any bound makes the hold smaller, in whatever dimension it is.
NominalOfAny(t, bounds) ==
  IF t.kind = "SESSION" THEN AmountOf(t, 0)
  ELSE AmountOf(t, bounds[IF bounds["ENERGY"].value > 0 THEN "ENERGY" ELSE "TIME"].value)

\* The hold is of what the tightest bound in the billed dimension costs, and
\* of the buffer on top if the meter can run past it.
Nominal(t, bounds) ==
  IF t.kind = "SESSION" THEN AmountOf(t, 0) ELSE AmountOf(t, bounds[t.kind].value)

HoldAmount(t, nominal, buffer) ==
  IF nominal = 0 \/ t.kind = "SESSION" THEN nominal ELSE nominal + buffer

\* StartCharging: usableWalletBalance and deriveChargingLimit
Usable == terms.available - terms.buffer
MoneyIsRefused(t, value) ==
  value > Usable \/ (t.kind \in BilledByMeasure /\ t.price = 0) \/ ~CanAfford(t, value)

StartCharging(type, value) ==
  LET t == terms.tariff
      bounds == CustomerBounds(t, Usable, type, value)
      nominal == Nominal(t, bounds)
  IN  /\ limits = NoLimits
      /\ IF \/ terms.available < Minimum \/ Usable <= 0
            \/ ~CanAfford(t, Usable)
            \/ type = "MONEY" /\ MoneyIsRefused(t, value)
            \/ nominal > Usable
         THEN limits' = [status |-> "refused"]
         ELSE limits' = [status |-> "admitted", bounds |-> bounds,
                         hold |-> HoldAmount(t, nominal, terms.buffer)]
      /\ UNCHANGED <<terms, bill>>

-----------------------------------------------------------------------------
\* finalizeAuthoritativeCompletion and settleCompletedSession: an amount the
\* hold does not cover leaves the session to reconciliation.
CompleteSession(wh, s) ==
  LET amount == SessionAmount(terms.tariff, wh, s)
  IN  /\ limits.status = "admitted" /\ bill = NoBill
      /\ bill' = [status |-> IF amount > limits.hold THEN "RECONCILIATION_REQUIRED"
                                                     ELSE "SETTLED",
                  used |-> [ENERGY |-> wh, TIME |-> s], amount |-> amount]
      /\ UNCHANGED <<terms, limits>>

PricedTariffs == [kind : Kinds, price : Prices, tax : TaxRates]

PricingInit ==
  /\ terms \in [tariff : PricedTariffs, available : Balances, buffer : Buffers]
  /\ limits = NoLimits
  /\ bill = NoBill

PricingNext ==
  \/ StartCharging("AUTO", 0)
  \/ \E v \in LimitValues, type \in BilledByMeasure \cup {"MONEY"} : StartCharging(type, v)
  \/ \E wh, s \in Readings : CompleteSession(wh, s)

-----------------------------------------------------------------------------
TypeOK ==
  /\ terms \in [tariff : PricedTariffs, available : Balances, buffer : Buffers]
  /\ limits.status \in {"none", "refused", "admitted"}
  /\ limits.status = "admitted" => limits.hold \in Nat
  /\ bill.status \in {"none", "SETTLED", "RECONCILIATION_REQUIRED"}

\* A start is admitted only with a hold the wallet covers, and a session that
\* HAL stops at its limits, or past them by less than the buffer, is paid out
\* of that hold: rounding never makes the bill the greater.  A hold that was
\* rounded to nothing has no buffer.
Exceeds(d) ==
  limits.bounds[d].value > 0 /\ bill.used[d] > limits.bounds[d].value

Overrun ==
  LET t == terms.tariff IN
  IF t.kind \in BilledByMeasure /\ Exceeds(t.kind)
  THEN bill.amount - AmountOf(t, limits.bounds[t.kind].value) ELSE 0

HoldCoversTheLimit ==
  /\ TypeOK
  /\ limits.status = "admitted" =>
    /\ limits.hold <= terms.available
    /\ bill.status = "RECONCILIATION_REQUIRED" =>
         Overrun > IF limits.hold = 0 THEN 0 ELSE terms.buffer
=============================================================================
